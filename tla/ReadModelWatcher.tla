-------------------------- MODULE ReadModelWatcher --------------------------
(***************************************************************************)
(* A watcher of a read model (readModels/ReadModelWatcher.ts): the stream  *)
(* of changes of each connection, their conversion one after the other,    *)
(* the buffer between them and the one consumer, and the resumption after  *)
(* the connection or a stream is lost.                                     *)
(*                                                                         *)
(* A change is the number of its emission; the kernel sends it to the      *)
(* stream that has subscribed by then, and never again.  A loop whose      *)
(* stream was cancelled does nothing more but end, once what it has        *)
(* handed over is delivered; so only the current one has a state.          *)
(***************************************************************************)
EXTENDS Naturals, Sequences, SequencesExt

CONSTANTS
  BufferLimit,     \* _bufferLimit
  MaxChanges,      \* bound: changes that the kernel emits
  MaxDisconnects,  \* bound: losses of the connection
  MaxLosses        \* bound: streams, conversions and callbacks that fail

ASSUME WatcherAssumption ==
  BufferLimit \in Nat /\ MaxChanges \in Nat /\ MaxDisconnects \in Nat /\ MaxLosses \in Nat

VARIABLES
  resume, failOnOverflow,  \* options, which never change
  callback,      \* a callback is registered with onResubscribed
  online,        \* the lifecycle: isConnected
  controller,    \* _controller: the stream that is read, or 0
  opened,        \* streams opened so far
  loop,          \* where read() stands
  attached,      \* the kernel sends changes to the stream
  wire,          \* what the stream has still to hand to the loop
  acknowledged, hasSubscribed,              \* _acknowledged, _hasSubscribed
  chain,                                    \* _delivery: one delivery after the other
  buffered, waiting, stopped, restarting,   \* _buffered, _waiting, _stopped, _restartTimer
  emitted,       \* the kernel: changes emitted
  received,      \* history: the changes handed to deliver
  consumed,      \* history: what next() returned
  informedTo,    \* history: the application has queried after this change
  lossesLeft, disconnectsLeft

optionVars == <<resume, failOnOverflow>>
streamVars == <<controller, opened, loop, attached, wire, acknowledged, hasSubscribed, restarting>>
consumerVars == <<callback, buffered, waiting, stopped>>
historyVars == <<received, consumed, informedTo>>
kernelVars == <<online, emitted, lossesLeft, disconnectsLeft>>
watcherVars == <<optionVars, streamVars, chain, consumerVars, historyVars, kernelVars>>

WatcherInit ==
  /\ resume \in BOOLEAN /\ failOnOverflow \in BOOLEAN /\ callback \in BOOLEAN
  /\ online \in BOOLEAN
  /\ opened = (IF online THEN 1 ELSE 0) /\ controller = opened
  /\ loop = "reading" /\ attached = FALSE /\ wire = <<>>
  /\ acknowledged = FALSE /\ hasSubscribed = FALSE /\ restarting = FALSE
  /\ chain = <<>> /\ buffered = <<>> /\ waiting = FALSE /\ stopped = FALSE
  /\ received = <<>> /\ consumed = <<>> /\ informedTo = 0
  /\ emitted = 0 /\ lossesLeft = MaxLosses /\ disconnectsLeft = MaxDisconnects

-----------------------------------------------------------------------------
(* Pieces of the handlers. *)

ShouldResume == resume \/ callback

\* start()
Start ==
  IF ~stopped /\ controller = 0
  THEN /\ opened' = opened + 1 /\ controller' = opened + 1
       /\ loop' = "reading"
       /\ restarting' = FALSE
  ELSE UNCHANGED <<opened, controller, loop, restarting>>

\* cancelStream()
Cancel ==
  /\ controller' = 0 /\ loop' = "reading"
  /\ attached' = FALSE /\ wire' = <<>>

\* disconnect(): what was received is kept.
Disconnect == Cancel /\ acknowledged' = FALSE

\* A stream that ends while the connection stands is opened again by a timer,
\* otherwise by the next connection.  Mutant: always by the next connection.
ByNextConnection == FALSE
ByTimer == online
TimerSet == ByTimer

\* Whether a consumer is left waiting by finish().  Mutant: it is not settled.
NotSettled == waiting
AllSettled == FALSE
LeftWaiting == AllSettled

\* finish(): with "preserve", the consumer may still drain the buffer.
Finish(preserve) ==
  /\ stopped' = TRUE /\ restarting' = FALSE
  /\ Cancel
  /\ buffered' = IF preserve THEN buffered ELSE <<>>
  /\ callback' = FALSE
  /\ waiting' = LeftWaiting

-----------------------------------------------------------------------------
(* The kernel and the transport. *)

Emit ==
  /\ emitted < MaxChanges /\ ~stopped
  /\ emitted' = emitted + 1
  /\ wire' = IF attached THEN Append(wire, [kind |-> "change", change |-> emitted']) ELSE wire
  /\ UNCHANGED <<optionVars, controller, opened, loop, attached, acknowledged, hasSubscribed,
       restarting, chain, consumerVars, historyVars, online, lossesLeft, disconnectsLeft>>

Arrives(kind) == wire' = Append(wire, [kind |-> kind, change |-> 0])
OnTheWire(kind) == \E i \in DOMAIN wire : wire[i].kind = kind

\* The subscription takes effect; changes may come ahead of its marker.
Subscribes ==
  /\ controller # 0 /\ ~attached /\ wire = <<>>
  /\ attached' = TRUE
  /\ UNCHANGED <<optionVars, controller, opened, loop, wire, acknowledged, hasSubscribed,
       restarting, chain, consumerVars, historyVars, kernelVars>>

SendsMarker ==
  /\ attached /\ ~acknowledged /\ ~OnTheWire("subscribed")
  /\ Arrives("subscribed")
  /\ UNCHANGED <<optionVars, controller, opened, loop, attached, acknowledged, hasSubscribed,
       restarting, chain, consumerVars, historyVars, kernelVars>>

\* The stream completes, fails in the transport (codes 1, 4, 13, 14), or otherwise.
StreamLost(how) ==
  /\ controller # 0 /\ lossesLeft > 0
  /\ lossesLeft' = lossesLeft - 1
  /\ attached' = FALSE
  /\ Arrives(how)
  /\ UNCHANGED <<optionVars, controller, opened, loop, acknowledged, hasSubscribed,
       restarting, chain, consumerVars, historyVars, online, emitted, disconnectsLeft>>

-----------------------------------------------------------------------------
(* The loop: read(). *)

Next1(kind) == controller # 0 /\ loop = "reading" /\ wire # <<>> /\ Head(wire).kind = kind

\* The loop hands over a delivery and awaits it.
HandOver(kind, change, ahead) ==
  /\ chain' = Append(chain, [kind |-> kind, change |-> change, ahead |-> ahead, by |-> controller])
  /\ loop' = "delivering"
  /\ wire' = Tail(wire)

\* Whether the callbacks are told of a subscription.  Mutant: only of those that
\* follow a disconnect, and not of streams that ended by themselves.
ToldAfterDisconnect == hasSubscribed /\ callback /\ disconnectsLeft < MaxDisconnects
ToldAfterAny == hasSubscribed /\ callback
Told == ToldAfterAny

\* The application queries when it is first told, by the readiness of "subscribed",
\* for which the loop awaits nothing; later markers are delivered like changes.
TakeMarker ==
  /\ Next1("subscribed")
  /\ acknowledged' = TRUE /\ hasSubscribed' = TRUE
  /\ \/ /\ ~hasSubscribed /\ informedTo' = emitted
        /\ loop' = IF ~failOnOverflow /\ Len(buffered) >= BufferLimit THEN "capacity" ELSE "reading"
        /\ wire' = Tail(wire) /\ UNCHANGED chain
     \/ /\ hasSubscribed
        /\ HandOver(IF Told THEN "callback" ELSE "nothing", 0, FALSE)
        /\ UNCHANGED informedTo
  /\ UNCHANGED <<optionVars, controller, opened, attached, restarting, consumerVars, received,
       consumed, kernelVars>>

TakeChange ==
  /\ Next1("change")
  /\ received' = Append(received, Head(wire).change)
  /\ HandOver("change", Head(wire).change, ~acknowledged)
  /\ UNCHANGED <<optionVars, controller, opened, attached, acknowledged, hasSubscribed, restarting,
       consumerVars, consumed, informedTo, kernelVars>>

\* The end of a stream: restart(), or finish().
TakeEnd ==
  /\ Next1("ended") \/ Next1("lost") \/ Next1("refused")
  /\ IF ShouldResume /\ Head(wire).kind # "refused"
     THEN Disconnect /\ restarting' = TimerSet /\ UNCHANGED consumerVars
     ELSE Finish(TRUE) /\ UNCHANGED acknowledged
  /\ UNCHANGED <<optionVars, opened, hasSubscribed, chain, historyVars, kernelVars>>

-----------------------------------------------------------------------------
(* The deliveries, one after the other. *)

\* Mutant: only those of one stream wait for each other.
FirstOfStream(i) == \A j \in 1..(i - 1) : chain[j].by # chain[i].by
FirstOfAll(i) == i = 1
Due(i) == FirstOfAll(i)

\* Where the loop goes on, when it was its delivery, and with this buffer.
GoesOn(task, buffer) ==
  IF task.by # controller THEN loop
  ELSE IF acknowledged /\ ~failOnOverflow /\ Len(buffer) >= BufferLimit THEN "capacity"
  ELSE "reading"

Delivered(i) == i \in DOMAIN chain /\ Due(i) /\ chain' = RemoveAt(chain, i)

\* deliver(), when the change is converted.
Converted(i) ==
  /\ Delivered(i) /\ chain[i].kind = "change"
  /\ \/ stopped /\ UNCHANGED <<streamVars, consumerVars, consumed>>
     \/ /\ ~stopped /\ waiting
        /\ consumed' = Append(consumed, chain[i]) /\ waiting' = FALSE
        /\ loop' = GoesOn(chain[i], buffered)
        /\ UNCHANGED <<controller, opened, attached, wire, acknowledged, hasSubscribed, restarting,
             callback, buffered, stopped>>
     \/ /\ ~stopped /\ ~waiting /\ Len(buffered) < BufferLimit
        /\ buffered' = Append(buffered, chain[i])
        /\ loop' = GoesOn(chain[i], buffered')
        /\ UNCHANGED <<controller, opened, attached, wire, acknowledged, hasSubscribed, restarting,
             callback, waiting, stopped, consumed>>
     \/ /\ ~stopped /\ ~waiting /\ Len(buffered) >= BufferLimit
        /\ Finish(FALSE)
        /\ UNCHANGED <<opened, acknowledged, hasSubscribed, consumed>>
  /\ UNCHANGED <<optionVars, received, informedTo, kernelVars>>

\* notifyResubscribed(): the application queries what it may have missed.
Notified(i) ==
  /\ Delivered(i) /\ chain[i].kind # "change"
  /\ informedTo' = IF chain[i].kind = "callback" /\ callback THEN emitted ELSE informedTo
  /\ loop' = GoesOn(chain[i], buffered)
  /\ UNCHANGED <<optionVars, controller, opened, attached, wire, acknowledged, hasSubscribed,
       restarting, consumerVars, received, consumed, kernelVars>>

\* A conversion or a callback fails: that ends the watch.
DeliveryFails(i) ==
  /\ Delivered(i) /\ chain[i].kind # "nothing" /\ ~stopped
  /\ lossesLeft > 0 /\ lossesLeft' = lossesLeft - 1
  /\ Finish(FALSE)
  /\ UNCHANGED <<optionVars, opened, acknowledged, hasSubscribed, historyVars, online, emitted, disconnectsLeft>>

-----------------------------------------------------------------------------
(* The consumer. *)

\* next(): takes a change, upon which a loop that waits for capacity reads on.
TakeBuffered ==
  /\ ~waiting /\ buffered # <<>>
  /\ consumed' = Append(consumed, Head(buffered)) /\ buffered' = Tail(buffered)
  /\ loop' = IF loop = "capacity" THEN "reading" ELSE loop
  /\ UNCHANGED <<optionVars, controller, opened, attached, wire, acknowledged, hasSubscribed,
       restarting, chain, callback, waiting, stopped, received, informedTo, kernelVars>>

Wait ==
  /\ ~waiting /\ buffered = <<>> /\ ~stopped
  /\ waiting' = TRUE
  /\ UNCHANGED <<optionVars, streamVars, chain, callback, buffered, stopped, historyVars, kernelVars>>

\* dispose(), return(), or the abortion of the signal.
Dispose ==
  /\ ~stopped
  /\ Finish(FALSE)
  /\ UNCHANGED <<optionVars, opened, acknowledged, hasSubscribed, chain, historyVars, kernelVars>>

\* The function that onResubscribed returned.
Unregister ==
  /\ callback /\ callback' = FALSE
  /\ UNCHANGED <<optionVars, streamVars, chain, buffered, waiting, stopped, historyVars, kernelVars>>

-----------------------------------------------------------------------------
(* The handlers of the connection's lifecycle. *)

Disconnected ==
  /\ online /\ online' = FALSE
  /\ disconnectsLeft > 0 /\ disconnectsLeft' = disconnectsLeft - 1
  /\ IF ~stopped /\ ShouldResume THEN Disconnect /\ restarting' = FALSE
     ELSE UNCHANGED <<controller, loop, attached, wire, acknowledged, restarting>>
  /\ UNCHANGED <<optionVars, opened, hasSubscribed, chain, consumerVars, historyVars, emitted, lossesLeft>>

Connected ==
  /\ ~online /\ online' = TRUE
  /\ Start
  /\ UNCHANGED <<optionVars, attached, wire, acknowledged, hasSubscribed, chain, consumerVars,
       historyVars, emitted, lossesLeft, disconnectsLeft>>

\* The client fails for good.
ConnectionFailed ==
  /\ ~online /\ ~stopped
  /\ Finish(TRUE)
  /\ UNCHANGED <<optionVars, opened, acknowledged, hasSubscribed, chain, historyVars, kernelVars>>

RestartTimer ==
  /\ restarting /\ restarting' = FALSE
  /\ IF online THEN Start ELSE UNCHANGED <<opened, controller, loop>>
  /\ UNCHANGED <<optionVars, attached, wire, acknowledged, hasSubscribed, chain, consumerVars,
       historyVars, kernelVars>>

-----------------------------------------------------------------------------

\* The library, and the kernel's answer to a subscription.
WatcherProgress ==
  \/ Subscribes \/ SendsMarker
  \/ TakeMarker \/ TakeChange \/ TakeEnd
  \/ \E i \in DOMAIN chain : Converted(i) \/ Notified(i)
  \/ RestartTimer

WatcherNext ==
  \/ WatcherProgress
  \/ Emit \/ \E how \in {"ended", "lost", "refused"} : StreamLost(how)
  \/ \E i \in DOMAIN chain : DeliveryFails(i)
  \/ TakeBuffered \/ Wait \/ Dispose \/ Unregister
  \/ Disconnected \/ Connected \/ ConnectionFailed

WatcherSpec == WatcherInit /\ [][WatcherNext]_watcherVars

-----------------------------------------------------------------------------
(* Properties. *)

Got == consumed \o buffered
Converting == {i \in DOMAIN chain : chain[i].kind = "change"}
BeingConverted == {chain[i].change : i \in Converting}
NotGot == {received[i] : i \in (Len(Got) + 1)..Len(received)}
Rising(s) == \A i, j \in DOMAIN s : i < j => s[i] < s[j]

\* Until the watcher stops, every change that a loop has taken from its stream is
\* with the consumer, in the buffer or being converted, each once and in the order
\* in which they came, over all streams; and the buffer keeps its limit.
EveryChangeInOrder ==
  ~stopped => /\ Rising(received)
              /\ Len(Got) <= Len(received) /\ \A i \in DOMAIN Got : Got[i].change = received[i]
              /\ BeingConverted = NotGot
              /\ \A i, j \in Converting : i < j => chain[i].change < chain[j].change
              /\ Len(buffered) <= BufferLimit

\* "returned promises are awaited before the resumed stream reads further changes"
\* (read-models.md:75): of the changes that come from behind the marker of a
\* subscription, the consumer gets none of which it missed an earlier one without
\* having been told to query after that.
GapIsAnnounced ==
  callback => \A i \in DOMAIN Got : ~Got[i].ahead =>
    \A n \in 1..Got[i].change : n <= informedTo \/ \E j \in 1..i : Got[j].change = n

\* Nobody waits beside a change, or for a watcher that has stopped.
NobodyWaitsInVain == waiting => buffered = <<>> /\ ~stopped

\* A watcher that is to resume is subscribed again while there is a connection.
WatchResumes == online /\ ShouldResume ~> acknowledged \/ stopped \/ ~online \/ ~ShouldResume
=============================================================================
