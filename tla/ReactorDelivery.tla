-------------------------- MODULE ReactorDelivery --------------------------
(***************************************************************************)
(* How the events of one event sequence reach the methods of one reactor,  *)
(* and what is told to the kernel of them: the loop over the stream of     *)
(* reactors/Reactors.ts, the dispatch of a page by                         *)
(* reactors/ReactorPageDispatcher.ts to batch methods and handlers, the    *)
(* side effects of reactors/ReactorSideEffects.ts, and the settlement of   *)
(* each partition (observation/batches).                                   *)
(*                                                                         *)
(* An event is its sequence number.  The kernel is a position for each     *)
(* partition, which moves to what an answer says was observed; it sends    *)
(* again what is behind it.  A stream that ends does not stop the dispatch *)
(* it was carrying: the next stream is served beside it.                   *)
(***************************************************************************)
EXTENDS ObserverPages, Sequences, FiniteSetsExt

CONSTANT Log  \* the events: a sequence of [partition, type]

\* "event": a handler; "batch": a batch method; "once": a handler marked
\* @onceOnly; "unhandled": an event type that reaches no method.
EventTypes == {"event", "batch", "once", "unhandled"}

ASSUME LogAssumption ==
  Len(Log) \in Nat /\ DOMAIN Log = 1..Len(Log) /\ \A e \in DOMAIN Log : Log[e].type \in EventTypes

Events == DOMAIN Log
Partitions == {Log[e].partition : e \in Events}
Of(p) == {e \in Events : Log[e].partition = p}
TypeOf(e) == Log[e].type

VARIABLES
  position,    \* the kernel: the last event of each partition it takes as observed
  replaying,   \* the kernel replays: events carry EventObservationState.Replay
  stream,      \* the streams opened so far; the last one may be open
  streamOpen,  \* it is: its queue takes answers
  dispatch,    \* what the loop of each stream is doing
  succeeded,   \* history: the events whose method returned and whose side effects were appended
  problemsLeft

deliveryVars == <<position, replaying, stream, streamOpen, dispatch, succeeded, problemsLeft>>

\* A page delivered to a stream.  "events": what each partition holds; "todo":
\* what is left of it for the handlers; "paged": FALSE of a kernel that sends one
\* partition in the legacy fields.
Dispatches ==
  [pc : {"idle", "batch", "events", "settle"},
   events : [Partitions -> SUBSET Events], todo : [Partitions -> SUBSET Events],
   problems : SUBSET [partition : Partitions, at : Events, state : {"failed", "deferred"}],
   paged : BOOLEAN, replay : BOOLEAN]

NoEvents == [p \in Partitions |-> {}]
NoDispatch == [pc |-> "idle", events |-> NoEvents, todo |-> NoEvents, problems |-> {},
               paged |-> TRUE, replay |-> FALSE]

DeliveryTypeOK ==
  /\ position \in [Partitions -> Nat] /\ replaying \in BOOLEAN
  /\ stream \in Streams /\ streamOpen \in BOOLEAN
  /\ dispatch \in [Streams -> Dispatches]
  /\ succeeded \subseteq Events /\ problemsLeft \in Nat

DeliveryInit ==
  /\ position = [p \in Partitions |-> 0]
  /\ replaying = FALSE
  /\ stream = 1 /\ streamOpen = TRUE
  /\ dispatch = [s \in Streams |-> NoDispatch]
  /\ succeeded = {}
  /\ problemsLeft = MaxProblems

-----------------------------------------------------------------------------
(* The kernel. *)

Pending(p) == {e \in Of(p) : e > position[p]}

\* The kernel sends what is pending of some partitions, to an open stream that
\* has answered everything.
Deliver(ps, paged) ==
  /\ streamOpen /\ dispatch[stream].pc = "idle"
  /\ \A p \in ps : Pending(p) # {}
  /\ paged \/ Cardinality(ps) = 1
  /\ LET page == [p \in Partitions |-> IF p \in ps THEN Leading(Pending(p), MaxPage) ELSE {}]
     IN dispatch' = [dispatch EXCEPT ![stream] =
          [pc |-> "batch", events |-> page, todo |-> page, problems |-> {},
           paged |-> paged, replay |-> replaying]]
  /\ UNCHANGED <<position, replaying, stream, streamOpen, succeeded, problemsLeft>>

\* Once everything is observed, the kernel may replay it.
Replay ==
  /\ ~replaying
  /\ \A p \in Partitions : Pending(p) = {}
  /\ \A s \in Streams : dispatch[s].pc = "idle"
  /\ replaying' = TRUE
  /\ position' = [p \in Partitions |-> 0]
  /\ succeeded' = {}
  /\ UNCHANGED <<stream, streamOpen, dispatch, problemsLeft>>

-----------------------------------------------------------------------------
(* Problems and settlement. *)

AProblem == problemsLeft > 0 /\ problemsLeft' = problemsLeft - 1

FailedAt(p, e) == [partition |-> p, at |-> e, state |-> "failed"]

\* A problem for each partition of the page at its first event in "events":
\* a failed notification of a replay, a failed activation or completion of the
\* artifact, or a batch method that throws.
FailEach(events) == {FailedAt(p, Min(events[p])) : p \in {q \in Partitions : events[q] # {}}}

\* settlePartition: events before the earliest problem count as observed.
\* Mutant: the event of the problem counts, too.
ObservedThrough(events, at) == {e \in events : e <= at}
ObservedBefore(events, at) == {e \in events : e < at}
Observed(events, at) == ObservedBefore(events, at)

\* Without a problem the whole partition does.  Mutant: only what reached a method.
ThoseInvoked(d, p) == {e \in d.events[p] : TypeOf(e) # "unhandled"}
WholePartition(d, p) == d.events[p]
Counted(d, p) == WholePartition(d, p)

ProblemsOf(d, p) == {problem.at : problem \in {q \in d.problems : q.partition = p}}
LastObserved(d, p) ==
  LET handled == IF ProblemsOf(d, p) = {} THEN Counted(d, p)
                 ELSE Observed(d.events[p], Min(ProblemsOf(d, p)))
  IN IF handled = {} THEN position[p] ELSE Max(handled)   \* SEQUENCE_NUMBER_UNAVAILABLE

-----------------------------------------------------------------------------
(* The dispatcher. *)

Batch(d, p) == {e \in d.events[p] : TypeOf(e) = "batch"}
BatchEvents(d) == [p \in Partitions |-> Batch(d, p)]
InBatch(d) == UNION {Batch(d, p) : p \in Partitions}

\* The notification of a replay transition, the activation of the artifact and
\* its completion fail every partition of the delivery from its first event.
NotifyOrActivationFailed(s) ==
  /\ dispatch[s].pc \in {"batch", "settle"}
  /\ AProblem
  /\ dispatch' = [dispatch EXCEPT ![s].pc = "settle", ![s].problems = FailEach(dispatch[s].events)]
  /\ UNCHANGED <<position, replaying, stream, streamOpen, succeeded>>

\* invokeBatchMethod: called with the events of the page that it observes.
BatchSucceeds(s) ==
  /\ dispatch[s].pc = "batch"
  /\ dispatch' = [dispatch EXCEPT ![s].pc = "events"]
  /\ succeeded' = succeeded \cup InBatch(dispatch[s])
  /\ UNCHANGED <<position, replaying, stream, streamOpen, problemsLeft>>

BatchThrows(s) ==
  /\ dispatch[s].pc = "batch"
  /\ InBatch(dispatch[s]) # {}
  /\ AProblem
  /\ dispatch' = [dispatch EXCEPT ![s].pc = "events", ![s].problems = FailEach(BatchEvents(dispatch[s]))]
  /\ UNCHANGED <<position, replaying, stream, streamOpen, succeeded>>

\* batch.fail or batch.defer at an event, or an event whose content cannot be
\* read: one partition has a problem, the rest of the batch is handled.  A
\* kernel that does not deliver pages is never told of a deferral.
BatchReports(s, e, state) ==
  /\ dispatch[s].pc = "batch"
  /\ e \in InBatch(dispatch[s])
  /\ state = "deferred" => dispatch[s].paged
  /\ AProblem
  /\ dispatch' = [dispatch EXCEPT ![s].pc = "events",
       ![s].problems = {[partition |-> Log[e].partition, at |-> e, state |-> state]}]
  /\ succeeded' = succeeded \cup {f \in InBatch(dispatch[s]) : Log[f].partition = Log[e].partition => f < e}
  /\ UNCHANGED <<position, replaying, stream, streamOpen>>

\* observePartition reaches a handler with these events: not with those of a batch
\* method, those without a handler, and those of @onceOnly in a replay.
Selected(d, e) == TypeOf(e) = "event" \/ (TypeOf(e) = "once" /\ ~d.replay)

\* Partitions are served one after the other, and their events in order.
Turn(d, p, e) ==
  /\ d.pc = "events"
  /\ d.todo[p] # {} /\ e = Min(d.todo[p])
  /\ \A q \in Partitions \ {p} : d.todo[q] \in {{}, d.events[q]}

\* The handler returns, and what it returned is appended.
Handled(s, p, e) ==
  /\ Turn(dispatch[s], p, e)
  /\ dispatch' = [dispatch EXCEPT ![s].todo[p] = @ \ {e}]
  /\ succeeded' = IF Selected(dispatch[s], e) THEN succeeded \cup {e} ELSE succeeded
  /\ UNCHANGED <<position, replaying, stream, streamOpen, problemsLeft>>

\* The handler throws, or its side effects are rejected: the partition is left.
\* Mutant: the loop goes on with the next event.
LeftAt(d, p, e) == {}
SkippedAt(d, p, e) == d.todo[p] \ {e}
Left(d, p, e) == LeftAt(d, p, e)

HandlerFails(s, p, e) ==
  /\ Turn(dispatch[s], p, e)
  /\ Selected(dispatch[s], e)
  /\ AProblem
  /\ dispatch' = [dispatch EXCEPT ![s].todo[p] = Left(dispatch[s], p, e),
                                  ![s].problems = @ \cup {FailedAt(p, e)}]
  /\ UNCHANGED <<position, replaying, stream, streamOpen, succeeded>>

AllServed(s) ==
  /\ dispatch[s].pc = "events"
  /\ dispatch[s].todo = NoEvents
  /\ dispatch' = [dispatch EXCEPT ![s].pc = "settle"]
  /\ UNCHANGED <<position, replaying, stream, streamOpen, succeeded, problemsLeft>>

\* toReactorResult, queue.send and the kernel's reading of it.  The queue of a
\* stream that has ended is complete and takes nothing.
Settle(s) ==
  /\ dispatch[s].pc = "settle"
  /\ dispatch' = [dispatch EXCEPT ![s] = NoDispatch]
  /\ position' = IF s = stream /\ streamOpen
                 THEN [p \in Partitions |-> LastObserved(dispatch[s], p)]
                 ELSE position
  /\ UNCHANGED <<replaying, stream, streamOpen, succeeded, problemsLeft>>

-----------------------------------------------------------------------------
(* The stream. *)

ReactorStreamEnds ==
  /\ streamOpen /\ stream < MaxStreams
  /\ streamOpen' = FALSE
  /\ UNCHANGED <<position, replaying, stream, dispatch, succeeded, problemsLeft>>

\* scheduleReobserve's timer, or the registration after a reconnect.
Reobserve ==
  /\ ~streamOpen
  /\ stream' = stream + 1 /\ streamOpen' = TRUE
  /\ UNCHANGED <<position, replaying, dispatch, succeeded, problemsLeft>>

-----------------------------------------------------------------------------

ClientStep(s) ==
  \/ NotifyOrActivationFailed(s) \/ BatchSucceeds(s) \/ BatchThrows(s)
  \/ \E e \in InBatch(dispatch[s]), state \in {"failed", "deferred"} : BatchReports(s, e, state)
  \/ \E p \in Partitions : \E e \in dispatch[s].todo[p] : Handled(s, p, e) \/ HandlerFails(s, p, e)
  \/ AllServed(s) \/ Settle(s)

KernelDelivers == \E ps \in SUBSET Partitions \ {{}}, paged \in BOOLEAN : Deliver(ps, paged)

\* What goes on by itself: the kernel delivers what is pending, loops of streams
\* run until they have answered, and a stream that ended is opened again.
DeliveryProgress == KernelDelivers \/ Reobserve \/ \E s \in Streams : ClientStep(s)

DeliveryNext == DeliveryProgress \/ Replay \/ ReactorStreamEnds

DeliverySpec == DeliveryInit /\ [][DeliveryNext]_deliveryVars

-----------------------------------------------------------------------------
(* Properties. *)

\* Nothing is acknowledged that was not handled: up to the position that answers
\* have moved the kernel to, every event that reaches a method was handled by it,
\* whichever problems the page had and whatever stream carried the answer.
AcknowledgedWasHandled ==
  \A p \in Partitions : \A e \in Of(p) :
    e <= position[p] /\ (TypeOf(e) \in {"event", "batch"} \/ (TypeOf(e) = "once" /\ ~replaying))
      => e \in succeeded

\* Within a partition, an event is not handled by a handler before the ones that
\* came before it were: a failure stops its partition (reactors.md:103).
HandledInOrder ==
  \A e, f \in Events :
    Log[e].partition = Log[f].partition /\ e < f /\ TypeOf(e) = "event" /\ TypeOf(f) = "event"
      => (f \in succeeded => e \in succeeded)

\* Every event is observed in the end, when methods fail only so often, although
\* streams end under the answers that would have said so.
EverythingIsObserved == <>[](\A p \in Partitions : Pending(p) = {})
=============================================================================
