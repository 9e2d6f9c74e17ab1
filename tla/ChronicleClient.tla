-------------------------- MODULE ChronicleClient --------------------------
(***************************************************************************)
(* The connection of one ChronicleClient: the first connection, recovery,  *)
(* terminal failures, the kernel keep-alive, the health watchdog, and the  *)
(* public calls that wait for them (ChronicleClient.ts, with the channel   *)
(* handling of connection/ChronicleConnection.ts, the lifecycle of         *)
(* connection/ConnectionLifecycle.ts and the stream of                     *)
(* connection/KernelKeepAlive.ts).                                         *)
(*                                                                         *)
(* JavaScript runs one callback to completion and then every promise       *)
(* continuation it made ready.  An action is such a run up to its next     *)
(* await on a timer or on the network; a caller whose awaited promise has  *)
(* settled is in a Prompt state, and nothing else may happen before it has *)
(* continued.                                                              *)
(***************************************************************************)
EXTENDS Naturals

CONSTANTS
  Callers,    \* concurrent calls of getEventStore / getEventStores
  Watchdog,   \* the timer of startConnectionWatchdog, a caller of its own
  KeepAlive,  \* TRUE unless the client was created with skipKeepAlive
  MaxFaults   \* bound: calls to the kernel that fail on an open channel

ASSUME ClientAssumption ==
  /\ Watchdog \notin Callers
  /\ KeepAlive \in BOOLEAN
  /\ MaxFaults \in Nat

VARIABLES
  disposed,      \* _isDisposed
  failure,       \* _connectionFailure (and ConnectionLifecycle._failure)
  rejections,    \* _consecutiveCredentialRejections
  isConnected,   \* ConnectionLifecycle._isConnected
  connectionId,  \* ConnectionLifecycle._connectionId, as a number
  farewell,      \* dispose() called disconnected() and its handlers still run
  operation,     \* where _connectOperation and _reconnectOperation stand
  initial,       \* the constructor's createClients is still in flight
  channel,       \* the channel of _services; channels are numbered from 1
  open,          \* the channels created and not closed
  verified,      \* the channels whose server passed verify()
  keepAlive,     \* the Connect stream of _keepAliveAbortController
  pc,            \* where each call, and the watchdog's probe, stands
  via,           \* the channel of the call in flight of a caller or an attempt, or 0
  retried,       \* the calls that are in their second action() of withReconnect
  faults         \* faults the kernel or the network may still cause

vars == <<disposed, failure, rejections, isConnected, connectionId, farewell,
          operation, initial, channel, open, verified, keepAlive, pc, via,
          retried, faults>>

connectionVars == <<rejections, connectionId, farewell, initial, channel, verified>>
callVars == <<pc, via, retried>>

Procs == Callers \cup {Watchdog}
Operations == {"connect", "reconnect"}

\* An operation is at an await of its attempt, in backoff, or running the
\* lifecycle handlers ("notify": disconnected, "handlers": connected).
Attempting == {"creating", "verify", "probe", "handshake"}
OperationStates == Attempting \cup {"idle", "notify", "handlers", "backoff"}

\* What a failing call reports: worth a reconnect, a refused credential, an
\* incompatible server (from verify() only), or an error of the call itself.
Errors == {"transient", "rejected", "incompatible", "other"}

\* A caller at one of these continues before anything else happens.  With
\* skipKeepAlive, ensureConnected also awaits the discovery of artifact files,
\* so "validate" is then a real gap.
Prompt == IF KeepAlive THEN {"enter", "validate", "gate"} ELSE {"enter", "gate"}
Settled == \A p \in Procs : pc[p] \notin Prompt

\* No stream, or an aborted one: it reports nothing any more.
NoStream == [phase |-> "none", id |-> 0, on |-> 0, owner |-> "connect"]

TypeOK ==
  /\ disposed \in BOOLEAN /\ failure \in BOOLEAN
  /\ isConnected \in BOOLEAN /\ farewell \in BOOLEAN /\ initial \in BOOLEAN
  /\ rejections \in Nat /\ connectionId \in Nat /\ channel \in Nat /\ faults \in Nat
  /\ operation \in [Operations -> OperationStates]
  /\ open \subseteq 1..channel /\ verified \subseteq 1..channel
  /\ keepAlive \in [phase : {"none", "handshake", "live", "lost"},
                    id : Nat, on : Nat, owner : Operations]
  /\ pc \in [Procs -> {"idle", "enter", "validate", "gate", "rpc", "awaitConnect",
                       "awaitReconnect", "awaitRecovery", "answered", "refused"}]
  /\ via \in [Procs \cup Operations -> Nat]
  /\ retried \subseteq Callers

Init ==
  /\ disposed = FALSE /\ failure = FALSE /\ rejections = 0
  /\ isConnected = FALSE /\ connectionId = 0 /\ farewell = FALSE
  /\ operation = [o \in Operations |-> "idle"]
  /\ initial = KeepAlive       \* deferClientCreation: options.skipKeepAlive
  /\ channel = 0 /\ open = {} /\ verified = {}
  /\ keepAlive = NoStream
  /\ pc = [p \in Procs |-> "idle"]
  /\ via = [p \in Procs \cup Operations |-> 0]
  /\ retried = {}
  /\ faults = MaxFaults

-----------------------------------------------------------------------------
(* Pieces of the handlers. *)

\* A call to the kernel on channel ch fails: for free when the channel has been
\* closed, and at the cost of a fault otherwise.
CallFails(ch, error) ==
  \/ ch \notin open /\ error = "transient" /\ UNCHANGED faults
  \/ ch \in open /\ faults > 0 /\ faults' = faults - 1

CallSucceeds(ch) == ch \in open /\ UNCHANGED faults

\* terminalConnectionError: the third rejection in a row is terminal, and so is
\* an incompatible server.
CountOf(error) == IF error = "rejected" THEN rejections + 1 ELSE 0
Terminal(error) == error = "incompatible" \/ (error = "rejected" /\ rejections + 1 = 3)
Classify(error) ==
  rejections' = IF error = "incompatible" THEN rejections ELSE CountOf(error)

\* lifecycle.failed takes only the first failure.
DropOnFailure == IF failure THEN isConnected ELSE FALSE

\* failConnection: announce the failure, abort the keep-alive, close the channel.
\* The watchdog's timer is cleared too; see HealthCheck.
FailConnection ==
  /\ failure' = TRUE
  /\ isConnected' = DropOnFailure
  /\ keepAlive' = NoStream
  /\ open' = open \ {channel}

\* The top of the retry loops: resetChannel closes the channel and starts to
\* create another.  The loop is only left here, when the client is disposed.
BeginAttempt(o) ==
  /\ operation' = [operation EXCEPT ![o] = "creating"]
  /\ open' = open \ {channel}

\* A recovery is in flight.  Mutant: the check is forgotten.
RecoveryIgnored == FALSE
InRecovery == operation["reconnect"] # "idle"

\* reconnect() and recoverConnection(): join the recovery in flight or start one.
\* A disposed client that is not connected finds its loop over at once.
Recover ==
  IF InRecovery \/ (disposed /\ ~isConnected)
  THEN UNCHANGED <<operation, open, isConnected>>
  ELSE IF isConnected
  THEN /\ isConnected' = FALSE
       /\ operation' = [operation EXCEPT !["reconnect"] = "notify"]
       /\ UNCHANGED open
  ELSE BeginAttempt("reconnect") /\ UNCHANGED isConnected

Recovering == operation'["reconnect"] # "idle"

\* The id that disconnected() leaves behind.  Mutant: it is not renewed.
SameId == connectionId
RenewedId == connectionId + 1

\* What the settlement of an operation does to who awaits it: ok when its
\* promise is fulfilled.  An awaiter of a rejected connect or reconnect ends up
\* rejecting its own call; a watchdog probe is over either way.
ResumedBy(o, ok, p) ==
  CASE o = "connect" /\ pc[p] = "awaitConnect" -> IF ok THEN "rpc" ELSE "refused"
    [] o = "reconnect" /\ pc[p] = "awaitReconnect" -> IF ok THEN "gate" ELSE "refused"
    [] o = "reconnect" /\ pc[p] = "awaitRecovery" /\ p = Watchdog -> "idle"
    [] o = "reconnect" /\ pc[p] = "awaitRecovery" -> IF ok THEN "enter" ELSE "refused"
    [] OTHER -> pc[p]

\* Mutant: a rejection is never passed on to who awaits it.
ResumedIfFulfilled(o, ok, p) == IF ok THEN ResumedBy(o, ok, p) ELSE pc[p]
Resumed(o, ok, p) == ResumedBy(o, ok, p)

Settle(o, ok) ==
  /\ operation' = [operation EXCEPT ![o] = "idle"]
  /\ pc' = [p \in Procs |-> Resumed(o, ok, p)]
  /\ via' = [p \in DOMAIN via |->
               IF o = "connect" /\ ok /\ p \in Procs /\ pc[p] = "awaitConnect" THEN channel
               ELSE IF p = o THEN 0 ELSE via[p]]
  /\ retried' = retried \cup {c \in Callers : pc[c] = "awaitRecovery" /\ pc'[c] = "enter"}

\* lifecycle.connected() is ignored after a failure.  Mutants: it is not; only
\* the first connection is announced.
AlwaysAnnounced == FALSE
AnnouncedOnce == failure \/ connectionId > 0
ConnectedIgnored == failure

\* The end of a successful attempt; an ignored one is the end of its operation.
Announce(o) ==
  IF ConnectedIgnored
  THEN Settle(o, TRUE) /\ UNCHANGED isConnected
  ELSE /\ isConnected' = TRUE
       /\ operation' = [operation EXCEPT ![o] = "handlers"]
       /\ via' = [via EXCEPT ![o] = 0]
       /\ UNCHANGED <<pc, retried>>

-----------------------------------------------------------------------------
(* Calls: withReconnect around an action that starts with ensureConnected. *)

Call(c) ==
  /\ pc[c] = "idle"
  /\ pc' = [pc EXCEPT ![c] = "enter"]
  /\ UNCHANGED <<disposed, failure, isConnected, operation, open, keepAlive, via, retried, faults>>
  /\ UNCHANGED connectionVars

\* ensureConnected up to its first await.  A call on a failed client runs
\* failConnection once more on its way out.
Enter(c) ==
  /\ pc[c] = "enter"
  /\ IF disposed
     THEN /\ pc' = [pc EXCEPT ![c] = "refused"]
          /\ rejections' = CountOf("other")
          /\ UNCHANGED <<failure, isConnected, keepAlive, open>>
     ELSE IF failure
     THEN /\ pc' = [pc EXCEPT ![c] = "refused"]
          /\ FailConnection
          /\ UNCHANGED rejections
     ELSE /\ pc' = [pc EXCEPT ![c] = "validate"]
          /\ UNCHANGED <<failure, isConnected, keepAlive, open, rejections>>
  /\ UNCHANGED <<disposed, operation, via, retried, faults>>
  /\ UNCHANGED <<connectionId, farewell, initial, channel, verified>>

\* After validateClientObservers: callers that arrive during a recovery wait for it.
Validate(c) ==
  /\ pc[c] = "validate"
  /\ pc' = [pc EXCEPT ![c] = IF InRecovery THEN "awaitReconnect" ELSE "gate"]
  /\ UNCHANGED <<disposed, failure, isConnected, operation, open, keepAlive, via, retried, faults>>
  /\ UNCHANGED connectionVars

\* The rest of ensureConnected: use the connection, join the connect operation
\* or start it.  On a disposed client the new operation rejects at once.
Gate(c) ==
  /\ pc[c] = "gate"
  /\ IF isConnected
     THEN /\ pc' = [pc EXCEPT ![c] = "rpc"]
          /\ via' = [via EXCEPT ![c] = channel]
          /\ UNCHANGED <<operation, open>>
     ELSE IF operation["connect"] # "idle"
     THEN pc' = [pc EXCEPT ![c] = "awaitConnect"] /\ UNCHANGED <<via, operation, open>>
     ELSE IF disposed
     THEN pc' = [pc EXCEPT ![c] = "refused"] /\ UNCHANGED <<via, operation, open>>
     ELSE pc' = [pc EXCEPT ![c] = "awaitConnect"] /\ BeginAttempt("connect") /\ UNCHANGED via
  /\ UNCHANGED <<disposed, failure, isConnected, keepAlive, retried, faults>>
  /\ UNCHANGED connectionVars

CallAnswered(p) ==
  /\ pc[p] = "rpc"
  /\ CallSucceeds(via[p])
  /\ pc' = [pc EXCEPT ![p] = IF p = Watchdog THEN "idle" ELSE "answered"]
  /\ via' = [via EXCEPT ![p] = 0]
  /\ UNCHANGED <<disposed, failure, isConnected, operation, open, keepAlive, retried>>
  /\ UNCHANGED connectionVars

\* The catch of withReconnect: a terminal error fails the client; an error worth
\* a reconnect is retried once after it; a client that has failed recovers no more.
CallFailed(c, error) ==
  /\ pc[c] = "rpc"
  /\ CallFails(via[c], error)
  /\ via' = [via EXCEPT ![c] = 0]
  /\ Classify(error)
  /\ IF Terminal(error)
     THEN /\ FailConnection
          /\ pc' = [pc EXCEPT ![c] = "refused"]
          /\ UNCHANGED <<operation, retried>>
     ELSE IF c \in retried \/ error = "other" \/ failure
     THEN /\ pc' = [pc EXCEPT ![c] = "refused"]
          /\ UNCHANGED <<failure, isConnected, keepAlive, open, operation, retried>>
     ELSE /\ Recover
          /\ pc' = [pc EXCEPT ![c] = IF Recovering THEN "awaitRecovery" ELSE "enter"]
          /\ retried' = IF Recovering THEN retried ELSE retried \cup {c}
          /\ UNCHANGED <<failure, keepAlive>>
  /\ UNCHANGED <<disposed, connectionId, farewell, initial, channel, verified>>

-----------------------------------------------------------------------------
(* The watchdog. *)

\* runHealthCheck, started by the interval while there is a connection to check.
\* The interval is cleared by dispose and by failConnection.
HealthCheck ==
  /\ KeepAlive /\ ~disposed /\ ~failure
  /\ isConnected
  /\ pc[Watchdog] = "idle"
  /\ pc' = [pc EXCEPT ![Watchdog] = "rpc"]
  /\ via' = [via EXCEPT ![Watchdog] = channel]
  /\ UNCHANGED <<disposed, failure, isConnected, operation, open, keepAlive, retried, faults>>
  /\ UNCHANGED connectionVars

HealthCheckFailed ==
  /\ pc[Watchdog] = "rpc"
  /\ CallFails(via[Watchdog], "transient")
  /\ via' = [via EXCEPT ![Watchdog] = 0]
  /\ IF failure
     THEN /\ FailConnection
          /\ pc' = [pc EXCEPT ![Watchdog] = "idle"]
          /\ UNCHANGED operation
     ELSE /\ Recover
          /\ pc' = [pc EXCEPT ![Watchdog] = IF Recovering THEN "awaitRecovery" ELSE "idle"]
          /\ UNCHANGED <<failure, keepAlive>>
  /\ UNCHANGED <<disposed, retried>>
  /\ UNCHANGED connectionVars

-----------------------------------------------------------------------------
(* The operations: connectWithRetry, recoverConnection, reconnectWithRetry. *)

\* recoverConnection, after the handlers of disconnected() have run.
Notified ==
  /\ operation["reconnect"] = "notify"
  /\ connectionId' = RenewedId
  /\ IF disposed
     THEN Settle("reconnect", TRUE) /\ UNCHANGED open
     ELSE BeginAttempt("reconnect") /\ UNCHANGED callVars
  /\ UNCHANGED <<disposed, failure, isConnected, keepAlive, faults>>
  /\ UNCHANGED <<rejections, farewell, initial, channel, verified>>

\* createClients has resolved and selected an address: _channel and _services
\* are replaced together.
NewChannel ==
  /\ channel' = channel + 1
  /\ open' = open \cup {channel + 1}

\* The channel whose creation the constructor started, or failed to create.
InitialChannel ==
  /\ initial
  /\ initial' = FALSE
  /\ \/ NewChannel /\ UNCHANGED faults
     \/ faults > 0 /\ faults' = faults - 1 /\ UNCHANGED <<channel, open>>
  /\ UNCHANGED <<disposed, failure, isConnected, operation, keepAlive>>
  /\ UNCHANGED <<rejections, connectionId, farewell, verified>>
  /\ UNCHANGED callVars

\* resetChannel has its channel; connect() asks the server for its contract.
Created(o) ==
  /\ operation[o] = "creating"
  /\ NewChannel
  /\ operation' = [operation EXCEPT ![o] = "verify"]
  /\ via' = [via EXCEPT ![o] = channel']
  /\ UNCHANGED <<disposed, failure, isConnected, keepAlive, pc, retried, faults>>
  /\ UNCHANGED <<rejections, connectionId, farewell, initial, verified>>

\* The server is compatible: probe it with getVersionInfo.
Compatible(o) ==
  /\ operation[o] = "verify"
  /\ CallSucceeds(via[o])
  /\ verified' = verified \cup {via[o]}
  /\ operation' = [operation EXCEPT ![o] = "probe"]
  /\ via' = [via EXCEPT ![o] = channel]
  /\ UNCHANGED <<disposed, failure, isConnected, open, keepAlive, pc, retried>>
  /\ UNCHANGED <<rejections, connectionId, farewell, initial, channel>>

\* startKernelKeepAlive: abort the previous stream and open one under the
\* connection id of now.
\* Mutant: the stream reuses the request of the one before.
ReopenKeepAlive(o) ==
  keepAlive' = [phase |-> "handshake", id |-> keepAlive.id, on |-> channel, owner |-> o]
OpenKeepAlive(o) ==
  keepAlive' = [phase |-> "handshake", id |-> connectionId, on |-> channel, owner |-> o]

\* The probe was answered.  Without keep-alive the client is now connected.
Probed(o) ==
  /\ operation[o] = "probe"
  /\ CallSucceeds(via[o])
  /\ rejections' = 0
  /\ IF KeepAlive
     THEN /\ OpenKeepAlive(o)
          /\ operation' = [operation EXCEPT ![o] = "handshake"]
          /\ via' = [via EXCEPT ![o] = channel]
          /\ UNCHANGED <<isConnected, pc, retried>>
     ELSE Announce(o) /\ UNCHANGED keepAlive
  /\ UNCHANGED <<disposed, failure, open, connectionId, farewell, initial, channel, verified>>

Handshaking(o) == keepAlive.phase = "handshake" /\ keepAlive.owner = o

\* The first keep-alive has arrived and been answered.
Registered(o) ==
  /\ operation[o] = "handshake"
  /\ Handshaking(o)
  /\ CallSucceeds(via[o])
  /\ keepAlive' = [keepAlive EXCEPT !.phase = "live"]
  /\ Announce(o)
  /\ UNCHANGED <<disposed, failure, open>>
  /\ UNCHANGED connectionVars

\* The catch of the retry loops.
AttemptFailed(o, error) ==
  /\ \/ operation[o] = "creating" /\ error = "transient" /\ faults > 0 /\ faults' = faults - 1
     \/ operation[o] = "verify" /\ CallFails(via[o], error)
     \/ operation[o] = "probe" /\ error # "incompatible" /\ CallFails(via[o], error)
     \/ operation[o] = "handshake" /\ error # "incompatible" /\ CallFails(via[o], error)
     \/ operation[o] = "handshake" /\ error = "transient" /\ ~Handshaking(o) /\ UNCHANGED faults
  /\ Classify(error)
  /\ IF Terminal(error)
     THEN FailConnection /\ Settle(o, FALSE)
     ELSE /\ operation' = [operation EXCEPT ![o] = "backoff"]
          /\ via' = [via EXCEPT ![o] = 0]
          /\ UNCHANGED <<failure, isConnected, keepAlive, open, pc, retried>>
  /\ UNCHANGED <<disposed, connectionId, farewell, initial, channel, verified>>

\* backOff is over.  On a disposed client connectWithRetry throws (and the calls
\* that await it are refused) and reconnectWithRetry returns.
Retry(o) ==
  /\ operation[o] = "backoff"
  /\ IF disposed
     THEN Settle(o, o = "reconnect") /\ UNCHANGED open
     ELSE BeginAttempt(o) /\ UNCHANGED callVars
  /\ UNCHANGED <<disposed, failure, isConnected, keepAlive, faults>>
  /\ UNCHANGED connectionVars

\* The handlers of connected() have run; what they throw is logged.
HandlersDone(o) ==
  /\ operation[o] = "handlers"
  /\ Settle(o, TRUE)
  /\ UNCHANGED <<disposed, failure, isConnected, open, keepAlive, faults>>
  /\ UNCHANGED connectionVars

-----------------------------------------------------------------------------
(* Losing the keep-alive, and dispose. *)

\* The run loop of the current stream ends: a silent kernel, a closed stream or
\* an unanswered answer.  It reports the loss once, of a client not disposed of.
KeepAliveLost ==
  /\ keepAlive.phase = "live" /\ ~disposed
  /\ CallFails(keepAlive.on, "transient")
  /\ IF failure
     THEN FailConnection /\ UNCHANGED operation
     ELSE /\ Recover
          /\ keepAlive' = [keepAlive EXCEPT !.phase = "lost"]
          /\ UNCHANGED failure
  /\ UNCHANGED disposed /\ UNCHANGED connectionVars /\ UNCHANGED callVars

\* dispose().  Only its first call is modelled.
Dispose ==
  /\ ~disposed
  /\ disposed' = TRUE
  /\ isConnected' = FALSE
  /\ farewell' = isConnected
  /\ keepAlive' = NoStream
  /\ open' = open \ {channel}
  /\ UNCHANGED <<failure, operation, faults>>
  /\ UNCHANGED <<rejections, connectionId, initial, channel, verified>>
  /\ UNCHANGED callVars

\* The handlers of the disconnect that dispose announced have run.
FarewellDone ==
  /\ farewell
  /\ farewell' = FALSE
  /\ connectionId' = RenewedId
  /\ UNCHANGED <<disposed, failure, isConnected, operation, open, keepAlive, faults>>
  /\ UNCHANGED <<rejections, initial, channel, verified>>
  /\ UNCHANGED callVars

-----------------------------------------------------------------------------

Continue(c) == Enter(c) \/ Validate(c) \/ Gate(c)

CallEnds(c) == CallAnswered(c) \/ \E e \in Errors \ {"incompatible"} : CallFailed(c, e)

HealthCheckEnds == CallAnswered(Watchdog) \/ HealthCheckFailed

AttemptStep(o) ==
  \/ Created(o) \/ Compatible(o) \/ Probed(o) \/ Registered(o)
  \/ \E e \in Errors \ {"other"} : AttemptFailed(o, e)
  \/ Retry(o) \/ HandlersDone(o)

\* What the network, the kernel, a timer or the application may do next.
Event ==
  \/ \E c \in Callers : Call(c) \/ CallEnds(c)
  \/ HealthCheck \/ HealthCheckEnds
  \/ \E o \in Operations : AttemptStep(o)
  \/ Notified \/ InitialChannel
  \/ KeepAliveLost \/ Dispose \/ FarewellDone

Next == (\E c \in Callers : Continue(c)) \/ (Settled /\ Event)

Spec == Init /\ [][Next]_vars

\* Promise continuations run, timers fire and handlers end; every call to the
\* kernel ends, in an answer or an error.  Nothing obliges the application to
\* call or to dispose, or the kernel to fail.
Fairness ==
  /\ \A c \in Callers : WF_vars(Continue(c)) /\ WF_vars(Settled /\ CallEnds(c))
  /\ \A o \in Operations : WF_vars(Settled /\ AttemptStep(o))
  /\ WF_vars(Settled /\ Notified)
  /\ WF_vars(Settled /\ HealthCheckEnds)

FairSpec == Spec /\ Fairness

-----------------------------------------------------------------------------
(* Properties. *)

\* A terminal failure is the end: lifecycle.isConnected never holds beside it,
\* whichever of the loops, calls, probes and streams reports next.
FailureIsFinal == failure => ~isConnected

\* "Callers arriving during recovery must share its verdict, not create a
\* competing channel" (ChronicleClient.ts:321): as long as the client has not
\* failed, the first connection is never attempted beside a recovery.
NoCompetingAttempt ==
  operation["connect"] \in Attempting \cup {"backoff"} /\ operation["reconnect"] # "idle"
    => failure

\* A connected client's keep-alive stream is registered with the kernel under
\* the id that its reactors and reducers will register with.
SessionIdentity ==
  KeepAlive /\ isConnected => keepAlive.phase \in {"live", "lost"} /\ keepAlive.id = connectionId

\* The calls of the application go to a server whose contract was verified
\* (ChronicleClient.ts:269-270).
CallsUseVerifiedChannel ==
  \A c \in Callers : pc[c] = "rpc" => via[c] \in verified

\* Every call of getEventStore and getEventStores settles, whatever fails on
\* the way and whenever the client is disposed.
EveryCallSettles ==
  \A c \in Callers : pc[c] # "idle" ~> pc[c] \in {"answered", "refused"}

\* A recovery ends with a connection unless the client fails or is disposed.
RecoveryEnds == operation["reconnect"] # "idle" ~> isConnected \/ failure \/ disposed

\* The calls of disconnected() that still await their handlers.
Renewing == (IF operation["reconnect"] = "notify" THEN 1 ELSE 0) + (IF farewell THEN 1 ELSE 0)

\* The connection keeps the promise its followers rely on.
Lifecycle == INSTANCE ConnectionLifecycle WITH renewing <- Renewing
KeepsLifecyclePromise == Lifecycle!Spec

\* Losing the keep-alive is always followed by a recovery: "Reconnecting is the
\* only way back" (ChronicleClient.ts:521).
KeepAliveLossIsFollowedUp ==
  isConnected /\ keepAlive.phase = "lost" => operation["reconnect"] # "idle"
=============================================================================
