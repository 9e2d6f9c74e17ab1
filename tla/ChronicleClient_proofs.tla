----------------------- MODULE ChronicleClient_proofs -----------------------
(***************************************************************************)
(* What the connection of ChronicleClient keeps for any number of callers  *)
(* and of faults, with and without the kernel keep-alive: its types, its   *)
(* safety, and the refinement of ConnectionLifecycle.                      *)
(***************************************************************************)
EXTENDS ChronicleClient, TLAPS

PcStates == {"idle", "enter", "validate", "gate", "rpc", "awaitConnect",
             "awaitReconnect", "awaitRecovery", "answered", "refused"}

\* Settling an operation keeps the types of what it changes.
LEMMA SettleTypes ==
  ASSUME TypeOK, NEW o \in Operations, NEW ok \in BOOLEAN, Settle(o, ok)
  PROVE  /\ operation' \in [Operations -> OperationStates]
         /\ pc' \in [Procs -> PcStates]
         /\ via' \in [Procs \cup Operations -> Nat]
         /\ retried' \subseteq Callers
<1>1. operation' \in [Operations -> OperationStates]
  BY DEF TypeOK, Settle, OperationStates
<1>2. \A p \in Procs : Resumed(o, ok, p) \in PcStates
  BY DEF TypeOK, Resumed, ResumedBy, PcStates
<1>3. pc' \in [Procs -> PcStates]
  BY <1>2 DEF Settle
<1>4. via' \in [Procs \cup Operations -> Nat]
  BY DEF TypeOK, Settle
<1>5. retried' \subseteq Callers
  BY DEF TypeOK, Settle
<1> QED BY <1>1, <1>3, <1>4, <1>5

\* Announcing a connection keeps the types of what it changes.
LEMMA AnnounceTypes ==
  ASSUME TypeOK, NEW o \in Operations, Announce(o)
  PROVE  /\ isConnected' \in BOOLEAN
         /\ operation' \in [Operations -> OperationStates]
         /\ pc' \in [Procs -> PcStates]
         /\ via' \in [Procs \cup Operations -> Nat]
         /\ retried' \subseteq Callers
<1>1. CASE failure
  BY <1>1, SettleTypes DEF Announce, ConnectedIgnored, TypeOK
<1>2. CASE ~failure
  BY <1>2 DEF Announce, ConnectedIgnored, TypeOK, OperationStates, PcStates, Procs
<1> QED BY <1>1, <1>2

\* Starting or joining a recovery keeps the types of what it changes.
LEMMA RecoverTypes ==
  ASSUME TypeOK, Recover
  PROVE  /\ isConnected' \in BOOLEAN
         /\ operation' \in [Operations -> OperationStates]
         /\ open' \subseteq 1..channel
<1>1. operation' \in [Operations -> OperationStates]
  BY DEF TypeOK, Recover, BeginAttempt, OperationStates, Attempting
<1>2. open' \subseteq 1..channel
  BY DEF TypeOK, Recover, BeginAttempt
<1>3. isConnected' \in BOOLEAN
  BY Zenon DEF TypeOK, Recover
<1> QED BY <1>1, <1>2, <1>3

\* Failing the connection keeps the types of what it changes.
LEMMA FailureTypes ==
  ASSUME TypeOK, FailConnection
  PROVE  /\ failure' \in BOOLEAN /\ isConnected' \in BOOLEAN
         /\ keepAlive' \in [phase : {"none", "handshake", "live", "lost"},
                            id : Nat, on : Nat, owner : Operations]
         /\ open' \subseteq 1..channel
<1>1. failure' \in BOOLEAN /\ isConnected' \in BOOLEAN
  BY DEF TypeOK, FailConnection, DropOnFailure
<1>2. keepAlive' \in [phase : {"none", "handshake", "live", "lost"},
                      id : Nat, on : Nat, owner : Operations]
  BY DEF FailConnection, NoStream, Operations
<1>3. open' \subseteq 1..channel
  BY DEF TypeOK, FailConnection
<1> QED BY <1>1, <1>2, <1>3

\* Closing the channel and creating another keeps the types of what it changes.
LEMMA BeginTypes ==
  ASSUME TypeOK, NEW o \in Operations, BeginAttempt(o)
  PROVE  operation' \in [Operations -> OperationStates] /\ open' \subseteq 1..channel
BY DEF TypeOK, BeginAttempt, OperationStates, Attempting

\* The numbers that the steps count up to.
LEMMA NumberTypes ==
  ASSUME TypeOK
  PROVE  /\ RenewedId \in Nat
         /\ \A error : CountOf(error) \in Nat
BY DEF TypeOK, RenewedId, CountOf

\* A new channel has the next number.
LEMMA ChannelTypes ==
  ASSUME TypeOK, NewChannel
  PROVE  channel' \in Nat /\ open' \subseteq 1..channel' /\ verified \subseteq 1..channel'
BY DEF TypeOK, NewChannel

LEMMA FaultTypes ==
  ASSUME TypeOK, NEW ch, NEW error, CallFails(ch, error) \/ CallSucceeds(ch)
  PROVE  faults' \in Nat
BY DEF TypeOK, CallFails, CallSucceeds

\* Every step of the connection keeps the types.
LEMMA TypeStep ==
  ASSUME TypeOK, [Next]_vars
  PROVE  TypeOK'
<1> USE DEF TypeOK, connectionVars, callVars
<1>1. ASSUME NEW c \in Callers, Call(c) PROVE TypeOK'
  BY <1>1 DEF Call, Procs
<1>2. ASSUME NEW c \in Callers, Enter(c) PROVE TypeOK'
  <2>1. CASE FailConnection
    BY <1>2, <2>1, NumberTypes, FailureTypes DEF Enter, Procs
  <2>2. CASE ~FailConnection
    BY <1>2, <2>2, NumberTypes DEF Enter, Procs
  <2> QED BY <2>1, <2>2
<1>3. ASSUME NEW c \in Callers, Validate(c) PROVE TypeOK'
  BY <1>3 DEF Validate, Procs
<1>4. ASSUME NEW c \in Callers, Gate(c) PROVE TypeOK'
  <2>1. operation' \in [Operations -> OperationStates] /\ open' \subseteq 1..channel
    BY <1>4, BeginTypes DEF Gate, Operations
  <2> QED BY <1>4, <2>1 DEF Gate, Procs
<1>5. ASSUME NEW p \in Procs, CallAnswered(p) PROVE TypeOK'
  BY <1>5, FaultTypes DEF CallAnswered
<1>6. ASSUME NEW c \in Callers, NEW e \in Errors, CallFailed(c, e) PROVE TypeOK'
  <2>1. rejections' \in Nat
    BY <1>6, NumberTypes DEF CallFailed, Classify
  <2>2. faults' \in Nat /\ via' \in [Procs \cup Operations -> Nat]
    BY <1>6, FaultTypes DEF CallFailed
  <2>3. CASE Terminal(e)
    BY <1>6, <2>1, <2>2, <2>3, FailureTypes DEF CallFailed, Procs
  <2>4. CASE ~Terminal(e) /\ (c \in retried \/ e = "other" \/ failure)
    BY <1>6, <2>1, <2>2, <2>4 DEF CallFailed, Procs
  <2>5. CASE ~Terminal(e) /\ ~(c \in retried \/ e = "other" \/ failure)
    <3>1. Recover
      BY <1>6, <2>5 DEF CallFailed
    <3> QED BY <1>6, <2>1, <2>2, <2>5, <3>1, RecoverTypes DEF CallFailed, Procs
  <2> QED BY <2>3, <2>4, <2>5
<1>7. CASE HealthCheck
  BY <1>7 DEF HealthCheck, Procs
<1>8. CASE HealthCheckFailed
  <2>1. faults' \in Nat /\ via' \in [Procs \cup Operations -> Nat]
    BY <1>8, FaultTypes DEF HealthCheckFailed
  <2>2. CASE failure
    BY <1>8, <2>1, <2>2, FailureTypes DEF HealthCheckFailed, Procs
  <2>3. CASE ~failure
    BY <1>8, <2>1, <2>3, RecoverTypes DEF HealthCheckFailed, Procs
  <2> QED BY <2>2, <2>3
<1>9. CASE Notified
  <2>1. CASE disposed
    BY <1>9, <2>1, SettleTypes, NumberTypes DEF Notified, Operations, PcStates
  <2>2. CASE ~disposed
    BY <1>9, <2>2, NumberTypes, BeginTypes DEF Notified, Operations
  <2> QED BY <2>1, <2>2
<1>10. CASE InitialChannel
  <2>1. CASE NewChannel
    <3>1. faults' \in Nat
      BY <1>10 DEF InitialChannel
    <3> QED BY <1>10, <2>1, <3>1, ChannelTypes DEF InitialChannel
  <2>2. CASE UNCHANGED <<channel, open>> /\ faults > 0 /\ faults' = faults - 1
    <3>1. faults' \in Nat
      BY <2>2
    <3> QED BY <1>10, <2>2, <3>1 DEF InitialChannel
  <2> QED BY <1>10, <2>1, <2>2 DEF InitialChannel
<1>11. ASSUME NEW o \in Operations, Created(o) PROVE TypeOK'
  BY <1>11, ChannelTypes DEF Created, OperationStates, Attempting
<1>12. ASSUME NEW o \in Operations, Compatible(o) PROVE TypeOK'
  BY <1>12 DEF Compatible, CallSucceeds, OperationStates, Attempting
<1>13. ASSUME NEW o \in Operations, Probed(o) PROVE TypeOK'
  <2>1. faults' \in Nat
    BY <1>13, FaultTypes DEF Probed
  <2>2. CASE KeepAlive
    BY <1>13, <2>1, <2>2 DEF Probed, OpenKeepAlive, OperationStates, Attempting
  <2>3. CASE ~KeepAlive
    BY <1>13, <2>1, <2>3, AnnounceTypes DEF Probed, PcStates
  <2> QED BY <2>2, <2>3
<1>14. ASSUME NEW o \in Operations, Registered(o) PROVE TypeOK'
  BY <1>14, AnnounceTypes, FaultTypes DEF Registered, PcStates
<1>15. ASSUME NEW o \in Operations, NEW e \in Errors, AttemptFailed(o, e) PROVE TypeOK'
  <2>1. rejections' \in Nat
    BY <1>15, NumberTypes DEF AttemptFailed, Classify
  <2>2. faults' \in Nat
    BY <1>15, FaultTypes DEF AttemptFailed
  <2>3. CASE Terminal(e)
    <3>1. FailConnection /\ Settle(o, FALSE)
      BY <1>15, <2>3 DEF AttemptFailed
    <3>2. UNCHANGED <<disposed, connectionId, farewell, initial, channel, verified>>
      BY <1>15 DEF AttemptFailed
    <3> QED BY <2>1, <2>2, <3>1, <3>2, FailureTypes, SettleTypes DEF PcStates
  <2>4. CASE ~Terminal(e)
    <3>1. operation' \in [Operations -> OperationStates]
      BY <1>15, <2>4 DEF AttemptFailed, OperationStates
    <3>2. via' \in [Procs \cup Operations -> Nat]
      BY <1>15, <2>4 DEF AttemptFailed
    <3>3. UNCHANGED <<disposed, connectionId, farewell, initial, channel, verified>>
          /\ UNCHANGED <<failure, isConnected, keepAlive, open, pc, retried>>
      BY <1>15, <2>4 DEF AttemptFailed
    <3> QED BY <2>1, <2>2, <3>1, <3>2, <3>3
  <2> QED BY <2>3, <2>4
<1>16. ASSUME NEW o \in Operations, Retry(o) PROVE TypeOK'
  <2>1. CASE disposed
    BY <1>16, <2>1, SettleTypes DEF Retry, PcStates
  <2>2. CASE ~disposed
    BY <1>16, <2>2, BeginTypes DEF Retry
  <2> QED BY <2>1, <2>2
<1>17. ASSUME NEW o \in Operations, HandlersDone(o) PROVE TypeOK'
  BY <1>17, SettleTypes DEF HandlersDone, PcStates
<1>18. CASE KeepAliveLost
  <2>1. CASE failure
    BY <1>18, <2>1, FaultTypes, FailureTypes DEF KeepAliveLost
  <2>2. CASE ~failure
    BY <1>18, <2>2, RecoverTypes, FaultTypes DEF KeepAliveLost
  <2> QED BY <2>1, <2>2
<1>19. CASE Dispose
  BY <1>19 DEF Dispose, NoStream, Operations
<1>20. CASE FarewellDone
  BY <1>20, NumberTypes DEF FarewellDone
<1>21. CASE UNCHANGED vars
  BY <1>21 DEF vars
<1> QED
  BY <1>1, <1>2, <1>3, <1>4, <1>5, <1>6, <1>7, <1>8, <1>9, <1>10, <1>11, <1>12, <1>13,
     <1>14, <1>15, <1>16, <1>17, <1>18, <1>19, <1>20, <1>21
  DEF Next, Event, Continue, CallEnds, HealthCheckEnds, AttemptStep, Procs

LEMMA InitTypes == Init => TypeOK
<1> SUFFICES ASSUME Init PROVE TypeOK
  OBVIOUS
<1>1. operation \in [Operations -> OperationStates]
  BY DEF Init, OperationStates
<1>2. keepAlive \in [phase : {"none", "handshake", "live", "lost"},
                     id : Nat, on : Nat, owner : Operations]
  BY DEF Init, NoStream, Operations
<1>3. via \in [Procs \cup Operations -> Nat]
  BY DEF Init
<1> QED BY <1>1, <1>2, <1>3, ClientAssumption DEF Init, TypeOK

\* Type correctness of the connection, for any callers and any number of faults.
THEOREM TypeCorrect == Spec => []TypeOK
BY InitTypes, TypeStep, PTL DEF Spec

-----------------------------------------------------------------------------
(* The inductive invariant. *)

\* Nothing that a recovery could start from is going on.
Unused == (\A p \in Procs : pc[p] # "rpc") /\ keepAlive.phase \notin {"live", "lost"}

\* Only recoverConnection announces a disconnect.
ConnectNeverNotifies == operation["connect"] # "notify"

\* A caller that has seen no recovery gets to look at the connection before one starts.
GateAlone == (\E c \in Callers : pc[c] = "gate") => operation["reconnect"] = "idle"

\* The first connection is attempted alone, while nothing uses a connection.
FirstConnection ==
  ~failure /\ operation["connect"] \in Attempting \cup {"backoff"}
    => operation["reconnect"] = "idle" /\ ~isConnected /\ Unused

\* Without a connection and without a recovery there never was a connection.
NotYetConnected ==
  ~failure /\ ~disposed /\ ~isConnected /\ operation["reconnect"] = "idle"
    => operation["connect"] # "handlers" /\ Unused

\* A recovery that has reached its handlers has connected.
Reconnected == operation["reconnect"] = "handlers" /\ ~failure /\ ~disposed => isConnected

\* While there is a connection no operation makes another.
Quiet == isConnected => \A o \in Operations : operation[o] \in {"idle", "handlers"}

\* Nor while dispose says farewell.
Departed ==
  farewell => /\ disposed /\ ~isConnected
              /\ \A o \in Operations : operation[o] \in {"idle", "handlers"}

\* The stream in its handshake was opened under the id of now.
HandshakeIdentity ==
  \A o \in Operations :
    ~failure /\ operation[o] = "handshake" /\ Handshaking(o) => keepAlive.id = connectionId

Core ==
  /\ FailureIsFinal
  /\ ConnectNeverNotifies
  /\ GateAlone
  /\ FirstConnection
  /\ NotYetConnected
  /\ Reconnected
  /\ Quiet
  /\ Departed
  /\ HandshakeIdentity
  /\ SessionIdentity

Inv == TypeOK /\ Core

\* What TypeOK says of the variables the invariant is about, without numbers.
LEMMA StateTypes ==
  ASSUME TypeOK
  PROVE  /\ disposed \in BOOLEAN /\ failure \in BOOLEAN
         /\ isConnected \in BOOLEAN /\ farewell \in BOOLEAN
         /\ operation \in [Operations -> OperationStates]
         /\ pc \in [Procs -> PcStates]
         /\ DOMAIN via = Procs \cup Operations
BY DEF TypeOK, PcStates

LEMMA InvInit == Init => Inv
<1> SUFFICES ASSUME Init PROVE Inv
  OBVIOUS
<1>1. TypeOK
  BY InitTypes
<1>2. /\ ~disposed /\ ~failure /\ ~isConnected /\ ~farewell
      /\ \A o \in Operations : operation[o] = "idle"
      /\ keepAlive.phase = "none"
      /\ \A p \in Procs : pc[p] = "idle"
  BY DEF Init, NoStream
<1>3. \A c \in Callers : pc[c] # "gate"
  BY <1>2 DEF Procs
<1>4. operation["connect"] = "idle" /\ operation["reconnect"] = "idle"
  BY <1>2 DEF Operations
<1> QED
  BY <1>1, <1>2, <1>3, <1>4
  DEF Inv, Core, FailureIsFinal, ConnectNeverNotifies, GateAlone, FirstConnection, NotYetConnected, Reconnected,
      Quiet, Departed, HandshakeIdentity, SessionIdentity, Attempting, Unused

-----------------------------------------------------------------------------
(* Every step keeps the invariant. *)

\* A step that leaves the state of the invariant alone keeps it.
LEMMA CoreStutter ==
  ASSUME Core, UNCHANGED <<disposed, failure, isConnected, connectionId, farewell, operation, keepAlive, pc>>
  PROVE  Core'
BY DEF Core, FailureIsFinal, ConnectNeverNotifies, GateAlone, FirstConnection, NotYetConnected,
   Reconnected, Quiet, Departed, HandshakeIdentity, SessionIdentity, Handshaking, Unused

\* Settling an operation: who may come to use the connection, and who to look at it.
LEMMA SettleFacts ==
  ASSUME TypeOK, NEW o \in Operations, NEW ok \in BOOLEAN, Settle(o, ok)
  PROVE  /\ operation' = [operation EXCEPT ![o] = "idle"]
         /\ \A p \in Procs : pc'[p] = "rpc" => pc[p] = "rpc" \/ o = "connect"
         /\ \A p \in Procs : pc'[p] = "gate" => pc[p] = "gate" \/ o = "reconnect"
         /\ \A c \in Callers : pc'[c] = "gate" => pc[c] = "gate" \/ o = "reconnect"
<1>1. operation' = [operation EXCEPT ![o] = "idle"] /\ pc' = [p \in Procs |-> Resumed(o, ok, p)]
  BY DEF Settle
<1>2. ASSUME NEW p \in Procs
      PROVE  /\ Resumed(o, ok, p) = "rpc" => pc[p] = "rpc" \/ o = "connect"
             /\ Resumed(o, ok, p) = "gate" => pc[p] = "gate" \/ o = "reconnect"
  BY DEF Resumed, ResumedBy
<1>3. \A p \in Procs : /\ pc'[p] = "rpc" => pc[p] = "rpc" \/ o = "connect"
                       /\ pc'[p] = "gate" => pc[p] = "gate" \/ o = "reconnect"
  BY <1>1, <1>2
<1> QED BY <1>1, <1>3 DEF Procs

\* A connection that is announced, with its stream registered under the id of
\* now, keeps the invariant.
LEMMA AnnouncedKeepsCore ==
  ASSUME Inv, NEW o \in Operations, operation[o] \in Attempting, ~failure, isConnected',
         operation' = [operation EXCEPT ![o] = "handlers"],
         UNCHANGED <<disposed, failure, connectionId, farewell, pc>>,
         KeepAlive => keepAlive'.phase = "live" /\ keepAlive'.id = connectionId
  PROVE  Core'
<1> USE DEF Inv, Core, FirstConnection, Departed, Attempting, Operations
<1>1. o = "reconnect" => operation["connect"] \in {"idle", "handlers"}
  BY StateTypes DEF ConnectNeverNotifies, OperationStates
<1>2. o = "connect" => operation["reconnect"] = "idle"
  OBVIOUS
<1>3. \A q \in Operations : operation'[q] \in {"idle", "handlers"}
  BY <1>1, <1>2, StateTypes
<1>4. ~farewell
  OBVIOUS
<1>5. (\E c \in Callers : pc[c] = "gate") => operation'["reconnect"] = "idle"
  BY <1>2, StateTypes DEF GateAlone
<1> QED
  BY <1>3, <1>4, <1>5, StateTypes
  DEF FailureIsFinal, ConnectNeverNotifies, GateAlone, NotYetConnected, Reconnected, Quiet,
      HandshakeIdentity, SessionIdentity

LEMMA InvStep ==
  ASSUME Inv, Next
  PROVE  Core'
<1> USE DEF Inv, Core, FailureIsFinal, ConnectNeverNotifies, GateAlone, FirstConnection,
    NotYetConnected, Reconnected, Quiet, Departed, HandshakeIdentity, SessionIdentity,
    Handshaking, Unused, Attempting, Operations, connectionVars, callVars
<1>1. ASSUME NEW c \in Callers, Enter(c) PROVE Core'
  BY <1>1, StateTypes DEF Enter, Procs, FailConnection, NoStream, DropOnFailure
<1>2. ASSUME NEW c \in Callers, Validate(c) PROVE Core'
  BY <1>2, StateTypes DEF Validate, Procs, InRecovery
<1>3. ASSUME NEW c \in Callers, Gate(c) PROVE Core'
  BY <1>3, StateTypes DEF Gate, Procs, BeginAttempt
<1> SUFFICES ASSUME Settled, Event PROVE Core'
  BY <1>1, <1>2, <1>3 DEF Next, Continue
<1>s. \A c \in Callers : pc[c] # "gate"
  BY DEF Settled, Prompt, Procs
<1>4. ASSUME NEW c \in Callers, Call(c) PROVE Core'
  BY <1>4, <1>s, StateTypes DEF Call, Procs
<1>5. ASSUME NEW p \in Procs, CallAnswered(p) PROVE Core'
  BY <1>5, <1>s, StateTypes DEF CallAnswered, Procs
<1>6. ASSUME NEW c \in Callers, NEW e \in Errors, CallFailed(c, e) PROVE Core'
  BY <1>6, <1>s, StateTypes
  DEF CallFailed, Procs, FailConnection, NoStream, DropOnFailure, Recover, InRecovery, BeginAttempt
<1>7. CASE HealthCheck
  BY <1>7, <1>s, StateTypes DEF HealthCheck, Procs
<1>8. CASE HealthCheckFailed
  BY <1>8, <1>s, StateTypes
  DEF HealthCheckFailed, Procs, FailConnection, NoStream, DropOnFailure, Recover, InRecovery, BeginAttempt
<1>9. CASE Notified
  <2>1. CASE disposed
    <3>1. /\ operation' = [operation EXCEPT !["reconnect"] = "idle"]
          /\ \A p \in Procs : pc'[p] = "rpc" => pc[p] = "rpc"
      BY <1>9, <2>1, SettleFacts DEF Notified
    <3>2. /\ operation["reconnect"] = "notify"
          /\ UNCHANGED <<disposed, failure, isConnected, keepAlive, farewell>>
      BY <1>9 DEF Notified
    <3> QED BY <2>1, <3>1, <3>2, StateTypes
  <2>2. CASE ~disposed
    BY <1>9, <2>2, <1>s, StateTypes DEF Notified, BeginAttempt
  <2> QED BY <2>1, <2>2, StateTypes
<1>10. CASE InitialChannel
  BY <1>10, CoreStutter DEF InitialChannel
<1>11. ASSUME NEW o \in Operations, Created(o) PROVE Core'
  BY <1>11, <1>s, StateTypes DEF Created
<1>12. ASSUME NEW o \in Operations, Compatible(o) PROVE Core'
  BY <1>12, <1>s, StateTypes DEF Compatible
<1>13. ASSUME NEW o \in Operations, Probed(o) PROVE Core'
  <2>1. CASE KeepAlive
    BY <1>13, <2>1, <1>s, StateTypes DEF Probed, OpenKeepAlive
  <2>2. CASE ~KeepAlive /\ failure
    <3>1. Settle(o, TRUE) /\ UNCHANGED isConnected
      BY <1>13, <2>2 DEF Probed, Announce, ConnectedIgnored
    <3> QED BY <1>13, <2>2, <3>1, <1>s, StateTypes, SettleFacts DEF Probed
  <2>3. CASE ~KeepAlive /\ ~failure
    <3>1. /\ operation[o] = "probe" /\ isConnected'
          /\ operation' = [operation EXCEPT ![o] = "handlers"]
          /\ UNCHANGED <<disposed, failure, keepAlive, connectionId, farewell, pc>>
      BY <1>13, <2>3 DEF Probed, Announce, ConnectedIgnored
    <3> QED BY <2>3, <3>1, AnnouncedKeepsCore
  <2> QED BY <2>1, <2>2, <2>3
<1>14. ASSUME NEW o \in Operations, Registered(o) PROVE Core'
  <2>1. CASE failure
    <3>1. Settle(o, TRUE) /\ UNCHANGED isConnected
      BY <1>14, <2>1 DEF Registered, Announce, ConnectedIgnored
    <3> QED BY <1>14, <2>1, <3>1, <1>s, StateTypes, SettleFacts DEF Registered
  <2>2. CASE ~failure
    <3>1. /\ operation[o] = "handshake" /\ isConnected'
          /\ operation' = [operation EXCEPT ![o] = "handlers"]
          /\ UNCHANGED <<disposed, failure, connectionId, farewell, pc>>
          /\ keepAlive' = [keepAlive EXCEPT !.phase = "live"]
      BY <1>14, <2>2 DEF Registered, Announce, ConnectedIgnored
    <3>2. keepAlive'.phase = "live" /\ keepAlive'.id = keepAlive.id
      BY <3>1 DEF TypeOK
    <3>3. keepAlive.id = connectionId
      BY <1>14, <2>2, <3>1 DEF Registered
    <3> QED BY <2>2, <3>1, <3>2, <3>3, AnnouncedKeepsCore
  <2> QED BY <2>1, <2>2
<1>15. ASSUME NEW o \in Operations, NEW e \in Errors, AttemptFailed(o, e) PROVE Core'
  <2>1. CASE Terminal(e)
    <3>1. /\ FailConnection /\ Settle(o, FALSE)
          /\ UNCHANGED <<disposed, connectionId, farewell>>
      BY <1>15, <2>1 DEF AttemptFailed
    <3>2. /\ failure' /\ ~isConnected' /\ keepAlive'.phase = "none"
      BY <3>1, StateTypes DEF FailConnection, NoStream, DropOnFailure
    <3>3. operation' = [operation EXCEPT ![o] = "idle"]
      BY <3>1, SettleFacts
    <3>4. \A c \in Callers : pc'[c] = "gate" => o = "reconnect"
      BY <3>1, <1>s, SettleFacts
    <3> QED BY <3>1, <3>2, <3>3, <3>4, StateTypes
  <2>2. CASE ~Terminal(e)
    <3>1. /\ operation' = [operation EXCEPT ![o] = "backoff"]
          /\ operation[o] \in Attempting
          /\ UNCHANGED <<disposed, connectionId, farewell, failure, isConnected, keepAlive, pc>>
      BY <1>15, <2>2 DEF AttemptFailed
    <3> QED BY <3>1, <1>s, StateTypes
  <2> QED BY <2>1, <2>2
<1>16. ASSUME NEW o \in Operations, Retry(o) PROVE Core'
  <2>1. CASE disposed
    BY <1>16, <2>1, <1>s, StateTypes, SettleFacts DEF Retry
  <2>2. CASE ~disposed
    BY <1>16, <2>2, <1>s, StateTypes DEF Retry, BeginAttempt
  <2> QED BY <2>1, <2>2
<1>17. ASSUME NEW o \in Operations, HandlersDone(o) PROVE Core'
  BY <1>17, <1>s, StateTypes, SettleFacts, ZenonT(40) DEF HandlersDone
<1>18. CASE KeepAliveLost
  <2>1. CASE failure
    BY <1>18, <2>1, <1>s, StateTypes DEF KeepAliveLost, FailConnection, NoStream, DropOnFailure
  <2>2. CASE ~failure
    <3>1. keepAlive' = [keepAlive EXCEPT !.phase = "lost"]
      BY <1>18, <2>2 DEF KeepAliveLost
    <3>2. keepAlive'.phase = "lost" /\ keepAlive'.id = keepAlive.id
      BY <3>1 DEF TypeOK
    <3> QED
      BY <1>18, <2>2, <3>2, <1>s, StateTypes DEF KeepAliveLost, Recover, InRecovery, BeginAttempt
  <2> QED BY <2>1, <2>2
<1>19. CASE Dispose
  BY <1>19, <1>s, StateTypes DEF Dispose, NoStream
<1>20. CASE FarewellDone
  BY <1>20, <1>s, StateTypes DEF FarewellDone
<1> QED
  BY <1>4, <1>5, <1>6, <1>7, <1>8, <1>9, <1>10, <1>11, <1>12, <1>13, <1>14, <1>15, <1>16,
     <1>17, <1>18, <1>19, <1>20
  DEF Event, CallEnds, HealthCheckEnds, AttemptStep, Procs

LEMMA Invariance == Spec => []Inv
<1>1. Inv /\ [Next]_vars => Inv'
  <2> SUFFICES ASSUME Inv, [Next]_vars PROVE Inv'
    OBVIOUS
  <2>1. TypeOK'
    BY TypeStep DEF Inv
  <2>2. CASE Next
    BY <2>1, <2>2, InvStep DEF Inv
  <2>3. CASE UNCHANGED vars
    BY <2>1, <2>3, CoreStutter DEF Inv, vars
  <2> QED BY <2>2, <2>3
<1> QED BY <1>1, InvInit, PTL DEF Spec

\* A client that has failed for good is never connected again.
THEOREM FailureStaysFinal == Spec => []FailureIsFinal
<1>1. Inv => FailureIsFinal
  BY DEF Inv, Core
<1> QED BY <1>1, Invariance, PTL

\* The first connection is never attempted beside a recovery, unless the client
\* has failed.
THEOREM NeverCompeting == Spec => []NoCompetingAttempt
<1>1. Inv => NoCompetingAttempt
  BY DEF Inv, Core, FirstConnection, NoCompetingAttempt
<1> QED BY <1>1, Invariance, PTL

\* A connected client's keep-alive is registered under its connection id.
THEOREM SessionKeepsIdentity == Spec => []SessionIdentity
<1>1. Inv => SessionIdentity
  BY DEF Inv, Core
<1> QED BY <1>1, Invariance, PTL

-----------------------------------------------------------------------------
(* The refinement of ConnectionLifecycle. *)

PromiseStep == [Lifecycle!Next]_(Lifecycle!lifecycleVars)

\* A step that its followers do not see.
LEMMA Unseen ==
  ASSUME UNCHANGED <<isConnected, failure, connectionId, farewell>>,
         operation'["reconnect"] = "notify" <=> operation["reconnect"] = "notify"
  PROVE  PromiseStep
BY DEF PromiseStep, Lifecycle!lifecycleVars, Renewing

\* Failing the connection, for the first time or once more.
LEMMA FailureSeen ==
  ASSUME Inv, FailConnection, UNCHANGED <<connectionId, farewell>>,
         operation'["reconnect"] = "notify" <=> operation["reconnect"] = "notify"
  PROVE  PromiseStep
<1>1. Renewing' = Renewing
  BY DEF Renewing
<1>2. CASE failure
  <2>1. UNCHANGED <<isConnected, failure>>
    BY <1>2, StateTypes DEF Inv, FailConnection, DropOnFailure
  <2> QED BY <2>1, Unseen
<1>3. CASE ~failure
  BY <1>1, <1>3 DEF FailConnection, DropOnFailure, PromiseStep, Lifecycle!Next, Lifecycle!Failed
<1> QED BY <1>2, <1>3

\* Dropping the connection: one more disconnect whose handlers run.
LEMMA DropSeen ==
  ASSUME isConnected, ~isConnected', UNCHANGED <<failure, connectionId>>, isConnected' \in BOOLEAN,
         operation["reconnect"] # "notify", ~farewell,
         \/ operation'["reconnect"] = "notify" /\ ~farewell'
         \/ operation'["reconnect"] # "notify" /\ farewell'
  PROVE  PromiseStep
<1>1. Renewing = 0 /\ Renewing' = 1
  BY DEF Renewing
<1>2. Renewing' = Renewing + 1
  BY <1>1
<1> QED BY <1>2 DEF PromiseStep, Lifecycle!Next, Lifecycle!BeginDisconnect

\* Starting or joining a recovery.
LEMMA RecoverSeen ==
  ASSUME Inv, Recover, UNCHANGED <<failure, connectionId, farewell>>
  PROVE  PromiseStep
<1> USE StateTypes DEF Inv, Core, Operations
<1>1. CASE InRecovery \/ (disposed /\ ~isConnected)
  BY <1>1, Unseen DEF Recover
<1>2. CASE ~InRecovery /\ isConnected
  <2>1. operation'["reconnect"] = "notify" /\ isConnected' = FALSE
    BY <1>2 DEF Recover
  <2>2. operation["reconnect"] = "idle" /\ ~farewell
    BY <1>2 DEF InRecovery, Departed
  <2> QED BY <1>2, <2>1, <2>2, DropSeen
<1>3. CASE ~InRecovery /\ ~isConnected /\ ~disposed
  <2>1. operation'["reconnect"] # "notify" /\ operation["reconnect"] # "notify"
    BY <1>3 DEF Recover, InRecovery, BeginAttempt
  <2> QED BY <1>3, <2>1, Unseen DEF Recover
<1> QED BY <1>1, <1>2, <1>3

\* Announcing a connection: no disconnect is being handled then.
LEMMA AnnounceSeen ==
  ASSUME Inv, NEW o \in Operations, operation[o] \in Attempting, Announce(o),
         UNCHANGED <<failure, connectionId, farewell>>
  PROVE  PromiseStep
<1> USE StateTypes DEF Inv, Core, Operations, Attempting
<1>1. CASE failure
  <2>1. operation' = [operation EXCEPT ![o] = "idle"] /\ UNCHANGED isConnected
    BY <1>1, SettleFacts DEF Announce, ConnectedIgnored
  <2> QED BY <2>1, Unseen
<1>2. CASE ~failure
  <2>1. isConnected' = TRUE /\ operation' = [operation EXCEPT ![o] = "handlers"]
    BY <1>2 DEF Announce, ConnectedIgnored
  <2>2. operation["reconnect"] # "notify" /\ operation'["reconnect"] # "notify"
    BY <1>2, <2>1 DEF FirstConnection
  <2>3. ~farewell
    BY DEF Departed
  <2>4. Renewing = 0 /\ Renewing' = 0
    BY <2>2, <2>3 DEF Renewing
  <2>5. ~isConnected
    BY DEF Quiet
  <2> QED BY <1>2, <2>1, <2>4, <2>5 DEF PromiseStep, Lifecycle!Next, Lifecycle!Connected
<1> QED BY <1>1, <1>2

\* The handlers of a disconnect have run, and the id is renewed.
LEMMA RenewalSeen ==
  ASSUME Inv, Renewing = 1, Renewing' = 0, connectionId' = RenewedId, UNCHANGED <<isConnected, failure>>
  PROVE  PromiseStep
BY DEF RenewedId, PromiseStep, Lifecycle!Next, Lifecycle!RenewId

LEMMA Simulation ==
  ASSUME Inv, Next
  PROVE  PromiseStep
<1> USE StateTypes DEF Inv, connectionVars, callVars, Operations
<1>1. ASSUME NEW c \in Callers, Enter(c) PROVE PromiseStep
  BY <1>1, FailureSeen, Unseen DEF Enter
<1>2. ASSUME NEW c \in Callers, Validate(c) PROVE PromiseStep
  BY <1>2, Unseen DEF Validate
<1>3. ASSUME NEW c \in Callers, Gate(c) PROVE PromiseStep
  BY <1>3, Unseen DEF Gate, BeginAttempt
<1>4. ASSUME NEW c \in Callers, Call(c) PROVE PromiseStep
  BY <1>4, Unseen DEF Call
<1>5. ASSUME NEW p \in Procs, CallAnswered(p) PROVE PromiseStep
  BY <1>5, Unseen DEF CallAnswered
<1>6. ASSUME NEW c \in Callers, NEW e \in Errors, CallFailed(c, e) PROVE PromiseStep
  BY <1>6, FailureSeen, RecoverSeen, Unseen DEF CallFailed
<1>7. CASE HealthCheck
  BY <1>7, Unseen DEF HealthCheck
<1>8. CASE HealthCheckFailed
  BY <1>8, FailureSeen, RecoverSeen DEF HealthCheckFailed
<1>9. CASE Notified
  <2>1. operation["reconnect"] = "notify" /\ connectionId' = RenewedId
        /\ UNCHANGED <<isConnected, failure, farewell>>
    BY <1>9 DEF Notified
  <2>2. operation'["reconnect"] # "notify"
    BY <1>9, SettleFacts DEF Notified, BeginAttempt
  <2>3. ~farewell
    BY <2>1 DEF Core, Departed
  <2>4. Renewing = 1 /\ Renewing' = 0
    BY <2>1, <2>2, <2>3 DEF Renewing
  <2> QED BY <2>1, <2>4, RenewalSeen
<1>10. CASE InitialChannel
  BY <1>10, Unseen DEF InitialChannel
<1>11. ASSUME NEW o \in Operations, Created(o) PROVE PromiseStep
  BY <1>11, Unseen DEF Created
<1>12. ASSUME NEW o \in Operations, Compatible(o) PROVE PromiseStep
  BY <1>12, Unseen DEF Compatible
<1>13. ASSUME NEW o \in Operations, Probed(o) PROVE PromiseStep
  BY <1>13, Unseen, AnnounceSeen DEF Probed, Attempting
<1>14. ASSUME NEW o \in Operations, Registered(o) PROVE PromiseStep
  BY <1>14, AnnounceSeen DEF Registered, Attempting
<1>15. ASSUME NEW o \in Operations, NEW e \in Errors, AttemptFailed(o, e) PROVE PromiseStep
  <2>1. operation[o] \in Attempting /\ UNCHANGED <<connectionId, farewell>>
    BY <1>15 DEF AttemptFailed, Attempting
  <2>2. CASE Terminal(e)
    <3>1. FailConnection /\ operation' = [operation EXCEPT ![o] = "idle"]
      BY <1>15, <2>2, SettleFacts DEF AttemptFailed
    <3> QED BY <2>1, <3>1, FailureSeen DEF Attempting
  <2>3. CASE ~Terminal(e)
    <3>1. operation' = [operation EXCEPT ![o] = "backoff"] /\ UNCHANGED <<failure, isConnected>>
      BY <1>15, <2>3 DEF AttemptFailed
    <3> QED BY <2>1, <3>1, Unseen DEF Attempting
  <2> QED BY <2>2, <2>3
<1>16. ASSUME NEW o \in Operations, Retry(o) PROVE PromiseStep
  <2>1. operation[o] = "backoff" /\ UNCHANGED <<isConnected, failure, connectionId, farewell>>
    BY <1>16 DEF Retry
  <2>2. \E st \in {"idle", "creating"} : operation' = [operation EXCEPT ![o] = st]
    BY <1>16, SettleFacts DEF Retry, BeginAttempt
  <2> QED BY <2>1, <2>2, Unseen
<1>17. ASSUME NEW o \in Operations, HandlersDone(o) PROVE PromiseStep
  <2>1. operation' = [operation EXCEPT ![o] = "idle"] /\ operation[o] = "handlers"
        /\ UNCHANGED <<isConnected, failure, connectionId, farewell>>
    BY <1>17, SettleFacts DEF HandlersDone
  <2> QED BY <2>1, Unseen
<1>18. CASE KeepAliveLost
  BY <1>18, FailureSeen, RecoverSeen DEF KeepAliveLost
<1>19. CASE Dispose
  <2>1. /\ ~disposed /\ isConnected' = FALSE /\ farewell' = isConnected
        /\ UNCHANGED <<failure, operation, connectionId>>
    BY <1>19 DEF Dispose
  <2>2. ~farewell
    BY <2>1 DEF Core, Departed
  <2>3. CASE isConnected
    BY <2>1, <2>2, <2>3, DropSeen DEF Core, Quiet
  <2>4. CASE ~isConnected
    BY <2>1, <2>2, <2>4, Unseen
  <2> QED BY <2>3, <2>4
<1>20. CASE FarewellDone
  <2>1. /\ farewell /\ farewell' = FALSE /\ connectionId' = RenewedId
        /\ UNCHANGED <<operation, isConnected, failure>>
    BY <1>20 DEF FarewellDone
  <2>2. operation["reconnect"] # "notify"
    BY <2>1 DEF Core, Departed
  <2>3. Renewing = 1 /\ Renewing' = 0
    BY <2>1, <2>2 DEF Renewing
  <2> QED BY <2>1, <2>3, RenewalSeen
<1> QED
  BY <1>1, <1>2, <1>3, <1>4, <1>5, <1>6, <1>7, <1>8, <1>9, <1>10, <1>11, <1>12, <1>13,
     <1>14, <1>15, <1>16, <1>17, <1>18, <1>19, <1>20
  DEF Next, Event, Continue, CallEnds, HealthCheckEnds, AttemptStep, Procs

\* The connection of ChronicleClient is a ConnectionLifecycle.
THEOREM LifecyclePromise == Spec => KeepsLifecyclePromise
<1>1. Init => Lifecycle!Init
  BY DEF Init, Lifecycle!Init, Renewing, Operations
<1>2. Inv /\ [Next]_vars => PromiseStep
  <2>1. Inv /\ Next => PromiseStep
    BY Simulation
  <2>2. UNCHANGED vars => PromiseStep
    BY Unseen DEF vars
  <2> QED BY <2>1, <2>2
<1> QED BY <1>1, <1>2, Invariance, PTL DEF Spec, KeepsLifecyclePromise, Lifecycle!Spec, PromiseStep
=============================================================================
