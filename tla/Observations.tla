---------------------------- MODULE Observations ----------------------------
(***************************************************************************)
(* The observations that one event store keeps open with the kernel for    *)
(* its reactors, or for its reducers: registering them, starting them      *)
(* again when their stream ends, and stopping them on a disconnect or when *)
(* the store is disposed (reactors/Reactors.ts, reducers/Reducers.ts,      *)
(* EventStore.ts).  Of the connection they see what ConnectionLifecycle    *)
(* promises.                                                               *)
(*                                                                         *)
(* A stream is known by its observer and by how many were started for that *)
(* observer before it.  What streams carry is left out.                    *)
(***************************************************************************)
EXTENDS Naturals

CONSTANTS
  Observers,        \* the ids of the reactors, or of the reducers
  NewStore,         \* getOrCreateEventStore's registration of the artifacts
  Reconnects,       \* the registrations that connected handlers may have in flight
  AwaitReadModels,  \* TRUE of reducers: register() awaits registerReadModels
  MaxConnections,   \* bound: connections, after the one the store was created on
  MaxEnds           \* bound: streams that end without having been aborted

ASSUME ObservationsAssumption ==
  /\ NewStore \notin Reconnects
  /\ AwaitReadModels \in BOOLEAN
  /\ MaxConnections \in Nat /\ MaxEnds \in Nat

VARIABLES
  isConnected, failure, connectionId, renewing,   \* the ConnectionLifecycle
  registered,   \* _registered
  disposed,     \* _disposed
  calls,        \* where each call of registerArtifacts stands
  started,      \* how many streams were started for each observer
  observing,    \* the streams that are open
  aborted,      \* the streams whose AbortController fired, until they end
  tracked,      \* _queues and _observations: the number of the stream, or 0
  timers,       \* the pending timers of scheduleReobserve
  ends          \* how many more open streams may end

lifecycleVars == <<isConnected, failure, connectionId, renewing>>
streamVars == <<started, observing, aborted, tracked>>
vars == <<lifecycleVars, registered, disposed, calls, streamVars, timers, ends>>

Lifecycle == INSTANCE ConnectionLifecycle

Calls == Reconnects \cup {NewStore}
Stream == [observer : Observers, number : Nat]

\* "artifacts": before its call of register(); "readModels": in the await of
\* registerReadModels; "rest": after register().
TypeOK ==
  /\ Lifecycle!TypeOK
  /\ registered \in BOOLEAN /\ disposed \in BOOLEAN
  /\ calls \in [Calls -> {"idle", "artifacts", "readModels", "rest"}]
  /\ started \in [Observers -> Nat]
  /\ observing \subseteq Stream /\ aborted \subseteq Stream
  /\ tracked \in [Observers -> Nat]
  /\ timers \in [Observers -> Nat]
  /\ ends \in Nat

\* getOrCreateEventStore has created the store on a connection and registers it.
Init ==
  /\ isConnected = TRUE /\ failure = FALSE /\ connectionId = 0 /\ renewing = 0
  /\ registered = FALSE /\ disposed = FALSE
  /\ calls = [c \in Calls |-> IF c = NewStore THEN "artifacts" ELSE "idle"]
  /\ started = [o \in Observers |-> 0]
  /\ observing = {} /\ aborted = {}
  /\ tracked = [o \in Observers |-> 0]
  /\ timers = [o \in Observers |-> 0]
  /\ ends = MaxEnds

-----------------------------------------------------------------------------
(* Pieces of the handlers. *)

Next1(o) == started[o] + 1

\* startObservation, up to the await of the stream: a new queue and a new
\* controller take the place of those that the observer had.  That it does nothing for
\* a disposed store is the guard of each of its callers, with no await in between.
Start(observers) ==
  /\ started' = [o \in Observers |-> IF o \in observers THEN Next1(o) ELSE started[o]]
  /\ tracked' = [o \in Observers |-> IF o \in observers THEN Next1(o) ELSE tracked[o]]
  /\ observing' = observing \cup {[observer |-> o, number |-> Next1(o)] : o \in observers}
  /\ UNCHANGED aborted

\* disconnectAll: only the streams in the maps can be aborted.
DisconnectAll ==
  LET reached == {s \in observing : tracked[s.observer] = s.number}
  IN /\ observing' = observing \ reached
     /\ aborted' = aborted \cup reached
     /\ tracked' = [o \in Observers |-> 0]
     /\ UNCHANGED started

\* dispose(): the store, or its client, is disposed of.
Stop ==
  /\ disposed' = TRUE
  /\ registered' = FALSE
  /\ DisconnectAll

\* register() does nothing for a store that is registered or disposed.
Closed == registered \/ disposed

\* Starting again is for observers that are registered still.  Mutant: a
\* stream that ends without an error is taken for the end of the observation.
ReobservesErrors == FALSE
Reobserves == registered /\ ~disposed

\* What an ending stream retires: its own queue.  Mutant: whatever is there.
RetiresAny(s) == TRUE
Retires(s) == tracked[s.observer] = s.number

-----------------------------------------------------------------------------
(* The connection. *)

\* The connected handler registers the artifacts of the store again.  A store
\* that was disposed of for its failure is no longer among the client's stores.
Connected ==
  /\ Lifecycle!Connected
  /\ connectionId <= MaxConnections
  /\ \/ \E c \in Reconnects : calls[c] = "idle" /\ calls' = [calls EXCEPT ![c] = "artifacts"]
     \/ disposed /\ UNCHANGED calls
  /\ UNCHANGED <<registered, disposed, streamVars, timers, ends>>

\* The disconnected handler, which dispose() unsubscribes.
Disconnect ==
  /\ Lifecycle!BeginDisconnect
  /\ IF disposed
     THEN UNCHANGED <<registered, streamVars>>
     ELSE registered' = FALSE /\ DisconnectAll
  /\ UNCHANGED <<disposed, calls, timers, ends>>

\* What else happens to a connection means nothing to the observations.
ConnectionElse ==
  /\ Lifecycle!Failed \/ Lifecycle!RenewId
  /\ UNCHANGED <<registered, disposed, calls, streamVars, timers, ends>>

-----------------------------------------------------------------------------
(* Registration. *)

\* register(), up to its await.  What comes before it in registerArtifacts may
\* have taken any time, and the connection may have been lost and found since.
Register(c) ==
  /\ calls[c] = "artifacts"
  /\ IF Closed
     THEN /\ calls' = [calls EXCEPT ![c] = "rest"]
          /\ UNCHANGED <<registered, streamVars>>
     ELSE IF AwaitReadModels
     THEN /\ calls' = [calls EXCEPT ![c] = "readModels"]
          /\ UNCHANGED <<registered, streamVars>>
     ELSE /\ calls' = [calls EXCEPT ![c] = "rest"]
          /\ Start(Observers)
          /\ registered' = TRUE
  /\ UNCHANGED <<lifecycleVars, disposed, timers, ends>>

\* register() of reducers, after registerReadModels.
\* Mutant: dispose is not looked at.
MayStartAlways == TRUE
MayStart == ~disposed

ReadModelsRegistered(c) ==
  /\ calls[c] = "readModels"
  /\ calls' = [calls EXCEPT ![c] = "rest"]
  /\ IF MayStart
     THEN Start(Observers) /\ registered' = TRUE
     ELSE UNCHANGED <<registered, streamVars>>
  /\ UNCHANGED <<lifecycleVars, disposed, timers, ends>>

\* A call of registerArtifacts ends.  When it fails, a connected handler's is
\* logged, and a new store is disposed of.
RegistrationEnds(c) ==
  /\ calls[c] = "rest"
  /\ calls' = [calls EXCEPT ![c] = "idle"]
  /\ UNCHANGED <<lifecycleVars, registered, disposed, streamVars, timers, ends>>

RegistrationFails(c) ==
  /\ calls[c] # "idle"
  /\ calls' = [calls EXCEPT ![c] = "idle"]
  /\ IF c = NewStore THEN Stop ELSE UNCHANGED <<registered, disposed, streamVars>>
  /\ UNCHANGED <<lifecycleVars, timers, ends>>

\* Another registration of the same Promise.all has failed: register() goes on.
SiblingFails ==
  /\ calls[NewStore] = "readModels"
  /\ ~disposed
  /\ Stop
  /\ UNCHANGED <<lifecycleVars, calls, timers, ends>>

-----------------------------------------------------------------------------
(* Streams. *)

\* The stream ends: the loop of observeReactor or observeReducer is left, the
\* queue retired, and runObservation schedules the next one.
StreamEnds(s) ==
  /\ s \in observing \cup aborted
  /\ IF s \in aborted THEN UNCHANGED ends ELSE ends > 0 /\ ends' = ends - 1
  /\ observing' = observing \ {s}
  /\ aborted' = aborted \ {s}
  /\ tracked' = IF Retires(s) THEN [tracked EXCEPT ![s.observer] = 0] ELSE tracked
  /\ timers' = IF Reobserves THEN [timers EXCEPT ![s.observer] = @ + 1] ELSE timers
  /\ UNCHANGED <<lifecycleVars, registered, disposed, calls, started>>

\* The timer of scheduleReobserve.  A disconnect does not clear it.
TimerFires(o) ==
  /\ timers[o] > 0
  /\ timers' = [timers EXCEPT ![o] = @ - 1]
  /\ IF registered /\ ~disposed THEN Start({o}) ELSE UNCHANGED streamVars
  /\ UNCHANGED <<lifecycleVars, registered, disposed, calls, ends>>

Dispose ==
  /\ ~disposed
  /\ Stop
  /\ UNCHANGED <<lifecycleVars, calls, timers, ends>>

-----------------------------------------------------------------------------

AbortedEnds(s) == s \in aborted /\ StreamEnds(s)

Next ==
  \/ Connected \/ Disconnect \/ ConnectionElse
  \/ \E c \in Calls : Register(c) \/ ReadModelsRegistered(c)
                      \/ RegistrationEnds(c) \/ RegistrationFails(c)
  \/ SiblingFails
  \/ \E s \in observing \cup aborted : StreamEnds(s)
  \/ \E o \in Observers : TimerFires(o)
  \/ Dispose

Spec == Init /\ [][Next]_vars

\* Timers fire, and a stream that was aborted ends once its handler has.
Fairness ==
  /\ \A o \in Observers : WF_vars(TimerFires(o))
  /\ WF_vars(\E s \in aborted : AbortedEnds(s))

FairSpec == Spec /\ Fairness

-----------------------------------------------------------------------------
(* Properties. *)

\* "Only retire our own queue: a reconnect can already have replaced it, and
\* deleting the new one would leave that observation untracked"
\* (Reactors.ts:318-320): the last stream started for an observer is always
\* within the reach of the next disconnect or dispose.
LatestIsTracked ==
  \A s \in observing : s.number = started[s.observer] => tracked[s.observer] = s.number

\* A registered observer is never forgotten: it has a stream, whose end will
\* start the next, or a timer that will.
NoObserverForgotten ==
  registered => \A o \in Observers : timers[o] > 0 \/ \E s \in observing \cup aborted : s.observer = o

\* A store that has been disposed of starts no observation, although
\* registrations and timers of it may still be under way.
DisposeIsFinal == [][disposed => started' = started]_vars

\* A registered observer is observed, again and again, until a disconnect or
\* dispose ends its registration.
ObservedOrUnregistered ==
  \A o \in Observers : registered ~> ~registered \/ \E s \in observing : s.observer = o

\* "A disconnect clears the registration; the reconnect re-registers every
\* reactor from scratch, so retrying here as well would double up."
\* (Reactors.ts:232-233, Reducers.ts:299-300): no observer has two open streams.
NoDoubleObservation == \A s, t \in observing : s.observer = t.observer => s = t
=============================================================================
