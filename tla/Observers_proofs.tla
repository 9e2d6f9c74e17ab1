-------------------------- MODULE Observers_proofs --------------------------
(***************************************************************************)
(* What the observations of a store keep for any number of observers,      *)
(* registrations in flight, connections and streams that end; and what the *)
(* deliveries to a reactor and to a reducer keep for any log, partitions,  *)
(* pages, failures and streams.                                            *)
(***************************************************************************)
EXTENDS Observations, ReactorDelivery, Reductions, Orders

-----------------------------------------------------------------------------
(* The observations of a store: type correctness. *)

\* The types of what belongs to the streams.
StreamTypes ==
  /\ started \in [Observers -> Nat]
  /\ observing \subseteq Stream /\ aborted \subseteq Stream
  /\ tracked \in [Observers -> Nat]

LEMMA StartTypes ==
  ASSUME StreamTypes, NEW O \in SUBSET Observers, Start(O)
  PROVE  StreamTypes'
<1>1. \A o \in Observers : Next1(o) \in Nat
  BY DEF StreamTypes, Next1
<1>2. {[observer |-> o, number |-> Next1(o)] : o \in O} \subseteq Stream
  BY <1>1 DEF Stream
<1> QED BY <1>1, <1>2 DEF StreamTypes, Start

LEMMA DisconnectTypes ==
  ASSUME StreamTypes, DisconnectAll
  PROVE  StreamTypes'
BY DEF StreamTypes, DisconnectAll

LEMMA LifecycleTypes ==
  ASSUME Lifecycle!TypeOK, [Lifecycle!Next]_lifecycleVars
  PROVE  Lifecycle!TypeOK'
<1> USE DEF Lifecycle!TypeOK
<1>1. CASE Lifecycle!Failed
  BY <1>1 DEF Lifecycle!Failed
<1>2. CASE Lifecycle!Connected
  BY <1>2 DEF Lifecycle!Connected
<1>3. CASE Lifecycle!BeginDisconnect
  <2>1. renewing' \in Nat
    BY <1>3 DEF Lifecycle!BeginDisconnect
  <2> QED BY <1>3, <2>1 DEF Lifecycle!BeginDisconnect
<1>4. CASE Lifecycle!RenewId
  BY <1>4 DEF Lifecycle!RenewId
<1>5. CASE UNCHANGED lifecycleVars
  BY <1>5 DEF lifecycleVars
<1> QED BY <1>1, <1>2, <1>3, <1>4, <1>5 DEF Lifecycle!Next

LEMMA InitTypes == Init => TypeOK
<1> SUFFICES ASSUME Init PROVE TypeOK
  OBVIOUS
<1>1. Lifecycle!TypeOK
  BY DEF Init, Lifecycle!TypeOK
<1>2. /\ started \in [Observers -> Nat] /\ tracked \in [Observers -> Nat]
      /\ timers \in [Observers -> Nat]
  BY DEF Init
<1>3. calls \in [Calls -> {"idle", "artifacts", "readModels", "rest"}]
  BY DEF Init
<1> QED BY <1>1, <1>2, <1>3, ObservationsAssumption DEF Init, TypeOK

LEMMA ObservationsTypeStep ==
  ASSUME TypeOK, [Next]_vars
  PROVE  TypeOK'
<1> USE DEF StreamTypes, TypeOK, streamVars
<1>1. Lifecycle!TypeOK'
  <2>1. [Lifecycle!Next]_lifecycleVars
    BY DEF Next, Connected, Disconnect, ConnectionElse, Register, ReadModelsRegistered, RegistrationEnds,
       RegistrationFails, SiblingFails, StreamEnds, TimerFires, Dispose, vars, Lifecycle!Next
  <2> QED BY <2>1, LifecycleTypes
<1> USE <1>1
<1>2. CASE Connected
  BY <1>2 DEF Connected, Calls
<1>3. CASE Disconnect
  BY <1>3, DisconnectTypes DEF Disconnect
<1>4. CASE ConnectionElse
  BY <1>4 DEF ConnectionElse
<1>5. ASSUME NEW c \in Calls, Register(c) PROVE TypeOK'
  BY <1>5, StartTypes DEF Register
<1>6. ASSUME NEW c \in Calls, ReadModelsRegistered(c) PROVE TypeOK'
  BY <1>6, StartTypes DEF ReadModelsRegistered
<1>7. ASSUME NEW c \in Calls, RegistrationEnds(c) PROVE TypeOK'
  BY <1>7 DEF RegistrationEnds
<1>8. ASSUME NEW c \in Calls, RegistrationFails(c) PROVE TypeOK'
  BY <1>8, DisconnectTypes DEF RegistrationFails, Stop
<1>9. CASE SiblingFails
  BY <1>9, DisconnectTypes DEF SiblingFails, Stop
<1>10. ASSUME NEW s \in observing \cup aborted, StreamEnds(s) PROVE TypeOK'
  <2>1. s.observer \in Observers
    BY DEF Stream
  <2>2. timers' \in [Observers -> Nat]
    BY <1>10, <2>1 DEF StreamEnds
  <2>3. ends' \in Nat
    BY <1>10 DEF StreamEnds
  <2>4. /\ observing' = observing \ {s} /\ aborted' = aborted \ {s}
        /\ UNCHANGED <<registered, disposed, calls, started>>
    BY <1>10 DEF StreamEnds
  <2>5. tracked' \in [Observers -> Nat]
    BY <1>10, <2>1 DEF StreamEnds
  <2> QED BY <2>2, <2>3, <2>4, <2>5
<1>11. ASSUME NEW o \in Observers, TimerFires(o) PROVE TypeOK'
  <2>1. timers' \in [Observers -> Nat]
    BY <1>11 DEF TimerFires
  <2>2. StreamTypes'
    BY <1>11, StartTypes DEF TimerFires
  <2>3. UNCHANGED <<registered, disposed, calls, ends>>
    BY <1>11 DEF TimerFires
  <2> QED BY <2>1, <2>2, <2>3
<1>12. CASE Dispose
  BY <1>12, DisconnectTypes DEF Dispose, Stop
<1>13. CASE UNCHANGED vars
  BY <1>13 DEF vars
<1> QED
  BY <1>2, <1>3, <1>4, <1>5, <1>6, <1>7, <1>8, <1>9, <1>10, <1>11, <1>12, <1>13 DEF Next

\* Type correctness of the observations.
THEOREM ObservationsTypeCorrect == Spec => []TypeOK
BY InitTypes, ObservationsTypeStep, PTL DEF Spec

-----------------------------------------------------------------------------
(* The observations that a store has. *)

\* Streams are numbered by the starts of their observer.
Numbered == \A s \in observing : s.number <= started[s.observer]

\* Dispose ends the registration for good.
DisposedIsUnregistered == disposed => ~registered

ObservationsInv ==
  /\ TypeOK
  /\ Numbered
  /\ DisposedIsUnregistered
  /\ LatestIsTracked
  /\ NoObserverForgotten

\* What the invariant is about is left alone.
LEMMA Untouched ==
  ASSUME ObservationsInv, UNCHANGED <<registered, disposed, streamVars, timers>>
  PROVE  Numbered' /\ DisposedIsUnregistered' /\ LatestIsTracked' /\ NoObserverForgotten'
BY DEF ObservationsInv, Numbered, DisposedIsUnregistered, LatestIsTracked, NoObserverForgotten, streamVars

LEMMA StartKeeps ==
  ASSUME TypeOK, Numbered, LatestIsTracked, NEW O \in SUBSET Observers, Start(O)
  PROVE  /\ Numbered' /\ LatestIsTracked'
         /\ \A o \in O : \E s \in observing' : s.observer = o
         /\ observing \subseteq observing' /\ aborted' = aborted
<1>1. \A o \in Observers : Next1(o) \in Nat /\ Next1(o) = started[o] + 1 /\ started[o] \in Nat
  BY DEF TypeOK, Next1
<1>2. \A s \in observing : s.observer \in Observers /\ s.number \in Nat
  BY DEF TypeOK, Stream
<1>3. ASSUME NEW s \in observing'
      PROVE  /\ s.number <= started'[s.observer]
             /\ s.number = started'[s.observer] => tracked'[s.observer] = s.number
  <2>1. CASE s \in observing
    <3>1. CASE s.observer \in O
      <4>1. started'[s.observer] = started[s.observer] + 1 /\ s.number <= started[s.observer]
        BY <2>1, <3>1, <1>1, <1>2 DEF Start, Numbered
      <4> QED BY <4>1, <1>1, <1>2, <2>1
    <3>2. CASE s.observer \notin O
      BY <2>1, <3>2, <1>2 DEF Start, Numbered, LatestIsTracked
    <3> QED BY <3>1, <3>2
  <2>2. CASE \E o \in O : s = [observer |-> o, number |-> Next1(o)]
    BY <2>2, <1>1 DEF Start
  <2> QED BY <2>1, <2>2 DEF Start
<1>4. Numbered' /\ LatestIsTracked'
  BY <1>3 DEF Numbered, LatestIsTracked
<1>5. ASSUME NEW o \in O PROVE \E s \in observing' : s.observer = o
  <2> DEFINE new == [observer |-> o, number |-> Next1(o)]
  <2>1. new \in observing' /\ new.observer = o
    BY DEF Start
  <2> QED BY <2>1
<1> QED BY <1>4, <1>5 DEF Start

LEMMA StopKeeps ==
  ASSUME TypeOK, Numbered, LatestIsTracked, DisconnectAll
  PROVE  Numbered' /\ LatestIsTracked'
BY DEF TypeOK, Numbered, LatestIsTracked, DisconnectAll

LEMMA InvStep ==
  ASSUME ObservationsInv, [Next]_vars
  PROVE  ObservationsInv'
<1>t. TypeOK'
  BY ObservationsTypeStep DEF ObservationsInv
<1> DEFINE Goal == Numbered' /\ DisposedIsUnregistered' /\ LatestIsTracked' /\ NoObserverForgotten'
<1> SUFFICES Goal
  BY <1>t DEF ObservationsInv
<1> HIDE DEF Goal
<1> USE DEF ObservationsInv
<1>1. CASE Connected \/ ConnectionElse
  BY <1>1, Untouched DEF Connected, ConnectionElse, Goal
<1>2. CASE Disconnect
  <2>1. CASE disposed
    BY <1>2, <2>1, Untouched DEF Disconnect, Goal
  <2>2. CASE ~disposed
    BY <1>2, <2>2, StopKeeps DEF Disconnect, Goal, NoObserverForgotten, DisposedIsUnregistered
  <2> QED BY <2>1, <2>2
<1>3. ASSUME NEW c \in Calls, Register(c) PROVE Goal
  <2>1. CASE Closed \/ AwaitReadModels
    BY <1>3, <2>1, Untouched DEF Register, Goal
  <2>2. CASE ~Closed /\ ~AwaitReadModels
    BY <1>3, <2>2, StartKeeps
    DEF Register, Closed, Goal, NoObserverForgotten, DisposedIsUnregistered
  <2> QED BY <2>1, <2>2
<1>4. ASSUME NEW c \in Calls, ReadModelsRegistered(c) PROVE Goal
  <2>1. CASE disposed
    BY <1>4, <2>1, Untouched DEF ReadModelsRegistered, MayStart, Goal
  <2>2. CASE ~disposed
    BY <1>4, <2>2, StartKeeps
    DEF ReadModelsRegistered, MayStart, Goal, NoObserverForgotten, DisposedIsUnregistered
  <2> QED BY <2>1, <2>2
<1>5. ASSUME NEW c \in Calls, RegistrationEnds(c) PROVE Goal
  BY <1>5, Untouched DEF RegistrationEnds, Goal
<1>6. CASE Stop /\ UNCHANGED timers
  BY <1>6, StopKeeps DEF Stop, Goal, NoObserverForgotten, DisposedIsUnregistered
<1>7. ASSUME NEW c \in Calls, RegistrationFails(c) PROVE Goal
  BY <1>6, <1>7, Untouched DEF RegistrationFails, Goal
<1>8. CASE SiblingFails \/ Dispose
  BY <1>6, <1>8 DEF SiblingFails, Dispose
<1>9. ASSUME NEW s \in observing \cup aborted, StreamEnds(s) PROVE Goal
  <2>1. /\ observing' = observing \ {s} /\ aborted' = aborted \ {s}
        /\ UNCHANGED <<registered, disposed, started>>
        /\ tracked' = IF Retires(s) THEN [tracked EXCEPT ![s.observer] = 0] ELSE tracked
    BY <1>9 DEF StreamEnds
  <2>2. s \in Stream /\ observing \subseteq Stream
    BY DEF TypeOK
  <2>3. Numbered' /\ DisposedIsUnregistered'
    BY <2>1 DEF Numbered, DisposedIsUnregistered
  <2>4. ASSUME NEW u \in observing', u.number = started'[u.observer]
        PROVE  tracked'[u.observer] = u.number
    <3>1. u \in observing /\ u # s /\ tracked[u.observer] = u.number
      BY <2>1, <2>4 DEF LatestIsTracked
    <3>2. u.observer = s.observer => u.number # s.number
      BY <3>1, <2>2 DEF Stream
    <3> QED BY <2>1, <3>1, <3>2 DEF Retires, TypeOK
  <2>5. NoObserverForgotten'
    <3>1. CASE registered
      <4>1. timers' = [timers EXCEPT ![s.observer] = timers[s.observer] + 1]
        BY <1>9, <3>1 DEF StreamEnds, Reobserves, DisposedIsUnregistered
      <4>2. s.observer \in Observers /\ timers[s.observer] \in Nat
        BY <2>2 DEF Stream, TypeOK
      <4>3. timers'[s.observer] > 0
        BY <4>1, <4>2 DEF TypeOK
      <4>4. ASSUME NEW o \in Observers, o # s.observer
            PROVE  timers'[o] > 0 \/ \E u \in observing' \cup aborted' : u.observer = o
        BY <4>1, <4>4, <2>1, <3>1 DEF NoObserverForgotten, TypeOK
      <4> QED BY <4>3, <4>4 DEF NoObserverForgotten
    <3>2. CASE ~registered
      BY <2>1, <3>2 DEF NoObserverForgotten
    <3> QED BY <3>1, <3>2
  <2> QED BY <2>3, <2>4, <2>5 DEF Goal, LatestIsTracked
<1>10. ASSUME NEW o \in Observers, TimerFires(o) PROVE Goal
  <2>1. CASE ~registered
    BY <1>10, <2>1, Untouched
    DEF TimerFires, Goal, streamVars, Numbered, LatestIsTracked, DisposedIsUnregistered, NoObserverForgotten
  <2>2. CASE registered
    <3>1. /\ Start({o}) /\ UNCHANGED <<registered, disposed>>
          /\ timers' = [timers EXCEPT ![o] = timers[o] - 1]
      BY <1>10, <2>2 DEF TimerFires, DisposedIsUnregistered
    <3>2. /\ Numbered' /\ LatestIsTracked'
          /\ \E s \in observing' : s.observer = o
          /\ observing \subseteq observing' /\ aborted' = aborted
      BY <3>1, StartKeeps
    <3>3. ASSUME NEW p \in Observers, p # o PROVE timers'[p] = timers[p]
      BY <3>1, <3>3 DEF TypeOK
    <3>4. NoObserverForgotten'
      BY <2>2, <3>2, <3>3 DEF NoObserverForgotten
    <3> QED BY <3>1, <3>2, <3>4 DEF Goal, DisposedIsUnregistered
  <2> QED BY <2>1, <2>2
<1>11. CASE UNCHANGED vars
  BY <1>11, Untouched DEF vars, Goal
<1> QED
  BY <1>1, <1>2, <1>3, <1>4, <1>5, <1>7, <1>8, <1>9, <1>10, <1>11 DEF Next

LEMMA Invariance == Spec => []ObservationsInv
<1>1. Init => ObservationsInv
  BY InitTypes DEF Init, ObservationsInv, Numbered, DisposedIsUnregistered, LatestIsTracked, NoObserverForgotten
<1> QED BY <1>1, InvStep, PTL DEF Spec

\* The last stream started for an observer is within the reach of the next
\* disconnect or dispose.
THEOREM LatestStaysTracked == Spec => []LatestIsTracked
<1>1. ObservationsInv => LatestIsTracked
  BY DEF ObservationsInv
<1> QED BY <1>1, Invariance, PTL

\* A registered observer has a stream or a timer that will start one.
THEOREM NeverForgotten == Spec => []NoObserverForgotten
<1>1. ObservationsInv => NoObserverForgotten
  BY DEF ObservationsInv
<1> QED BY <1>1, Invariance, PTL

\* A disposed store starts no observation.
THEOREM DisposeEndsStarting == Spec => DisposeIsFinal
<1>1. ObservationsInv /\ [Next]_vars => [disposed => started' = started]_vars
  <2> SUFFICES ASSUME ObservationsInv, Next, disposed PROVE started' = started
    OBVIOUS
  <2>1. ~registered
    BY DEF ObservationsInv, DisposedIsUnregistered
  <2> QED
    BY <2>1
    DEF Next, Connected, Disconnect, ConnectionElse, Register, Closed, ReadModelsRegistered, MayStart,
        RegistrationEnds, RegistrationFails, SiblingFails, StreamEnds, TimerFires, Dispose, Stop,
        DisconnectAll, streamVars
<1> QED BY <1>1, Invariance, PTL DEF Spec, DisposeIsFinal

-----------------------------------------------------------------------------
(* The delivery to a reactor: the inductive invariant. *)

\* What has to have been handled before it is acknowledged was.
Done(e, handled, replay) ==
  TypeOf(e) \in {"event", "batch"} \/ (TypeOf(e) = "once" /\ ~replay) => e \in handled

\* A problem stands at the event or before it.
Troubled(d, p, e) == \E problem \in d.problems : problem.partition = p /\ problem.at <= e

\* A page holds events of its partitions only, and leaves out none that is not done.
WithoutGaps(d, handled, replay) ==
  \A p \in Partitions :
    /\ d.events[p] \subseteq Of(p) /\ d.todo[p] \subseteq d.events[p]
    /\ \A f \in d.events[p], e \in Of(p) : e < f => e \in d.events[p] \/ Done(e, handled, replay)

\* As long as a partition goes on, what came before it has succeeded.
GoesOnInOrder(d, handled) ==
  \A p \in Partitions : \A e \in d.events[p] \ d.todo[p], f \in d.todo[p] :
    e < f /\ (Selected(d, e) => e \in handled)

\* What a batch method or a handler was given has succeeded, or has a problem.
Accounted(d, handled) ==
  \A p \in Partitions : \A e \in d.events[p] :
    \/ d.pc = "batch"
    \/ TypeOf(e) # "batch" /\ (~Selected(d, e) \/ (d.pc = "events" /\ e \in d.todo[p]))
    \/ e \in handled \/ Troubled(d, p, e)

Sound(d, handled, replay) ==
  /\ d \in Dispatches
  /\ d.pc = "idle" => d = NoDispatch
  /\ d.pc # "idle" => d.replay = replay
  /\ d.pc = "batch" => d.todo = d.events
  /\ WithoutGaps(d, handled, replay) /\ GoesOnInOrder(d, handled) /\ Accounted(d, handled)

DeliveryInv ==
  /\ DeliveryTypeOK
  /\ ~streamOpen => stream < MaxStreams
  /\ \A s \in Streams : Sound(dispatch[s], succeeded, replaying)
  /\ AcknowledgedWasHandled /\ HandledInOrder

\* The partitions that a page may have are those of the log.
LEMMA Logged ==
  /\ Events = 1..Len(Log) /\ Len(Log) \in Nat /\ Events \subseteq Nat
  /\ \A e \in Events : e \in Nat /\ e > 0 /\ e <= Len(Log) /\ Log[e].partition \in Partitions
BY LogAssumption DEF Events, Partitions

LEMMA NoneIsSound ==
  ASSUME NEW handled, NEW replay
  PROVE  Sound(NoDispatch, handled, replay)
BY DEF Sound, NoDispatch, NoEvents, Dispatches, WithoutGaps, GoesOnInOrder, Accounted

LEMMA DeliveryStart == DeliveryInit => DeliveryInv
<1> SUFFICES ASSUME DeliveryInit PROVE DeliveryInv
  OBVIOUS
<1>1. DeliveryTypeOK
  <2>1. NoDispatch \in Dispatches
    BY NoneIsSound DEF Sound
  <2>2. position \in [Partitions -> Nat] /\ stream \in Streams /\ problemsLeft \in Nat /\ succeeded \subseteq Events
    BY PagesAssumption DEF DeliveryInit, Streams
  <2>3. replaying \in BOOLEAN /\ streamOpen \in BOOLEAN /\ dispatch \in [Streams -> Dispatches]
    BY <2>1 DEF DeliveryInit
  <2> QED BY <2>2, <2>3 DEF DeliveryTypeOK
<1>2. \A s \in Streams : Sound(dispatch[s], succeeded, replaying)
  BY NoneIsSound DEF DeliveryInit
<1>3. AcknowledgedWasHandled /\ HandledInOrder
  BY Logged DEF DeliveryInit, AcknowledgedWasHandled, HandledInOrder, Of
<1> QED BY <1>1, <1>2, <1>3 DEF DeliveryInit, DeliveryInv

\* A dispatch stays sound when others succeed.
LEMMA StaysSound ==
  ASSUME NEW d, NEW handled, NEW more, handled \subseteq more, NEW replay, Sound(d, handled, replay)
  PROVE  Sound(d, more, replay)
BY DEF Sound, WithoutGaps, GoesOnInOrder, Accounted, Done

\* What was done remains done when more was handled.
LEMMA StaysAcknowledged ==
  ASSUME AcknowledgedWasHandled, succeeded \subseteq succeeded', UNCHANGED <<position, replaying>>
  PROVE  AcknowledgedWasHandled'
BY DEF AcknowledgedWasHandled, Of

LEMMA OneProblemLess ==
  ASSUME DeliveryInv, AProblem
  PROVE  problemsLeft' \in Nat
BY DEF DeliveryInv, DeliveryTypeOK, AProblem

\* A step of one loop leaves the other loops and the kernel alone.
LEMMA LoopStep ==
  ASSUME DeliveryInv, NEW s \in Streams, NEW d, dispatch' = [dispatch EXCEPT ![s] = d],
         succeeded \subseteq succeeded', succeeded' \subseteq Events,
         UNCHANGED <<position, replaying, stream, streamOpen>>, problemsLeft' \in Nat,
         Sound(d, succeeded', replaying), HandledInOrder'
  PROVE  DeliveryInv'
<1>1. \A t \in Streams : Sound(dispatch'[t], succeeded', replaying')
  <2> SUFFICES ASSUME NEW t \in Streams PROVE Sound(dispatch'[t], succeeded', replaying)
    OBVIOUS
  <2>1. CASE t = s
    BY <2>1 DEF DeliveryInv, DeliveryTypeOK
  <2>2. CASE t # s
    <3>1. dispatch'[t] = dispatch[t]
      BY <2>2 DEF DeliveryInv, DeliveryTypeOK
    <3> QED BY <3>1, StaysSound DEF DeliveryInv
  <2> QED BY <2>1, <2>2
<1>2. DeliveryTypeOK'
  BY DEF DeliveryInv, DeliveryTypeOK, Sound
<1>3. AcknowledgedWasHandled'
  BY StaysAcknowledged DEF DeliveryInv
<1> QED BY <1>1, <1>2, <1>3 DEF DeliveryInv

-----------------------------------------------------------------------------
(* The steps of a delivery. *)

\* The first members of a set of numbers come with those before them.
LEMMA LeadingFirst ==
  ASSUME NEW T \in SUBSET Nat, IsFiniteSet(T), NEW n \in Nat, NEW f \in Leading(T, n), NEW e \in T, e < f
  PROVE  e \in Leading(T, n)
<1> DEFINE NoLater(k) == {g \in T : g <= k}
<1>1. NoLater(e) \subseteq NoLater(f)
  <2>1. e \in Nat /\ f \in Nat
    BY DEF Leading
  <2>2. \A g \in T : g \in Nat /\ (g <= e => g <= f)
    BY <2>1
  <2> QED BY <2>2
<1>2. IsFiniteSet(NoLater(f)) /\ IsFiniteSet(NoLater(e))
  <2>1. NoLater(f) \subseteq T /\ NoLater(e) \subseteq T
    OBVIOUS
  <2> QED BY <2>1, FS_Subset
<1>3. Cardinality(NoLater(e)) <= Cardinality(NoLater(f)) /\ Cardinality(NoLater(e)) \in Nat /\ Cardinality(NoLater(f)) \in Nat
  BY <1>1, <1>2, FS_Subset, FS_CardinalityType
<1>4. Cardinality(NoLater(f)) <= n
  BY DEF Leading
<1>5. Cardinality(NoLater(e)) <= n
  BY <1>3, <1>4
<1> QED BY <1>5 DEF Leading

LEMMA DeliverStep ==
  ASSUME DeliveryInv, NEW ps \in SUBSET Partitions, NEW paged \in BOOLEAN, Deliver(ps, paged)
  PROVE  DeliveryInv'
<1> DEFINE pg == [p \in Partitions |-> IF p \in ps THEN Leading(Pending(p), MaxPage) ELSE {}]
           d == [pc |-> "batch", events |-> pg, todo |-> pg, problems |-> {},
                 paged |-> paged, replay |-> replaying]
<1>1. /\ dispatch' = [dispatch EXCEPT ![stream] = d] /\ stream \in Streams
      /\ UNCHANGED <<position, replaying, stream, streamOpen, succeeded, problemsLeft>>
  BY DEF Deliver, DeliveryInv, DeliveryTypeOK
<1>2. \A p \in Partitions : position[p] \in Nat /\ Pending(p) \subseteq Of(p) /\ Of(p) \subseteq Events
  BY DEF DeliveryInv, DeliveryTypeOK, Pending, Of
<1>3. \A p \in Partitions : pg[p] \subseteq Pending(p)
  BY DEF Leading
<1>4. pg \in [Partitions -> SUBSET Events] /\ \A p \in Partitions : pg[p] \subseteq Of(p)
  BY <1>2, <1>3
<1>5. \A p \in Partitions : \A f \in pg[p], e \in Of(p) :
         e < f => e \in pg[p] \/ Done(e, succeeded, replaying)
  <2> SUFFICES ASSUME NEW p \in Partitions, NEW f \in pg[p], NEW e \in Of(p), e < f
               PROVE  e \in pg[p] \/ Done(e, succeeded, replaying)
    OBVIOUS
  <2>1. CASE e <= position[p]
    BY <2>1 DEF DeliveryInv, AcknowledgedWasHandled, Done
  <2>2. CASE ~(e <= position[p])
    <3>1. e \in Nat /\ e \in Pending(p)
      BY <1>2, <2>2, Logged DEF Pending
    <3>2. Pending(p) \in SUBSET Nat /\ IsFiniteSet(Pending(p))
      <4>1. Pending(p) \subseteq Events /\ IsFiniteSet(Events)
        BY <1>2, Logged, FS_Interval
      <4> QED BY <4>1, Logged, FS_Subset
    <3>3. p \in ps /\ f \in Leading(Pending(p), MaxPage)
      OBVIOUS
    <3>4. e \in Leading(Pending(p), MaxPage)
      BY <3>1, <3>2, <3>3, LeadingFirst, PagesAssumption
    <3> QED BY <3>3, <3>4
  <2> QED BY <2>1, <2>2
<1> HIDE DEF pg
<1>6. Sound(d, succeeded, replaying)
  <2>1. d \in Dispatches
    BY <1>4 DEF Dispatches, DeliveryInv, DeliveryTypeOK
  <2>2. WithoutGaps(d, succeeded, replaying)
    BY <1>4, <1>5 DEF WithoutGaps
  <2> QED BY <2>1, <2>2 DEF Sound, GoesOnInOrder, Accounted
<1> HIDE DEF d
<1>7. HandledInOrder' /\ succeeded' \subseteq Events /\ problemsLeft' \in Nat
  BY <1>1 DEF DeliveryInv, HandledInOrder, DeliveryTypeOK
<1> QED BY <1>1, <1>6, <1>7, LoopStep

LEMMA ReplayStep ==
  ASSUME DeliveryInv, Replay
  PROVE  DeliveryInv'
<1>1. \A s \in Streams : dispatch[s] = NoDispatch
  BY DEF Replay, DeliveryInv, Sound
<1>2. \A s \in Streams : Sound(dispatch'[s], succeeded', replaying')
  BY <1>1, NoneIsSound DEF Replay
<1>3. AcknowledgedWasHandled' /\ HandledInOrder'
  BY Logged DEF Replay, AcknowledgedWasHandled, HandledInOrder, Of
<1> QED BY <1>2, <1>3 DEF Replay, DeliveryInv, DeliveryTypeOK

\* A dispatch under way, and its next state, that of these events and problems.
LEMMA UnderWay ==
  ASSUME DeliveryInv, NEW s \in Streams
  PROVE  /\ Sound(dispatch[s], succeeded, replaying) /\ dispatch[s] \in Dispatches
         /\ \A p \in Partitions : /\ dispatch[s].events[p] \subseteq Events /\ dispatch[s].events[p] \subseteq Nat
                                  /\ dispatch[s].todo[p] \subseteq dispatch[s].events[p]
         /\ succeeded \subseteq Events /\ problemsLeft \in Nat
<1>1. Sound(dispatch[s], succeeded, replaying) /\ dispatch[s] \in Dispatches
  BY DEF DeliveryInv, Sound
<1> QED BY <1>1, Logged DEF DeliveryInv, DeliveryTypeOK, Sound, WithoutGaps, Of

LEMMA FailsEachStep ==
  ASSUME DeliveryInv, NEW s \in Streams, NotifyOrActivationFailed(s)
  PROVE  DeliveryInv'
<1> DEFINE d == [dispatch[s] EXCEPT !.pc = "settle", !.problems = FailEach(dispatch[s].events)]
<1>1. /\ dispatch' = [dispatch EXCEPT ![s] = d] /\ dispatch[s].pc \in {"batch", "settle"}
      /\ UNCHANGED <<position, replaying, stream, streamOpen, succeeded>> /\ problemsLeft' \in Nat
  BY OneProblemLess DEF NotifyOrActivationFailed
<1>2. \A p \in Partitions : dispatch[s].events[p] # {} =>
        /\ Min(dispatch[s].events[p]) \in dispatch[s].events[p]
        /\ \A e \in dispatch[s].events[p] : Min(dispatch[s].events[p]) <= e
  BY UnderWay, MinOf
<1>3. d \in Dispatches
  <2>1. FailEach(dispatch[s].events) \in SUBSET [partition : Partitions, at : Events, state : {"failed", "deferred"}]
    BY <1>2, UnderWay DEF FailEach, FailedAt
  <2> QED BY <2>1, UnderWay DEF Dispatches
<1>4. \A p \in Partitions : \A e \in d.events[p] : Troubled(d, p, e)
  <2> SUFFICES ASSUME NEW p \in Partitions, NEW e \in dispatch[s].events[p] PROVE Troubled(d, p, e)
    BY UnderWay DEF Dispatches
  <2>1. FailedAt(p, Min(dispatch[s].events[p])) \in FailEach(dispatch[s].events)
    BY DEF FailEach
  <2>2. d.problems = FailEach(dispatch[s].events)
    BY UnderWay DEF Dispatches
  <2> QED BY <1>2, <2>1, <2>2 DEF Troubled, FailedAt
<1>5. Sound(d, succeeded, replaying)
  <2>1. d.pc = "settle" /\ d.events = dispatch[s].events /\ d.todo = dispatch[s].todo /\ d.replay = dispatch[s].replay
    BY UnderWay DEF Dispatches
  <2>2. WithoutGaps(d, succeeded, replaying) /\ GoesOnInOrder(d, succeeded)
    BY <2>1, UnderWay DEF Sound, WithoutGaps, GoesOnInOrder, Selected
  <2>3. Accounted(d, succeeded)
    BY <1>4 DEF Accounted
  <2> QED BY <1>1, <1>3, <2>1, <2>2, <2>3, UnderWay DEF Sound
<1> HIDE DEF d
<1>6. HandledInOrder' /\ succeeded' \subseteq Events
  BY <1>1, UnderWay DEF DeliveryInv, HandledInOrder
<1> QED BY <1>1, <1>5, <1>6, LoopStep

\* The batch method returns or not: what it was given has succeeded, or has a problem.
LEMMA BatchStep ==
  ASSUME DeliveryInv, NEW s \in Streams, dispatch[s].pc = "batch",
         NEW problems \in SUBSET [partition : Partitions, at : Events, state : {"failed", "deferred"}],
         dispatch' = [dispatch EXCEPT ![s] = [dispatch[s] EXCEPT !.pc = "events", !.problems = problems]],
         succeeded \subseteq succeeded', succeeded' \subseteq succeeded \cup InBatch(dispatch[s]),
         \A p \in Partitions : \A e \in Batch(dispatch[s], p) :
           e \in succeeded' \/ \E problem \in problems : problem.partition = p /\ problem.at <= e,
         UNCHANGED <<position, replaying, stream, streamOpen>>, problemsLeft' \in Nat
  PROVE  DeliveryInv'
<1> DEFINE d == [dispatch[s] EXCEPT !.pc = "events", !.problems = problems]
<1>1. /\ d \in Dispatches /\ d.pc = "events" /\ d.events = dispatch[s].events /\ d.todo = dispatch[s].events
      /\ d.replay = dispatch[s].replay /\ d.problems = problems
  BY UnderWay DEF Dispatches, Sound
<1>2. Sound(d, succeeded', replaying)
  <2>1. WithoutGaps(d, succeeded', replaying)
    BY <1>1, UnderWay DEF Sound, WithoutGaps, Done
  <2>2. GoesOnInOrder(d, succeeded')
    BY <1>1 DEF GoesOnInOrder
  <2>3. Accounted(d, succeeded')
    BY <1>1 DEF Accounted, Batch, Troubled
  <2> QED BY <1>1, <2>1, <2>2, <2>3, UnderWay DEF Sound
<1>3. InBatch(dispatch[s]) \subseteq Events /\ \A e \in InBatch(dispatch[s]) : TypeOf(e) = "batch"
  BY UnderWay DEF InBatch, Batch
<1>4. HandledInOrder'
  BY <1>3 DEF DeliveryInv, HandledInOrder, TypeOf
<1>5. succeeded' \subseteq Events
  BY <1>3, UnderWay
<1> HIDE DEF d
<1> QED BY <1>2, <1>4, <1>5, LoopStep DEF d

LEMMA BatchSteps ==
  ASSUME DeliveryInv, NEW s \in Streams,
         \/ BatchSucceeds(s) \/ BatchThrows(s)
         \/ \E e \in Events, state \in {"failed", "deferred"} : BatchReports(s, e, state)
  PROVE  DeliveryInv'
<1>1. CASE BatchSucceeds(s)
  <2>1. dispatch[s].problems \in SUBSET [partition : Partitions, at : Events, state : {"failed", "deferred"}]
    BY UnderWay DEF Dispatches
  <2>2. dispatch' = [dispatch EXCEPT ![s] = [dispatch[s] EXCEPT !.pc = "events", !.problems = dispatch[s].problems]]
    <3>1. [dispatch[s] EXCEPT !.pc = "events", !.problems = dispatch[s].problems] = [dispatch[s] EXCEPT !.pc = "events"]
      BY UnderWay DEF Dispatches
    <3> QED BY <1>1, <3>1 DEF BatchSucceeds
  <2>3. \A p \in Partitions : Batch(dispatch[s], p) \subseteq succeeded'
    BY <1>1 DEF BatchSucceeds, InBatch
  <2> QED BY <1>1, <2>1, <2>2, <2>3, BatchStep, UnderWay DEF BatchSucceeds
<1>2. CASE BatchThrows(s)
  <2> DEFINE batch == BatchEvents(dispatch[s])
  <2>1. \A p \in Partitions : batch[p] = Batch(dispatch[s], p) /\ batch[p] \subseteq Events /\ batch[p] \subseteq Nat
    BY UnderWay DEF BatchEvents, Batch
  <2>2. \A p \in Partitions : batch[p] # {} => Min(batch[p]) \in batch[p] /\ \A e \in batch[p] : Min(batch[p]) <= e
    BY <2>1, MinOf
  <2> HIDE DEF batch
  <2>3. FailEach(batch) \in SUBSET [partition : Partitions, at : Events, state : {"failed", "deferred"}]
    BY <2>1, <2>2 DEF FailEach, FailedAt
  <2>4. ASSUME NEW p \in Partitions, NEW e \in Batch(dispatch[s], p)
        PROVE  \E problem \in FailEach(batch) : problem.partition = p /\ problem.at <= e
    <3>1. FailedAt(p, Min(batch[p])) \in FailEach(batch)
      BY <2>1, <2>4 DEF FailEach
    <3> QED BY <2>1, <2>2, <2>4, <3>1 DEF FailedAt
  <2>5. /\ dispatch' = [dispatch EXCEPT ![s] = [dispatch[s] EXCEPT !.pc = "events", !.problems = FailEach(batch)]]
        /\ problemsLeft' \in Nat
    BY <1>2, OneProblemLess DEF BatchThrows, batch
  <2>6. /\ dispatch[s].pc = "batch" /\ succeeded \subseteq succeeded'
        /\ succeeded' \subseteq succeeded \cup InBatch(dispatch[s])
        /\ UNCHANGED <<position, replaying, stream, streamOpen>>
    BY <1>2 DEF BatchThrows
  <2>7. \A p \in Partitions : \A e \in Batch(dispatch[s], p) :
          e \in succeeded' \/ \E problem \in FailEach(batch) : problem.partition = p /\ problem.at <= e
    BY <2>4
  <2> QED BY <2>3, <2>5, <2>6, <2>7, BatchStep
<1>3. ASSUME NEW e \in Events, NEW state \in {"failed", "deferred"}, BatchReports(s, e, state)
      PROVE  DeliveryInv'
  <2> DEFINE problem == [partition |-> Log[e].partition, at |-> e, state |-> state]
  <2>1. {problem} \in SUBSET [partition : Partitions, at : Events, state : {"failed", "deferred"}]
    BY Logged
  <2>2. \A p \in Partitions : Batch(dispatch[s], p) \subseteq Of(p)
    BY UnderWay DEF Batch, Sound, WithoutGaps
  <2>3. ASSUME NEW p \in Partitions, NEW f \in Batch(dispatch[s], p)
        PROVE  f \in succeeded' \/ \E q \in {problem} : q.partition = p /\ q.at <= f
    <3>1. f \in InBatch(dispatch[s]) /\ Log[f].partition = p /\ f \in Nat /\ e \in Nat
      BY <2>2, <2>3, Logged DEF InBatch, Of
    <3>2. CASE p = Log[e].partition /\ e <= f
      BY <3>2
    <3>3. CASE ~(p = Log[e].partition /\ e <= f)
      <4>1. Log[f].partition = Log[e].partition => f < e
        BY <3>1, <3>3
      <4> QED BY <1>3, <3>1, <4>1 DEF BatchReports
    <3> QED BY <3>2, <3>3
  <2>4. /\ dispatch' = [dispatch EXCEPT ![s] = [dispatch[s] EXCEPT !.pc = "events", !.problems = {problem}]]
        /\ problemsLeft' \in Nat
    BY <1>3, OneProblemLess DEF BatchReports
  <2>5. succeeded \subseteq succeeded' /\ succeeded' \subseteq succeeded \cup InBatch(dispatch[s])
    BY <1>3 DEF BatchReports
  <2>6. dispatch[s].pc = "batch" /\ UNCHANGED <<position, replaying, stream, streamOpen>>
    BY <1>3 DEF BatchReports
  <2> HIDE DEF problem
  <2> QED BY <2>1, <2>3, <2>4, <2>5, <2>6, BatchStep
<1> QED BY <1>1, <1>2, <1>3

\* The next event of a partition is done with.
LEMMA HandledStep ==
  ASSUME DeliveryInv, NEW s \in Streams, NEW p \in Partitions, NEW e \in Events, Handled(s, p, e)
  PROVE  DeliveryInv'
<1> DEFINE d == [dispatch[s] EXCEPT !.todo[p] = dispatch[s].todo[p] \ {e}]
<1>1. /\ dispatch' = [dispatch EXCEPT ![s] = d] /\ dispatch[s].pc = "events" /\ dispatch[s].todo[p] # {}
      /\ e = Min(dispatch[s].todo[p])
      /\ succeeded' = (IF Selected(dispatch[s], e) THEN succeeded \cup {e} ELSE succeeded)
      /\ UNCHANGED <<position, replaying, stream, streamOpen, problemsLeft>>
  BY DEF Handled, Turn
<1>2. e \in dispatch[s].todo[p] /\ e \in dispatch[s].events[p] /\ \A f \in dispatch[s].todo[p] : e <= f
  BY <1>1, UnderWay, MinOf
<1>3. /\ d.pc = "events" /\ d.events = dispatch[s].events /\ d.problems = dispatch[s].problems
      /\ d.replay = dispatch[s].replay /\ d \in Dispatches
      /\ \A q \in Partitions : d.todo[q] = IF q = p THEN dispatch[s].todo[p] \ {e} ELSE dispatch[s].todo[q]
  BY <1>1, UnderWay DEF Dispatches
<1> HIDE DEF d
<1>4. Sound(d, succeeded', replaying)
  <2>1. WithoutGaps(d, succeeded', replaying)
    BY <1>1, <1>3, UnderWay DEF Sound, WithoutGaps, Done
  <2>2. GoesOnInOrder(d, succeeded')
    <3> SUFFICES ASSUME NEW q \in Partitions, NEW g \in d.events[q] \ d.todo[q], NEW f \in d.todo[q]
                 PROVE  g < f /\ (Selected(d, g) => g \in succeeded')
      BY DEF GoesOnInOrder
    <3>1. f \in dispatch[s].todo[q] /\ f \in Nat
      BY <1>3, UnderWay
    <3>2. Selected(d, g) <=> Selected(dispatch[s], g)
      BY <1>3 DEF Selected
    <3>3. CASE q = p /\ g = e
      BY <1>1, <1>2, <1>3, <3>1, <3>2, <3>3, Logged
    <3>4. CASE ~(q = p /\ g = e)
      <4>1. g \in dispatch[s].events[q] \ dispatch[s].todo[q]
        BY <1>3, <3>4
      <4> QED BY <1>1, <3>1, <3>2, <4>1, UnderWay DEF Sound, GoesOnInOrder
    <3> QED BY <3>3, <3>4
  <2>3. Accounted(d, succeeded')
    <3> SUFFICES ASSUME NEW q \in Partitions, NEW f \in dispatch[s].events[q],
                        TypeOf(f) # "batch" => Selected(d, f) /\ f \notin d.todo[q],
                        f \notin succeeded'
                 PROVE  Troubled(d, q, f)
      BY <1>3 DEF Accounted
    <3>1. Selected(d, f) <=> Selected(dispatch[s], f)
      BY <1>3 DEF Selected
    <3>2. f \notin succeeded /\ (f = e => ~Selected(d, f))
      BY <1>1, <3>1
    <3>3. TypeOf(f) # "batch" => f \notin dispatch[s].todo[q]
      BY <1>3, <3>2
    <3>4. Troubled(dispatch[s], q, f)
      BY <1>1, <3>1, <3>2, <3>3, UnderWay DEF Sound, Accounted
    <3> QED BY <1>3, <3>4 DEF Troubled
  <2> QED BY <1>1, <1>3, <2>1, <2>2, <2>3, UnderWay DEF Sound
<1>5. HandledInOrder'
  <2> SUFFICES ASSUME NEW g \in Events, NEW f \in Events, Log[g].partition = Log[f].partition, g < f,
                      TypeOf(g) = "event", TypeOf(f) = "event", f \in succeeded'
               PROVE  g \in succeeded'
    BY DEF HandledInOrder, TypeOf, Events
  <2>1. CASE f \in succeeded
    BY <1>1, <2>1 DEF DeliveryInv, HandledInOrder
  <2>2. CASE f \notin succeeded
    <3>1. f = e
      BY <1>1, <2>2
    <3>2. f \in Of(p) /\ g \in Of(p)
      BY <1>2, <3>1, UnderWay DEF Sound, WithoutGaps, Of
    <3>3. g \in dispatch[s].events[p] \/ Done(g, succeeded, replaying)
      BY <1>2, <3>1, <3>2, UnderWay DEF Sound, WithoutGaps
    <3>4. CASE Done(g, succeeded, replaying)
      BY <1>1, <3>4 DEF Done
    <3>5. CASE g \in dispatch[s].events[p]
      <4>1. g \notin dispatch[s].todo[p]
        BY <1>2, <3>1, Logged
      <4>2. Selected(dispatch[s], g)
        BY DEF Selected
      <4> QED BY <1>1, <1>2, <3>5, <4>1, <4>2, UnderWay DEF Sound, GoesOnInOrder
    <3> QED BY <3>3, <3>4, <3>5
  <2> QED BY <2>1, <2>2
<1>6. succeeded \subseteq succeeded' /\ succeeded' \subseteq Events /\ problemsLeft' \in Nat
  BY <1>1, UnderWay
<1> QED BY <1>1, <1>4, <1>5, <1>6, LoopStep

LEMMA HandlerFailsStep ==
  ASSUME DeliveryInv, NEW s \in Streams, NEW p \in Partitions, NEW e \in Events, HandlerFails(s, p, e)
  PROVE  DeliveryInv'
<1> DEFINE d == [dispatch[s] EXCEPT !.todo[p] = {}, !.problems = dispatch[s].problems \cup {FailedAt(p, e)}]
<1>1. /\ dispatch' = [dispatch EXCEPT ![s] = d] /\ dispatch[s].pc = "events" /\ dispatch[s].todo[p] # {}
      /\ e = Min(dispatch[s].todo[p]) /\ problemsLeft' \in Nat
      /\ UNCHANGED <<position, replaying, stream, streamOpen, succeeded>>
  BY OneProblemLess DEF HandlerFails, Turn, Left, LeftAt
<1>2. \A f \in dispatch[s].todo[p] : e <= f
  BY <1>1, UnderWay, MinOf
<1>3. /\ d.pc = "events" /\ d.events = dispatch[s].events
      /\ d.problems = dispatch[s].problems \cup {FailedAt(p, e)}
      /\ d.replay = dispatch[s].replay /\ d \in Dispatches
      /\ \A q \in Partitions : d.todo[q] = IF q = p THEN {} ELSE dispatch[s].todo[q]
  <2>1. FailedAt(p, e) \in [partition : Partitions, at : Events, state : {"failed", "deferred"}]
    BY DEF FailedAt
  <2> HIDE DEF FailedAt
  <2>2. dispatch[s] \in Dispatches
    BY UnderWay
  <2> QED BY <1>1, <2>1, <2>2 DEF Dispatches
<1> HIDE DEF d
<1>4. Sound(d, succeeded, replaying)
  <2>1. WithoutGaps(d, succeeded, replaying)
    BY <1>3, UnderWay DEF Sound, WithoutGaps
  <2>2. GoesOnInOrder(d, succeeded)
    BY <1>3, UnderWay DEF Sound, GoesOnInOrder, Selected
  <2>3. Accounted(d, succeeded)
    <3> SUFFICES ASSUME NEW q \in Partitions, NEW f \in dispatch[s].events[q],
                        TypeOf(f) # "batch" => Selected(d, f) /\ f \notin d.todo[q],
                        f \notin succeeded
                 PROVE  Troubled(d, q, f)
      BY <1>3 DEF Accounted
    <3>1. CASE q = p /\ f \in dispatch[s].todo[q]
      <4>1. FailedAt(p, e) \in d.problems /\ e <= f
        BY <1>2, <1>3, <3>1
      <4> QED BY <3>1, <4>1 DEF Troubled, FailedAt
    <3>2. CASE ~(q = p /\ f \in dispatch[s].todo[q])
      <4>1. TypeOf(f) # "batch" => f \notin dispatch[s].todo[q]
        BY <1>3, <3>2
      <4>2. Selected(d, f) <=> Selected(dispatch[s], f)
        BY <1>3 DEF Selected
      <4>3. Troubled(dispatch[s], q, f)
        BY <1>1, <4>1, <4>2, UnderWay DEF Sound, Accounted
      <4> QED BY <1>3, <4>3 DEF Troubled
    <3> QED BY <3>1, <3>2
  <2> QED BY <1>1, <1>3, <2>1, <2>2, <2>3, UnderWay DEF Sound
<1>5. HandledInOrder' /\ succeeded' \subseteq Events
  BY <1>1, UnderWay DEF DeliveryInv, HandledInOrder
<1> QED BY <1>1, <1>4, <1>5, LoopStep

LEMMA AllServedStep ==
  ASSUME DeliveryInv, NEW s \in Streams, AllServed(s)
  PROVE  DeliveryInv'
<1> DEFINE d == [dispatch[s] EXCEPT !.pc = "settle"]
<1>1. /\ dispatch' = [dispatch EXCEPT ![s] = d] /\ dispatch[s].pc = "events" /\ dispatch[s].todo = NoEvents
      /\ UNCHANGED <<position, replaying, stream, streamOpen, succeeded, problemsLeft>>
  BY DEF AllServed
<1>2. /\ d.pc = "settle" /\ d.events = dispatch[s].events /\ d.todo = dispatch[s].todo
      /\ d.problems = dispatch[s].problems /\ d.replay = dispatch[s].replay /\ d \in Dispatches
  BY UnderWay DEF Dispatches
<1> HIDE DEF d
<1>3. Sound(d, succeeded, replaying)
  <2>1. \A p \in Partitions : dispatch[s].todo[p] = {}
    BY <1>1 DEF NoEvents
  <2>2. Accounted(d, succeeded)
    BY <1>1, <1>2, <2>1, UnderWay DEF Sound, Accounted, Troubled, Selected
  <2>3. WithoutGaps(d, succeeded, replaying) /\ GoesOnInOrder(d, succeeded)
    BY <1>2, <2>1, UnderWay DEF Sound, WithoutGaps, GoesOnInOrder
  <2> QED BY <1>1, <1>2, <2>2, <2>3, UnderWay DEF Sound
<1>4. HandledInOrder' /\ succeeded' \subseteq Events /\ problemsLeft' \in Nat
  BY <1>1, UnderWay DEF DeliveryInv, HandledInOrder
<1> QED BY <1>1, <1>3, <1>4, LoopStep

\* The answer moves a partition to its last event before the first problem.
LEMMA SettleStep ==
  ASSUME DeliveryInv, NEW s \in Streams, Settle(s)
  PROVE  DeliveryInv'
<1> DEFINE d == dispatch[s]
<1>1. /\ dispatch' = [dispatch EXCEPT ![s] = NoDispatch] /\ d.pc = "settle"
      /\ UNCHANGED <<replaying, stream, streamOpen, succeeded, problemsLeft>>
  BY DEF Settle
<1>2. /\ Sound(d, succeeded, replaying) /\ d \in Dispatches
      /\ \A p \in Partitions : d.events[p] \subseteq Events /\ d.events[p] \subseteq Nat
  BY UnderWay
<1> HIDE DEF d
<1>3. ASSUME NEW p \in Partitions
      PROVE  /\ LastObserved(d, p) \in Nat
             /\ \A e \in Of(p) : e <= LastObserved(d, p) => e <= position[p] \/ Done(e, succeeded, replaying)
  <2> DEFINE handled == IF ProblemsOf(d, p) = {} THEN Counted(d, p) ELSE Observed(d.events[p], Min(ProblemsOf(d, p)))
             m == Max(handled)
  <2>1. LastObserved(d, p) = IF handled = {} THEN position[p] ELSE m
    BY DEF LastObserved
  <2>2. handled \subseteq d.events[p]
    BY DEF Counted, WholePartition, Observed, ObservedBefore
  <2>3. ProblemsOf(d, p) \subseteq Nat
    BY <1>2, Logged DEF ProblemsOf, Dispatches
  <2>4. CASE handled = {}
    BY <2>1, <2>4 DEF DeliveryInv, DeliveryTypeOK
  <2>5. CASE handled # {}
    <3>1. handled \subseteq Nat /\ \A k \in handled : k <= Len(Log)
      BY <1>2, <2>2, Logged
    <3>2. m \in handled
      BY <2>5, <3>1, MaxOf, Logged
    <3>3. m \in d.events[p] /\ m \in Nat /\ LastObserved(d, p) = m
      BY <2>1, <2>2, <2>5, <3>1, <3>2
    <3>4. ~Troubled(d, p, m)
      <4> SUFFICES ASSUME NEW problem \in d.problems, problem.partition = p, problem.at <= m PROVE FALSE
        BY DEF Troubled
      <4>1. problem.at \in ProblemsOf(d, p)
        BY DEF ProblemsOf
      <4>2. Min(ProblemsOf(d, p)) \in Nat /\ Min(ProblemsOf(d, p)) <= problem.at /\ problem.at \in Nat
        BY <2>3, <4>1, MinOf
      <4>3. m < Min(ProblemsOf(d, p))
        BY <3>2, <4>1 DEF Observed, ObservedBefore
      <4> QED BY <3>3, <4>2, <4>3
    <3> HIDE DEF m
    <3>5. ASSUME NEW e \in Of(p), e <= m PROVE Done(e, succeeded, replaying)
      <4>1. e \in Nat
        BY Logged DEF Of
      <4>2. CASE e \in d.events[p]
        <5>1. ~Troubled(d, p, e)
          BY <1>2, <3>3, <3>4, <3>5, <4>1, Logged DEF Troubled, Dispatches
        <5> QED BY <1>1, <1>2, <4>2, <5>1 DEF d, Sound, Accounted, Done, Selected
      <4>3. CASE e \notin d.events[p]
        <5>1. e < m
          BY <3>3, <3>5, <4>1, <4>3
        <5> QED BY <1>2, <3>3, <4>3, <5>1 DEF Sound, WithoutGaps
      <4> QED BY <4>2, <4>3
    <3> QED BY <3>3, <3>5
  <2> QED BY <2>4, <2>5
<1>4. position' \in [Partitions -> Nat]
  BY <1>3 DEF d, Settle, DeliveryInv, DeliveryTypeOK
<1>5. AcknowledgedWasHandled'
  <2> SUFFICES ASSUME NEW p \in Partitions, NEW e \in Of(p), e <= position'[p]
               PROVE  Done(e, succeeded, replaying)
    BY <1>1 DEF AcknowledgedWasHandled, Done, Of
  <2>1. position'[p] \in {position[p], LastObserved(d, p)}
    BY DEF Settle, d
  <2>2. e <= position[p] => Done(e, succeeded, replaying)
    BY DEF DeliveryInv, AcknowledgedWasHandled, Done
  <2> QED BY <1>3, <2>1, <2>2
<1>6. \A t \in Streams : Sound(dispatch'[t], succeeded', replaying')
  BY <1>1, NoneIsSound DEF DeliveryInv, DeliveryTypeOK
<1>7. DeliveryTypeOK'
  BY <1>1, <1>4, NoneIsSound DEF DeliveryInv, DeliveryTypeOK, Sound
<1>8. HandledInOrder'
  BY <1>1 DEF DeliveryInv, HandledInOrder
<1> QED BY <1>1, <1>5, <1>6, <1>7, <1>8 DEF DeliveryInv

LEMMA DeliveryStep ==
  ASSUME DeliveryInv, [DeliveryNext]_deliveryVars
  PROVE  DeliveryInv'
<1>1. CASE KernelDelivers
  BY <1>1, DeliverStep DEF KernelDelivers
<1>2. CASE Reobserve
  BY <1>2, PagesAssumption DEF Reobserve, DeliveryInv, DeliveryTypeOK, Streams, AcknowledgedWasHandled, HandledInOrder
<1>3. ASSUME NEW s \in Streams, ClientStep(s) PROVE DeliveryInv'
  <2>1. CASE \E p \in Partitions, e \in Events : Handled(s, p, e) \/ HandlerFails(s, p, e)
    BY <2>1, HandledStep, HandlerFailsStep
  <2>2. InBatch(dispatch[s]) \subseteq Events /\ \A p \in Partitions : dispatch[s].todo[p] \subseteq Events
    BY DEF InBatch, Batch, DeliveryInv, DeliveryTypeOK, Dispatches
  <2> QED BY <1>3, <2>1, <2>2, FailsEachStep, BatchSteps, AllServedStep, SettleStep DEF ClientStep
<1>4. CASE Replay
  BY <1>4, ReplayStep
<1>5. CASE ReactorStreamEnds
  BY <1>5 DEF ReactorStreamEnds, DeliveryInv, DeliveryTypeOK, AcknowledgedWasHandled, HandledInOrder
<1>6. CASE UNCHANGED deliveryVars
  BY <1>6 DEF deliveryVars, DeliveryInv, DeliveryTypeOK, AcknowledgedWasHandled, HandledInOrder
<1> QED BY <1>1, <1>2, <1>3, <1>4, <1>5, <1>6 DEF DeliveryNext, DeliveryProgress

\* For any log, partitions, page sizes and problems: nothing is acknowledged that was not
\* handled, whichever of the overlapping streams carries the answer (ReactorPageDispatcher and
\* settlePartition).
THEOREM NothingIsSkipped == DeliverySpec => []AcknowledgedWasHandled
<1>1. DeliveryInv => AcknowledgedWasHandled
  BY DEF DeliveryInv
<1> QED BY DeliveryStart, DeliveryStep, <1>1, PTL DEF DeliverySpec

\* And within a partition no handler is given an event before those that came before it
\* (ReactorPageDispatcher.observePartition, which leaves a partition at its first problem).
THEOREM OrderIsKept == DeliverySpec => []HandledInOrder
<1>1. DeliveryInv => HandledInOrder
  BY DEF DeliveryInv
<1> QED BY DeliveryStart, DeliveryStep, <1>1, PTL DEF DeliverySpec

\* Pages, problems and positions keep their types (Reactors.ts).
THEOREM DeliveryTypeCorrect == DeliverySpec => []DeliveryTypeOK
<1>1. DeliveryInv => DeliveryTypeOK
  BY DEF DeliveryInv
<1> QED BY DeliveryStart, DeliveryStep, <1>1, PTL DEF DeliverySpec

-----------------------------------------------------------------------------
(* What a batch method makes of its events. *)

\* A state for each of the first n events, each the reduction of the one before.
StatesUpto(f, state, events, n) ==
  f = [e \in 0..n |-> IF e = 0 THEN state ELSE IF e \in events THEN Reduced(f[e - 1], e) ELSE f[e - 1]]

\* There is such a function, so that the recursion defines it.
LEMMA StatesExist == 
  ASSUME NEW state, NEW events
  PROVE  \A n \in Nat : \E f : StatesUpto(f, state, events, n)
<1> DEFINE T == {n \in Nat : \E f : StatesUpto(f, state, events, n)}
<1>1. 0 \in T
  <2>1. StatesUpto([e \in 0..0 |-> state], state, events, 0)
    BY DEF StatesUpto
  <2> QED BY <2>1
<1>2. ASSUME NEW n \in Nat, n \in T PROVE n + 1 \in T
  <2>1. PICK f : StatesUpto(f, state, events, n)
    BY <1>2
  <2> DEFINE next == IF n + 1 \in events THEN Reduced(f[n], n + 1) ELSE f[n]
             g == [e \in 0..(n + 1) |-> IF e = n + 1 THEN next ELSE f[e]]
  <2>2. \A e \in 0..n : f[e] = IF e = 0 THEN state ELSE IF e \in events THEN Reduced(f[e - 1], e) ELSE f[e - 1]
    BY <2>1 DEF StatesUpto
  <2>3. \A e \in 0..n : g[e] = f[e] /\ (e # 0 => e - 1 \in 0..n /\ g[e - 1] = f[e - 1])
    OBVIOUS
  <2>4. g[n + 1] = next /\ g[n] = f[n] /\ n + 1 # 0 /\ (n + 1) - 1 = n
    OBVIOUS
  <2> HIDE DEF g
  <2>5. \A e \in 0..(n + 1) : g[e] = IF e = 0 THEN state ELSE IF e \in events THEN Reduced(g[e - 1], e) ELSE g[e - 1]
    <3> TAKE e \in 0..(n + 1)
    <3>1. CASE e \in 0..n
      BY <2>2, <2>3, <3>1
    <3>2. CASE e = n + 1
      BY <2>4, <3>2
    <3> QED BY <3>1, <3>2
  <2>6. g = [e \in 0..(n + 1) |-> g[e]]
    BY DEF g
  <2>7. StatesUpto(g, state, events, n + 1)
    BY <2>5, <2>6 DEF StatesUpto
  <2> QED BY <2>7
<1> HIDE DEF T
<1>3. Nat \subseteq T
  BY <1>1, <1>2, SetInduction
<1> QED BY <1>3 DEF T

\* So the states that the model defines by recursion are those.
LEMMA StatesAre ==
  ASSUME NEW state, NEW events, Len(ReducerLog) \in Nat
  PROVE  StatesUpto(StatesOver(state, events), state, events, Len(ReducerLog))
<1>1. PICK f : StatesUpto(f, state, events, Len(ReducerLog))
  BY StatesExist
<1> QED BY <1>1 DEF StatesOver, StatesUpto

-----------------------------------------------------------------------------
(* What a read model is a reduction of. *)

LEMMA ReducerLogged ==
  /\ ReducerEvents = 1..Len(ReducerLog) /\ Len(ReducerLog) \in Nat
  /\ \A e \in ReducerEvents : e \in Nat /\ e > 0 /\ e <= Len(ReducerLog) /\ KindOf(e) \in ReducerEventTypes
BY ReducerLogAssumption DEF ReducerEvents, KindOf

LEMMA ReducedTyped ==
  ASSUME NEW state \in Seq(ReducerEvents), NEW e \in ReducerEvents
  PROVE  Reduced(state, e) \in Seq(ReducerEvents)
<1>1. Append(state, e) \in Seq(ReducerEvents) /\ <<>> \in Seq(ReducerEvents)
  OBVIOUS
<1>2. KindOf(e) \in ReducerEventTypes
  BY ReducerLogged
<1> QED BY <1>1, <1>2 DEF Reduced, ReducerEventTypes

\* What the reduction of a set of events is reduced to by a later event.
LEMMA ReducedOnce ==
  ASSUME NEW T, T \subseteq ReducerEvents, NEW e \in ReducerEvents, \A f \in T : f < e,
         NEW state \in Seq(ReducerEvents), IsReduction(state, T)
  PROVE  Reduced(state, e) \in Seq(ReducerEvents) /\ IsReduction(Reduced(state, e), T \cup {e})
<1>1. e \in Nat /\ KindOf(e) \in ReducerEventTypes /\ \A f \in T : f \in Nat /\ KindOf(f) \in ReducerEventTypes
  BY ReducerLogged
<1>2. PICK n \in Nat : n = Len(state) /\ DOMAIN state = 1..n /\ \A i \in 1..n : state[i] \in T
  BY DEF IsReduction
<1>3. CASE KindOf(e) = "reduce"
  <2>1. PICK next \in Seq(ReducerEvents) :
          next = Reduced(state, e) /\ DOMAIN next = 1..(n + 1) /\ next[n + 1] = e /\ \A i \in 1..n : next[i] = state[i]
    <3> DEFINE next == Append(state, e)
    <3>1. Reduced(state, e) = next
      BY <1>3 DEF Reduced
    <3>2. next \in Seq(ReducerEvents) /\ DOMAIN next = 1..(n + 1) /\ next[n + 1] = e /\ \A i \in 1..n : next[i] = state[i]
      BY <1>2
    <3> QED BY <3>1, <3>2
  <2>2. \A i \in 1..(n + 1) : i \in 1..n \/ i = n + 1
    OBVIOUS
  <2>3. \A i, j \in 1..(n + 1) : i < j => next[i] < next[j]
    <3> TAKE i, j \in 1..(n + 1)
    <3> HAVE i < j
    <3>1. i \in 1..n
      OBVIOUS
    <3>2. CASE j \in 1..n
      BY <1>2, <2>1, <3>1, <3>2 DEF IsReduction
    <3>3. CASE j = n + 1
      BY <1>2, <2>1, <3>1, <3>3
    <3> QED BY <2>2, <3>2, <3>3
  <2>4. {next[i] : i \in 1..(n + 1)} = {state[i] : i \in 1..n} \cup {e}
    <3>1. n + 1 \in 1..(n + 1) /\ \A i \in 1..n : i \in 1..(n + 1)
      OBVIOUS
    <3> QED BY <2>1, <2>2, <3>1
  <2>5. {f \in T \cup {e} : KindOf(f) = "reduce" /\ \A r \in T \cup {e} : KindOf(r) = "remove" => r < f}
          = {f \in T : KindOf(f) = "reduce" /\ \A r \in T : KindOf(r) = "remove" => r < f} \cup {e}
    <3>1. KindOf(e) # "remove"
      BY <1>3
    <3> QED BY <1>3, <3>1
  <2> QED BY <1>2, <2>1, <2>3, <2>4, <2>5 DEF IsReduction
<1>4. CASE KindOf(e) = "remove"
  <2>1. Reduced(state, e) = <<>>
    BY <1>4 DEF Reduced
  <2>2. {f \in T \cup {e} : KindOf(f) = "reduce" /\ \A r \in T \cup {e} : KindOf(r) = "remove" => r < f} = {}
    <3> SUFFICES ASSUME NEW f \in T \cup {e}, KindOf(f) = "reduce", e < f PROVE FALSE
      BY <1>4
    <3>1. f \in T
      BY <1>4
    <3> QED BY <1>1, <3>1
  <2> QED BY <2>1, <2>2 DEF IsReduction
<1>5. CASE KindOf(e) = "unhandled"
  <2>1. Reduced(state, e) = state
    BY <1>5 DEF Reduced
  <2>2. {f \in T \cup {e} : KindOf(f) = "reduce" /\ \A r \in T \cup {e} : KindOf(r) = "remove" => r < f}
          = {f \in T : KindOf(f) = "reduce" /\ \A r \in T : KindOf(r) = "remove" => r < f}
    BY <1>5
  <2> QED BY <2>1, <2>2 DEF IsReduction
<1> QED BY <1>1, <1>3, <1>4, <1>5 DEF ReducerEventTypes

\* What it is reduced to by a batch of later events.
LEMMA ReducedOver ==
  ASSUME NEW T, T \subseteq ReducerEvents, NEW B, B \subseteq ReducerEvents, \A f \in T, e \in B : f < e,
         NEW state \in Seq(ReducerEvents), IsReduction(state, T)
  PROVE  IsReduction(StatesOver(state, B)[Len(ReducerLog)], T \cup B)
<1> DEFINE f == StatesOver(state, B)
           N == Len(ReducerLog)
           Till(n) == T \cup {e \in B : e <= n}
           S == {n \in Nat : n <= N => f[n] \in Seq(ReducerEvents) /\ IsReduction(f[n], Till(n))}
<1>1. N \in Nat /\ ReducerEvents = 1..N
  BY ReducerLogged
<1>2. \A e \in 0..N : f[e] = IF e = 0 THEN state ELSE IF e \in B THEN Reduced(f[e - 1], e) ELSE f[e - 1]
  <2>1. StatesUpto(f, state, B, N)
    BY <1>1, StatesAre
  <2> HIDE DEF f
  <2> QED BY <2>1 DEF StatesUpto
<1>0. \A e \in B : e \in Nat /\ e > 0 /\ e <= N
  BY <1>1
<1>7. \A e \in T : e \in Nat
  BY <1>1
<1> HIDE DEF f, N
<1>3. 0 \in S
  <2>1. Till(0) = T
    BY <1>0
  <2>2. f[0] = state
    BY <1>1, <1>2
  <2> QED BY <2>1, <2>2
<1>4. ASSUME NEW n \in Nat, n \in S PROVE n + 1 \in S
  <2> SUFFICES ASSUME n + 1 <= N PROVE f[n + 1] \in Seq(ReducerEvents) /\ IsReduction(f[n + 1], Till(n + 1))
    OBVIOUS
  <2>1. f[n] \in Seq(ReducerEvents) /\ IsReduction(f[n], Till(n))
    BY <1>1, <1>4
  <2>2. n + 1 \in 0..N /\ n + 1 # 0 /\ (n + 1) - 1 = n /\ n + 1 \in ReducerEvents
    BY <1>1
  <2>3. f[n + 1] = IF n + 1 \in B THEN Reduced(f[n], n + 1) ELSE f[n]
    BY <1>2, <2>2
  <2>4. Till(n + 1) = IF n + 1 \in B THEN Till(n) \cup {n + 1} ELSE Till(n)
    <3>1. \A e \in B : e <= n + 1 <=> e <= n \/ e = n + 1
      BY <1>0
    <3> QED BY <3>1
  <2>5. CASE n + 1 \in B
    <3>1. Till(n) \subseteq ReducerEvents /\ \A e \in Till(n) : e < n + 1
      BY <1>0, <1>7, <2>5
    <3> HIDE DEF Till
    <3>2. Reduced(f[n], n + 1) \in Seq(ReducerEvents) /\ IsReduction(Reduced(f[n], n + 1), Till(n) \cup {n + 1})
      BY <2>1, <2>2, <3>1, ReducedOnce
    <3> QED BY <2>3, <2>4, <2>5, <3>2
  <2>6. CASE n + 1 \notin B
    BY <2>1, <2>3, <2>4, <2>6
  <2> QED BY <2>5, <2>6
<1>5. N \in S
  <2> HIDE DEF S
  <2> QED BY <1>1, <1>3, <1>4, SetInduction
<1>6. Till(N) = T \cup B
  BY <1>0
<1>8. f[N] \in Seq(ReducerEvents) /\ IsReduction(f[N], T \cup B)
  <2>1. N <= N
    BY <1>1
  <2> QED BY <1>5, <1>6, <2>1
<1> QED BY <1>8 DEF f, N

-----------------------------------------------------------------------------
(* The reduction: the inductive invariant. *)

SentUpto(p, n) == {e \in SentOf(p) : e <= n}

WrittenUpto(p, n, u) == SentUpto(p, n) \ u

\* An outcome names no event, or a later one; without a failure it holds the reduction of
\* what comes before its events, less what was never written; a batch method's outcome
\* names none unless it succeeds.
Whole(o, p, state, from, u) ==
  /\ o.last # Unavailable => o.last > from /\ (batchMethod => o.state = "success")
  /\ o.state = "success" /\ o.last = Unavailable => o.current = state
  /\ o.state = "success" /\ o.last # Unavailable => IsReduction(o.current, WrittenUpto(p, o.last, u))
  /\ o.pc # "done" =>
       /\ o.todo \subseteq SentOf(p)
       /\ o.todo # {} => o.state = "success" /\ (batchMethod => o.last = Unavailable)
       /\ \A f \in o.todo : f > from /\ f > o.last
       /\ \A f \in o.todo, e \in SentOf(p) : e < f => e <= from \/ e <= o.last \/ e \in o.todo

Pages == UNION {[ps -> Outcomes] : ps \in SUBSET ReducerPartitions}

ReductionInv ==
  /\ ReductionTypeOK /\ page \in [Streams -> Pages]
  /\ ~reducerStreamOpen => reducerStream < MaxStreams
  /\ \A s \in Streams : s > reducerStream => page[s] = NoPage
  /\ reducerStreamOpen =>
       \A p \in DOMAIN page[reducerStream] : Whole(page[reducerStream][p], p, stored[p], reducedTo[p], unwritten[p])
  /\ \A p \in ReducerPartitions : \A e \in unwritten[p] : e <= reducedTo[p]
  /\ StateIsReduction

LEMMA NoPageIs == DOMAIN NoPage = {} /\ NoPage \in Pages
<1>1. DOMAIN NoPage = {}
  BY DEF NoPage
<1>2. NoPage \in [{} -> Outcomes]
  BY DEF NoPage
<1> QED BY <1>1, <1>2 DEF Pages

\* What a stream has under way, and what it was for.
LEMMA InPage ==
  ASSUME ReductionInv, NEW s \in Streams, NEW p \in DOMAIN page[s]
  PROVE  /\ page[s][p] \in Outcomes /\ p \in ReducerPartitions /\ s <= reducerStream
         /\ s = reducerStream /\ reducerStreamOpen => Whole(page[s][p], p, stored[p], reducedTo[p], unwritten[p])
         /\ stored[p] \in Seq(ReducerEvents) /\ reducedTo[p] \in Nat
         /\ IsReduction(stored[p], WrittenUpto(p, reducedTo[p], unwritten[p]))
         /\ \A e \in unwritten[p] : e \in Nat /\ e <= reducedTo[p]
<1>1. page[s][p] \in Outcomes /\ p \in ReducerPartitions
  BY DEF ReductionInv, ReductionTypeOK
<1>2. s <= reducerStream
  BY NoPageIs DEF ReductionInv, ReductionTypeOK, Streams
<1>3. \A e \in unwritten[p] : e \in Nat /\ e <= reducedTo[p]
  BY <1>1, ReducerLogged DEF ReductionInv, ReductionTypeOK
<1>4. IsReduction(stored[p], WrittenUpto(p, reducedTo[p], unwritten[p]))
  BY <1>1 DEF ReductionInv, StateIsReduction, WrittenEvents, WrittenUpto, SentUpto
<1> QED BY <1>1, <1>2, <1>3, <1>4 DEF ReductionInv, ReductionTypeOK

\* What the kernel has of a partition are numbers of its log.
LEMMA SentAre ==
  /\ \A p : SentOf(p) \subseteq ReducerEvents
  /\ \A p : \A e \in SentOf(p) : e \in Nat /\ e > 0 /\ e <= Len(ReducerLog)
BY ReducerLogged DEF SentOf

LEMMA ReductionStart == ReductionInit => ReductionInv
<1> SUFFICES ASSUME ReductionInit PROVE ReductionInv
  OBVIOUS
<1>1. \A p \in ReducerPartitions : WrittenEvents(p) = {} /\ unwritten[p] = {}
  BY SentAre DEF WrittenEvents, ReductionInit
<1>2. StateIsReduction
  <2>1. IsReduction(<<>>, {})
    BY DEF IsReduction
  <2> QED BY <1>1, <2>1 DEF StateIsReduction, ReductionInit
<1>3. page \in [Streams -> Pages] /\ \A s \in Streams : DOMAIN page[s] = {}
  BY NoPageIs DEF ReductionInit
<1>4. reducerStream \in Streams /\ reducerStream \in Nat /\ mishapsLeft \in Nat /\ reducerStreamOpen = TRUE
  BY PagesAssumption DEF ReductionInit, Streams
<1>5. ReductionTypeOK
  BY <1>3, <1>4 DEF ReductionInit, ReductionTypeOK
<1> QED BY <1>1, <1>2, <1>3, <1>4, <1>5 DEF ReductionInit, ReductionInv

\* A step of one partition leaves the others and the kernel alone.
LEMMA OutcomeStep ==
  ASSUME ReductionInv, NEW s \in Streams, NEW p \in DOMAIN page[s], NEW o \in Outcomes, Outcome(s, p, o),
         reducerStreamOpen /\ s = reducerStream => Whole(o, p, stored[p], reducedTo[p], unwritten[p]), mishapsLeft' \in Nat
  PROVE  ReductionInv'
<1> DEFINE new == [page[s] EXCEPT ![p] = o]
<1>1. page' = [page EXCEPT ![s] = new] /\ UNCHANGED <<batchMethod, stored, reducedTo, unwritten, reducerStream, reducerStreamOpen>>
  BY DEF Outcome
<1>2. page \in [Streams -> Pages] /\ p \in ReducerPartitions /\ s <= reducerStream /\ reducerStream \in Nat
  BY InPage DEF ReductionInv, ReductionTypeOK, Streams
<1>3. PICK ps \in SUBSET ReducerPartitions : page[s] \in [ps -> Outcomes]
  BY <1>2 DEF Pages
<1>4. new \in [ps -> Outcomes] /\ new[p] = o /\ \A q \in ps : q # p => new[q] = page[s][q]
  BY <1>3
<1>5. new \in Pages
  BY <1>4 DEF Pages
<1> HIDE DEF new
<1>6. page' \in [Streams -> Pages] /\ page'[s] = new /\ \A r \in Streams : r # s => page'[r] = page[r]
  BY <1>1, <1>2, <1>5
<1>7. \A r \in Streams : DOMAIN page'[r] \subseteq ReducerPartitions /\ \A q \in DOMAIN page'[r] : page'[r][q] \in Outcomes
  BY <1>6 DEF Pages
<1>8. ReductionTypeOK'
  BY <1>1, <1>7 DEF ReductionInv, ReductionTypeOK
<1>9. \A r \in Streams : r > reducerStream => page'[r] = NoPage
  <2>1. \A r \in Streams : r > reducerStream => r # s
    BY <1>2 DEF Streams
  <2> QED BY <1>6, <2>1 DEF ReductionInv
<1>10. ASSUME reducerStreamOpen, NEW q \in DOMAIN page'[reducerStream]
       PROVE  Whole(page'[reducerStream][q], q, stored[q], reducedTo[q], unwritten[q])
  <2>1. reducerStream \in Streams
    BY DEF ReductionInv, ReductionTypeOK
  <2>2. CASE reducerStream # s
    BY <1>6, <1>10, <2>1, <2>2 DEF ReductionInv
  <2>3. CASE reducerStream = s
    <3>1. q \in ps /\ ps = DOMAIN page[s]
      BY <1>3, <1>4, <1>6, <1>10, <2>3
    <3> QED BY <1>4, <1>6, <1>10, <2>3, <3>1 DEF ReductionInv
  <2> QED BY <2>2, <2>3
<1>11. StateIsReduction'
  BY <1>1 DEF ReductionInv, StateIsReduction, WrittenEvents, SentOf
<1>13. \A o2, q, x, n, u : Whole(o2, q, x, n, u) => Whole(o2, q, x, n, u)'
  BY <1>1 DEF Whole, WrittenUpto, SentUpto, SentOf
<1> QED BY <1>1, <1>6, <1>8, <1>9, <1>10, <1>11, <1>13 DEF ReductionInv

\* Changing what is not of the events leaves an outcome whole.
LEMMA TakeKeeps ==
  ASSUME ReductionInv, NEW s \in Streams, NEW p, TakeNext(s, p)
  PROVE  ReductionInv'
<1> DEFINE o == [page[s][p] EXCEPT !.pc = "running"]
<1>1. p \in DOMAIN page[s] /\ Outcome(s, p, o) /\ mishapsLeft' \in Nat /\ page[s][p].pc = "waiting"
  BY DEF TakeNext, ReductionInv, ReductionTypeOK
<1>2. page[s][p] \in Outcomes /\ (s = reducerStream /\ reducerStreamOpen => Whole(page[s][p], p, stored[p], reducedTo[p], unwritten[p]))
  BY <1>1, InPage
<1>3. o \in Outcomes /\ (s = reducerStream /\ reducerStreamOpen => Whole(o, p, stored[p], reducedTo[p], unwritten[p]))
  BY <1>1, <1>2 DEF Outcomes, Whole
<1> HIDE DEF o
<1> QED BY <1>1, <1>3, OutcomeStep

\* The first event in hand.
LEMMA FirstInHand ==
  ASSUME ReductionInv, NEW s \in Streams, NEW p, InHand(s, p)
  PROVE  /\ p \in DOMAIN page[s] /\ page[s][p] \in Outcomes
         /\ page[s][p].todo \subseteq Nat /\ Min(page[s][p].todo) \in page[s][p].todo
         /\ \A f \in page[s][p].todo : Min(page[s][p].todo) <= f
<1>1. p \in DOMAIN page[s] /\ page[s][p] \in Outcomes /\ page[s][p].todo # {}
  BY InPage DEF InHand
<1>2. page[s][p].todo \subseteq Nat
  BY <1>1, ReducerLogged DEF Outcomes
<1> QED BY <1>1, <1>2, MinOf

LEMMA EventKeeps ==
  ASSUME ReductionInv, NEW s \in Streams, NEW p, EventReduced(s, p)
  PROVE  ReductionInv'
<1>1. PICK x \in Outcomes : x = page[s][p]
  BY FirstInHand DEF EventReduced
<1>2. PICK e \in x.todo : e = Min(x.todo) /\ e \in Nat /\ e \in ReducerEvents /\ e > 0 /\ \A f \in x.todo : f \in Nat /\ e <= f
  <2>1. Min(x.todo) \in x.todo /\ x.todo \subseteq Nat /\ \A f \in x.todo : Min(x.todo) <= f
    BY <1>1, FirstInHand DEF EventReduced
  <2>2. \A f \in x.todo : f \in ReducerEvents
    BY DEF Outcomes
  <2> QED BY <2>1, <2>2, ReducerLogged
<1> DEFINE o == [x EXCEPT !.current = Reduced(x.current, e), !.last = e, !.todo = x.todo \ {e}]
<1>3. /\ p \in DOMAIN page[s] /\ Outcome(s, p, o) /\ mishapsLeft' \in Nat /\ x.pc = "running"
      /\ o.pc = "running" /\ o.state = x.state /\ o.last = e /\ o.current = Reduced(x.current, e) /\ o.todo = x.todo \ {e}
      /\ ~batchMethod
  BY <1>1, <1>2 DEF EventReduced, InHand, ReductionInv, ReductionTypeOK, Outcomes
<1>4. x.current \in Seq(ReducerEvents)
  BY DEF Outcomes
<1>5. Reduced(x.current, e) \in Seq(ReducerEvents)
  BY <1>2, <1>4, ReducedTyped
<1>6. o \in Outcomes
  BY <1>2, <1>5 DEF Outcomes
<1> HIDE DEF o
<1>7. ASSUME s = reducerStream, reducerStreamOpen PROVE Whole(o, p, stored[p], reducedTo[p], unwritten[p])
  <2>1. PICK n \in Nat : n = reducedTo[p]
    BY <1>3, InPage
  <2>2. PICK st \in Seq(ReducerEvents) : st = stored[p]
    BY <1>3, InPage
  <2>0. PICK u : u = unwritten[p]
    OBVIOUS
  <2>3. Whole(x, p, st, n, u) /\ IsReduction(st, WrittenUpto(p, n, u)) /\ \A f \in u : f \in Nat /\ f <= n
    BY <1>1, <1>3, <1>7, <2>0, <2>1, <2>2, InPage
  <2>4. /\ x.todo \subseteq SentOf(p) /\ x.state = "success"
        /\ \A f \in x.todo : f > n /\ f > x.last
        /\ \A f \in x.todo, g \in SentOf(p) : g < f => g <= n \/ g <= x.last \/ g \in x.todo
    BY <1>3, <2>3 DEF Whole
  <2>5. x.last \in Nat
    BY DEF Outcomes
  <2>6. PICK m \in Nat : m < e /\ IsReduction(x.current, WrittenUpto(p, m, u)) /\ m >= n /\ m >= x.last /\ (m = n \/ m = x.last)
    <3>1. CASE x.last = Unavailable
      BY <2>3, <2>4, <3>1 DEF Whole, Unavailable
    <3>2. CASE x.last # Unavailable
      BY <2>3, <2>4, <2>5, <3>2 DEF Whole, Unavailable
    <3> QED BY <3>1, <3>2
  <2>7. WrittenUpto(p, e, u) = WrittenUpto(p, m, u) \cup {e}
    <3>1. \A g \in SentOf(p) : g \in Nat
      BY SentAre
    <3>2. \A g \in SentOf(p) : g <= e <=> g <= m \/ g = e
      <4> TAKE g \in SentOf(p)
      <4>1. ASSUME g < e PROVE g <= m
        <5>1. g <= n \/ g <= x.last \/ g \in x.todo
          BY <2>4, <4>1
        <5>2. g \notin x.todo
          BY <1>2, <4>1
        <5> QED BY <2>5, <2>6, <3>1, <5>1, <5>2
      <4> QED BY <1>2, <2>6, <3>1, <4>1
    <3>3. e \in SentOf(p)
      BY <2>4
    <3>4. e \notin u
      BY <1>2, <2>3, <2>4
    <3> QED BY <3>2, <3>3, <3>4 DEF WrittenUpto, SentUpto
  <2>8. WrittenUpto(p, m, u) \subseteq ReducerEvents /\ \A f \in WrittenUpto(p, m, u) : f < e
    <3>1. \A f \in WrittenUpto(p, m, u) : f \in Nat /\ f \in ReducerEvents /\ f <= m
      BY SentAre DEF WrittenUpto, SentUpto
    <3> QED BY <1>2, <2>6, <3>1
  <2>9. IsReduction(Reduced(x.current, e), WrittenUpto(p, e, u))
    BY <1>2, <1>4, <2>6, <2>7, <2>8, ReducedOnce
  <2>10. e > n /\ e # Unavailable
    BY <1>2, <2>4 DEF Unavailable
  <2>11. \A f \in o.todo : f > n /\ f > o.last
    BY <1>2, <1>3, <2>4
  <2>12. \A f \in o.todo, g \in SentOf(p) : g < f => g <= n \/ g <= o.last \/ g \in o.todo
    <3> SUFFICES ASSUME NEW f \in o.todo, NEW g \in SentOf(p), g < f PROVE g <= n \/ g <= o.last \/ g \in o.todo
      OBVIOUS
    <3>1. g <= n \/ g <= x.last \/ g \in x.todo
      BY <1>3, <2>4
    <3>2. g <= x.last => g <= e
      <4>1. g \in Nat /\ e \in Nat
        BY <1>2, SentAre
      <4> QED BY <2>5, <2>6, <4>1
    <3>3. g = e => g <= e
      BY <1>2
    <3> QED BY <1>3, <3>1, <3>2, <3>3
  <2> QED BY <1>3, <2>0, <2>1, <2>2, <2>4, <2>9, <2>10, <2>11, <2>12 DEF Whole
<1> QED BY <1>3, <1>6, <1>7, OutcomeStep

\* A batch method's state is one of the log's events, of whatever stream.
LEMMA StatesTyped ==
  ASSUME NEW state \in Seq(ReducerEvents), NEW B, B \subseteq ReducerEvents
  PROVE  StatesOver(state, B)[Len(ReducerLog)] \in Seq(ReducerEvents)
<1> DEFINE f == StatesOver(state, B)
           N == Len(ReducerLog)
           S == {n \in Nat : n <= N => f[n] \in Seq(ReducerEvents)}
<1>1. N \in Nat /\ ReducerEvents = 1..N
  BY ReducerLogged
<1>2. \A e \in 0..N : f[e] = IF e = 0 THEN state ELSE IF e \in B THEN Reduced(f[e - 1], e) ELSE f[e - 1]
  <2>1. StatesUpto(f, state, B, N)
    BY <1>1, StatesAre
  <2> HIDE DEF f
  <2> QED BY <2>1 DEF StatesUpto
<1>3. \A e \in ReducerEvents, x \in Seq(ReducerEvents) : Reduced(x, e) \in Seq(ReducerEvents)
  BY ReducedTyped
<1> HIDE DEF f, N
<1>4. 0 \in S
  BY <1>1, <1>2
<1>5. ASSUME NEW n \in Nat, n \in S PROVE n + 1 \in S
  <2> SUFFICES ASSUME n + 1 <= N PROVE f[n + 1] \in Seq(ReducerEvents)
    OBVIOUS
  <2>1. f[n] \in Seq(ReducerEvents)
    BY <1>1, <1>5
  <2>2. n + 1 \in 0..N /\ n + 1 # 0 /\ (n + 1) - 1 = n /\ n + 1 \in ReducerEvents
    BY <1>1
  <2>3. f[n + 1] = IF n + 1 \in B THEN Reduced(f[n], n + 1) ELSE f[n]
    BY <1>2, <2>2
  <2> QED BY <1>3, <2>1, <2>2, <2>3
<1>6. N \in S
  <2> HIDE DEF S
  <2> QED BY <1>1, <1>4, <1>5, SetInduction
<1>7. f[N] \in Seq(ReducerEvents)
  BY <1>1, <1>6
<1> QED BY <1>7 DEF f, N

LEMMA BatchKeeps ==
  ASSUME ReductionInv, NEW s \in Streams, NEW p, BatchReduced(s, p)
  PROVE  ReductionInv'
<1>1. PICK x \in Outcomes : x = page[s][p]
  BY FirstInHand DEF BatchReduced
<1>2. x.todo # {} /\ x.todo \subseteq ReducerEvents /\ x.current \in Seq(ReducerEvents) /\ x.last \in Nat
  BY <1>1 DEF BatchReduced, InHand, Outcomes
<1>3. PICK e \in x.todo : e = Max(x.todo) /\ e \in Nat /\ e > 0 /\ \A f \in x.todo : f \in Nat /\ f <= e
  <2>1. x.todo \subseteq Nat /\ \A f \in x.todo : f <= Len(ReducerLog) /\ f > 0
    BY <1>2, ReducerLogged
  <2>2. Max(x.todo) \in x.todo /\ \A f \in x.todo : f <= Max(x.todo)
    BY <1>2, <2>1, MaxOf, ReducerLogged
  <2> QED BY <2>1, <2>2
<1>4. PICK next \in Seq(ReducerEvents) : next = StatesOver(x.current, x.todo)[Len(ReducerLog)]
  BY <1>2, StatesTyped
<1> DEFINE o == [x EXCEPT !.current = next, !.last = e, !.todo = {}]
<1>5. /\ p \in DOMAIN page[s] /\ Outcome(s, p, o) /\ mishapsLeft' \in Nat /\ x.pc = "running"
      /\ o.pc = "running" /\ o.state = x.state /\ o.last = e /\ o.current = next /\ o.todo = {}
  BY <1>1, <1>3, <1>4 DEF BatchReduced, InHand, ReductionInv, ReductionTypeOK, Outcomes
<1>6. o \in Outcomes
  BY <1>3 DEF Outcomes
<1> HIDE DEF o
<1>7. ASSUME s = reducerStream, reducerStreamOpen PROVE Whole(o, p, stored[p], reducedTo[p], unwritten[p])
  <2>1. PICK n \in Nat : n = reducedTo[p]
    BY <1>5, InPage
  <2>2. PICK st \in Seq(ReducerEvents) : st = stored[p]
    BY <1>5, InPage
  <2>0. PICK u : u = unwritten[p]
    OBVIOUS
  <2>3. Whole(x, p, st, n, u) /\ IsReduction(st, WrittenUpto(p, n, u)) /\ \A f \in u : f \in Nat /\ f <= n
    BY <1>1, <1>5, <1>7, <2>0, <2>1, <2>2, InPage
  <2>4. /\ x.todo \subseteq SentOf(p) /\ x.state = "success"
        /\ \A f \in x.todo : f > n /\ f > x.last
        /\ \A f \in x.todo, g \in SentOf(p) : g < f => g <= n \/ g <= x.last \/ g \in x.todo
    BY <1>2, <1>5, <2>3 DEF Whole
  <2>6. PICK m \in Nat : /\ (\A f \in x.todo : m < f) /\ IsReduction(x.current, WrittenUpto(p, m, u))
                         /\ m >= n /\ m >= x.last /\ (m = n \/ m = x.last)
    <3>1. CASE x.last = Unavailable
      BY <2>3, <2>4, <3>1 DEF Whole, Unavailable
    <3>2. CASE x.last # Unavailable
      BY <1>2, <2>3, <2>4, <3>2 DEF Whole, Unavailable
    <3> QED BY <3>1, <3>2
  <2>7. WrittenUpto(p, e, u) = WrittenUpto(p, m, u) \cup x.todo
    <3>1. \A g \in SentOf(p) : g \in Nat
      BY SentAre
    <3>2. \A g \in SentOf(p) : g <= e <=> g <= m \/ g \in x.todo
      <4> TAKE g \in SentOf(p)
      <4>1. ASSUME g < e PROVE g <= m \/ g \in x.todo
        <5>1. g <= n \/ g <= x.last \/ g \in x.todo
          BY <2>4, <4>1
        <5> QED BY <1>2, <2>6, <3>1, <5>1
      <4>2. m < e
        BY <2>6
      <4> QED BY <1>3, <2>6, <3>1, <4>1, <4>2
    <3>3. \A f \in x.todo : f \notin u
      BY <1>3, <2>3, <2>4
    <3> QED BY <2>4, <3>2, <3>3 DEF WrittenUpto, SentUpto
  <2>8. WrittenUpto(p, m, u) \subseteq ReducerEvents /\ \A f \in WrittenUpto(p, m, u), g \in x.todo : f < g
    <3>1. \A f \in WrittenUpto(p, m, u) : f \in Nat /\ f \in ReducerEvents /\ f <= m
      BY SentAre DEF WrittenUpto, SentUpto
    <3> QED BY <1>3, <2>6, <3>1
  <2>9. IsReduction(next, WrittenUpto(p, e, u))
    <3>1. IsReduction(StatesOver(x.current, x.todo)[Len(ReducerLog)], WrittenUpto(p, m, u) \cup x.todo)
      <4>1. PICK T : T = WrittenUpto(p, m, u)
        OBVIOUS
      <4>2. T \subseteq ReducerEvents /\ (\A f \in T, g \in x.todo : f < g) /\ IsReduction(x.current, T)
        BY <2>6, <2>8, <4>1
      <4> QED BY <1>2, <4>1, <4>2, ReducedOver
    <3> QED BY <1>4, <2>7, <3>1
  <2>10. e > n /\ e # Unavailable
    BY <1>3, <2>4 DEF Unavailable
  <2> QED BY <1>5, <2>0, <2>1, <2>2, <2>4, <2>9, <2>10 DEF Whole
<1> QED BY <1>5, <1>6, <1>7, OutcomeStep

LEMMA FailsKeep ==
  ASSUME ReductionInv, NEW s \in Streams, NEW p, ReductionFails(s, p) \/ ReductionDefers(s, p)
  PROVE  ReductionInv'
<1>1. PICK x \in Outcomes : x = page[s][p] /\ p \in DOMAIN page[s]
  BY FirstInHand DEF ReductionFails, ReductionDefers
<1>2. PICK o \in Outcomes : /\ Outcome(s, p, o) /\ o.state # "success" /\ o.todo = {}
                            /\ o.last = Unavailable \/ (o.last = x.last /\ x.pc = "running" /\ x.todo # {})
  <2>1. CASE ReductionFails(s, p)
    <3> DEFINE o == [x EXCEPT !.state = "failed", !.todo = {}]
    <3>1. o \in Outcomes /\ o.state = "failed" /\ o.todo = {} /\ o.last = x.last
      BY DEF Outcomes
    <3>2. Outcome(s, p, o) /\ x.pc = "running" /\ x.todo # {}
      BY <1>1, <2>1 DEF ReductionFails, InHand, WithFailure, AsFailed
    <3> HIDE DEF o
    <3> QED BY <3>1, <3>2
  <2>2. CASE ReductionDefers(s, p)
    <3> DEFINE o == [x EXCEPT !.state = "deferred", !.last = Unavailable, !.todo = {}]
    <3>1. o \in Outcomes /\ o.state = "deferred" /\ o.todo = {} /\ o.last = Unavailable
      BY DEF Outcomes, Unavailable
    <3>2. Outcome(s, p, o)
      BY <1>1, <2>2 DEF ReductionDefers
    <3> HIDE DEF o
    <3> QED BY <3>1, <3>2
  <2> QED BY <2>1, <2>2
<1>3. mishapsLeft' \in Nat
  BY DEF ReductionFails, ReductionDefers, Mishap, ReductionInv, ReductionTypeOK
<1>4. ASSUME s = reducerStream, reducerStreamOpen PROVE Whole(o, p, stored[p], reducedTo[p], unwritten[p])
  <2>1. Whole(x, p, stored[p], reducedTo[p], unwritten[p])
    BY <1>1, <1>4, InPage
  <2> QED BY <1>2, <2>1 DEF Whole
<1> QED BY <1>1, <1>2, <1>3, <1>4, OutcomeStep

LEMMA LeasesKeep ==
  ASSUME ReductionInv, NEW s \in Streams, NEW p, LeaseCompletes(s, p) \/ LeaseFails(s, p)
  PROVE  ReductionInv'
<1>1. p \in DOMAIN page[s]
  BY DEF LeaseCompletes, LeaseFails, Reducing
<1>2. PICK x \in Outcomes : x = page[s][p]
  BY <1>1, InPage
<1>3. mishapsLeft' \in Nat
  BY DEF LeaseCompletes, LeaseFails, Mishap, ReductionInv, ReductionTypeOK
<1>4. PICK o \in Outcomes : /\ Outcome(s, p, o) /\ o.pc = "done"
                            /\ (o.state = "failed" /\ o.last = Unavailable) \/ (o.state = x.state /\ o.last = x.last /\ o.current = x.current)
  <2>1. CASE LeaseCompletes(s, p)
    <3> DEFINE o == [x EXCEPT !.pc = "done"]
    <3>1. o \in Outcomes /\ o.pc = "done" /\ o.state = x.state /\ o.last = x.last /\ o.current = x.current
      BY DEF Outcomes
    <3>2. Outcome(s, p, o)
      BY <1>2, <2>1 DEF LeaseCompletes
    <3> HIDE DEF o
    <3> QED BY <3>1, <3>2
  <2>2. CASE LeaseFails(s, p)
    <3> DEFINE o == [x EXCEPT !.pc = "done", !.state = "failed", !.last = Unavailable]
    <3>1. o \in Outcomes /\ o.pc = "done" /\ o.state = "failed" /\ o.last = Unavailable
      BY DEF Outcomes, Unavailable
    <3>2. Outcome(s, p, o)
      BY <1>2, <2>2 DEF LeaseFails
    <3> HIDE DEF o
    <3> QED BY <3>1, <3>2
  <2> QED BY <2>1, <2>2
<1>5. s = reducerStream /\ reducerStreamOpen => Whole(o, p, stored[p], reducedTo[p], unwritten[p])
  <2>1. s = reducerStream /\ reducerStreamOpen => Whole(x, p, stored[p], reducedTo[p], unwritten[p])
    BY <1>1, <1>2, InPage
  <2> QED BY <1>4, <2>1 DEF Whole
<1> QED BY <1>1, <1>3, <1>4, <1>5, OutcomeStep

\* The kernel is told of what is whole, so that what it holds moves on, and is; or it
\* moves on over what is then never written.
LEMMA AnswerMoves ==
  ASSUME ReductionInv, NEW s \in Streams, Answer(s), NEW p \in ReducerPartitions
  PROVE  /\ stored'[p] \in Seq(ReducerEvents) /\ reducedTo'[p] \in Nat /\ unwritten'[p] \in SUBSET ReducerEvents
         /\ reducedTo'[p] >= reducedTo[p] /\ \A e \in unwritten'[p] : e <= reducedTo'[p]
         /\ IsReduction(stored'[p], WrittenUpto(p, reducedTo'[p], unwritten'[p]))
         /\ batchMethod => unwritten'[p] = {}
         /\ \/ OpenQueue(s)
            \/ stored'[p] = stored[p] /\ reducedTo'[p] = reducedTo[p] /\ unwritten'[p] = unwritten[p]
<1> DEFINE moved == {q \in DOMAIN page[s] : Takes(s) /\ Observing(page[s][q])}
           written == {q \in moved : Writing(page[s][q])}
           passed == {e \in Unreduced(p) : e <= page[s][p].last}
<1>1. /\ stored'[p] = IF p \in written THEN page[s][p].current ELSE stored[p]
      /\ reducedTo'[p] = IF p \in moved THEN page[s][p].last ELSE reducedTo[p]
      /\ unwritten'[p] = IF p \in moved \ written THEN unwritten[p] \cup passed ELSE unwritten[p]
  BY DEF Answer
<1>2. PICK n \in Nat, u \in SUBSET ReducerEvents, st \in Seq(ReducerEvents) :
        /\ n = reducedTo[p] /\ u = unwritten[p] /\ st = stored[p]
        /\ IsReduction(st, WrittenUpto(p, n, u)) /\ (batchMethod => u = {})
        /\ \A e \in u : e \in Nat /\ e <= n
  <2>1. \A e \in unwritten[p] : e \in Nat /\ e <= reducedTo[p]
    BY ReducerLogged DEF ReductionInv, ReductionTypeOK
  <2>2. IsReduction(stored[p], WrittenUpto(p, reducedTo[p], unwritten[p])) /\ (batchMethod => unwritten[p] = {})
    BY DEF ReductionInv, StateIsReduction, WrittenEvents, WrittenUpto, SentUpto
  <2> QED BY <2>1, <2>2 DEF ReductionInv, ReductionTypeOK
<1>3. CASE p \in moved
  <2>1. p \in DOMAIN page[s] /\ OpenQueue(s) /\ page[s][p].last # Unavailable
    BY <1>3 DEF Takes, Observing
  <2>2. PICK x \in Outcomes : x = page[s][p] /\ Whole(x, p, st, n, u)
    BY <1>2, <2>1, InPage DEF OpenQueue
  <2>3. PICK m \in Nat : m = x.last /\ m > n
    BY <2>1, <2>2 DEF Whole, Outcomes
  <2>4. reducedTo'[p] = m
    BY <1>1, <1>3, <2>2, <2>3
  <2>5. CASE x.state = "success"
    <3>1. p \in written
      BY <1>3, <2>2, <2>5 DEF Writing, Observing
    <3>2. stored'[p] = x.current /\ unwritten'[p] = u
      BY <1>1, <1>2, <2>2, <3>1
    <3>3. IsReduction(x.current, WrittenUpto(p, m, u)) /\ x.current \in Seq(ReducerEvents)
      BY <2>1, <2>2, <2>3, <2>5 DEF Whole, Outcomes
    <3>4. \A e \in u : e <= m
      BY <1>2, <2>3
    <3> QED BY <1>2, <2>1, <2>3, <2>4, <3>2, <3>3, <3>4
  <2>6. CASE x.state # "success"
    <3>1. p \in moved \ written
      BY <1>3, <2>2, <2>6 DEF Writing
    <3>2. PICK v : v = passed /\ v \subseteq SentOf(p) /\ \A e \in SentOf(p) : e \in v <=> e > n /\ e <= m
      <4>1. passed = {e \in SentOf(p) : e > n /\ e <= m}
        BY <1>2, <2>2, <2>3 DEF Unreduced
      <4>2. passed \subseteq SentOf(p) /\ \A e \in SentOf(p) : e \in passed <=> e > n /\ e <= m
        BY <4>1
      <4> HIDE DEF passed
      <4> QED BY <4>2
    <3>3. stored'[p] = st /\ unwritten'[p] = u \cup v
      BY <1>1, <1>2, <3>1, <3>2
    <3>4. v \subseteq ReducerEvents /\ \A e \in v : e <= m
      BY <3>2, SentAre
    <3>5. WrittenUpto(p, m, u \cup v) = WrittenUpto(p, n, u)
      <4>1. \A e \in SentOf(p) : e \in Nat
        BY SentAre
      <4>2. \A e \in SentOf(p) : (e <= m /\ e \notin u /\ e \notin v) <=> (e <= n /\ e \notin u)
        BY <1>2, <2>3, <3>2, <4>1
      <4> QED BY <4>2 DEF WrittenUpto, SentUpto
    <3>6. ~batchMethod
      BY <2>1, <2>2, <2>6 DEF Whole
    <3>7. u \cup v \in SUBSET ReducerEvents /\ \A e \in u \cup v : e <= m
      BY <1>2, <2>3, <3>4
    <3>8. m >= n
      BY <2>3
    <3> QED BY <1>2, <2>1, <2>4, <3>3, <3>5, <3>6, <3>7, <3>8
  <2> QED BY <2>5, <2>6
<1>4. CASE p \notin moved
  <2>1. stored'[p] = st /\ reducedTo'[p] = n /\ unwritten'[p] = u
    BY <1>1, <1>2, <1>4
  <2> QED BY <1>2, <2>1
<1> QED BY <1>3, <1>4

LEMMA AnswerKeeps ==
  ASSUME ReductionInv, NEW s \in Streams, Answer(s)
  PROVE  ReductionInv'
<1>1. /\ page' = [page EXCEPT ![s] = NoPage] /\ UNCHANGED <<batchMethod, reducerStream, reducerStreamOpen, mishapsLeft>>
      /\ stored' \in [ReducerPartitions -> Seq(ReducerEvents)] /\ reducedTo' \in [ReducerPartitions -> Nat]
      /\ unwritten' \in [ReducerPartitions -> SUBSET ReducerEvents]
  <2>1. stored' = [p \in ReducerPartitions |-> stored'[p]] /\ reducedTo' = [p \in ReducerPartitions |-> reducedTo'[p]]
        /\ unwritten' = [p \in ReducerPartitions |-> unwritten'[p]]
    BY DEF Answer
  <2> QED BY <2>1, AnswerMoves DEF Answer
<1>2. page' \in [Streams -> Pages] /\ page'[s] = NoPage /\ \A r \in Streams : r # s => page'[r] = page[r]
  BY <1>1, NoPageIs DEF ReductionInv
<1>3. \A r \in Streams : DOMAIN page'[r] \subseteq ReducerPartitions /\ \A q \in DOMAIN page'[r] : page'[r][q] \in Outcomes
  BY <1>2 DEF Pages
<1>4. ReductionTypeOK'
  BY <1>1, <1>3 DEF ReductionInv, ReductionTypeOK
<1>5. \A r \in Streams : r > reducerStream => page'[r] = NoPage
  BY <1>2 DEF ReductionInv
<1>6. ASSUME reducerStreamOpen, NEW q \in DOMAIN page'[reducerStream]
      PROVE  Whole(page'[reducerStream][q], q, stored'[q], reducedTo'[q], unwritten'[q])
  <2>1. reducerStream \in Streams
    BY DEF ReductionInv, ReductionTypeOK
  <2>2. reducerStream # s
    BY <1>2, <1>6, NoPageIs
  <2>3. q \in DOMAIN page[reducerStream] /\ page'[reducerStream] = page[reducerStream] /\ q \in ReducerPartitions
    BY <1>2, <1>3, <1>6, <2>1, <2>2
  <2>4. stored'[q] = stored[q] /\ reducedTo'[q] = reducedTo[q] /\ unwritten'[q] = unwritten[q]
    BY <2>2, <2>3, AnswerMoves DEF OpenQueue
  <2> QED BY <1>6, <2>1, <2>3, <2>4, InPage
<1>7. StateIsReduction'
  <2>1. \A p \in ReducerPartitions : WrittenUpto(p, reducedTo'[p], unwritten'[p]) = WrittenEvents(p)'
    BY <1>1 DEF WrittenEvents, WrittenUpto, SentUpto, SentOf
  <2>2. \A p \in ReducerPartitions : IsReduction(stored'[p], WrittenEvents(p)')
    BY <2>1, AnswerMoves
  <2>3. \A p \in ReducerPartitions : batchMethod => unwritten'[p] = {}
    BY AnswerMoves
  <2> QED BY <1>1, <2>2, <2>3 DEF StateIsReduction, IsReduction
<1>8. \A o, q, x, n, u : Whole(o, q, x, n, u) => Whole(o, q, x, n, u)'
  BY <1>1 DEF Whole, WrittenUpto, SentUpto, SentOf
<1>9. \A p \in ReducerPartitions : \A e \in unwritten'[p] : e <= reducedTo'[p]
  BY AnswerMoves
<1> QED BY <1>1, <1>2, <1>4, <1>5, <1>6, <1>7, <1>8, <1>9 DEF ReductionInv

LEMMA DeliverKeeps ==
  ASSUME ReductionInv, NEW ps \in SUBSET ReducerPartitions, NEW failing \in BOOLEAN, DeliverPage(ps, failing)
  PROVE  ReductionInv'
<1> DEFINE New(p) == IF failing THEN [NewOutcome(p) EXCEPT !.pc = "done", !.state = "failed"] ELSE NewOutcome(p)
           new == [p \in ps |-> New(p)]
<1>0. mishapsLeft' \in Nat
  <2>1. mishapsLeft \in Nat /\ (failing => mishapsLeft > 0)
    BY DEF DeliverPage, ReductionInv, ReductionTypeOK
  <2>2. mishapsLeft' = IF failing THEN mishapsLeft - 1 ELSE mishapsLeft
    BY DEF DeliverPage
  <2> QED BY <2>1, <2>2
<1>1. /\ page' = [page EXCEPT ![reducerStream] = new] /\ reducerStreamOpen /\ reducerStream \in Streams
      /\ UNCHANGED <<batchMethod, stored, reducedTo, unwritten, reducerStream, reducerStreamOpen>> /\ mishapsLeft' \in Nat
  BY <1>0 DEF DeliverPage, ReductionInv, ReductionTypeOK
<1>2. \A p \in ps : New(p) \in Outcomes /\ Whole(New(p), p, stored[p], reducedTo[p], unwritten[p])
  <2> SUFFICES ASSUME NEW p \in ps PROVE New(p) \in Outcomes /\ Whole(New(p), p, stored[p], reducedTo[p], unwritten[p])
    OBVIOUS
  <2>1. PICK n \in Nat : n = reducedTo[p]
    BY DEF ReductionInv, ReductionTypeOK
  <2>2. PICK st \in Seq(ReducerEvents) : st = stored[p]
    BY DEF ReductionInv, ReductionTypeOK
  <2>3. PICK T : T = Unreduced(p) /\ T \subseteq SentOf(p) /\ \A e \in SentOf(p) : e \in T <=> e > n
    <3>1. Unreduced(p) \subseteq SentOf(p) /\ \A e \in SentOf(p) : e \in Unreduced(p) <=> e > n
      BY <2>1 DEF Unreduced
    <3> HIDE DEF New, new
    <3> QED BY <3>1
  <2>4. T \in SUBSET Nat /\ IsFiniteSet(T)
    <3>1. T \subseteq 1..Len(ReducerLog) /\ Len(ReducerLog) \in Nat
      BY <2>3, SentAre, ReducerLogged
    <3>2. IsFiniteSet(1..Len(ReducerLog))
      BY <3>1, FS_Interval
    <3>3. IsFiniteSet(T)
      BY <3>1, <3>2, FS_Subset
    <3>4. T \in SUBSET Nat
      BY <3>1
    <3> QED BY <3>3, <3>4
  <2>5. PICK todo : todo = Leading(T, MaxPage) /\ todo \subseteq T
    BY DEF Leading
  <2>6. \A f \in todo, e \in SentOf(p) : e < f => e <= n \/ e \in todo
    <3> SUFFICES ASSUME NEW f \in todo, NEW e \in SentOf(p), e < f, ~(e <= n) PROVE e \in todo
      OBVIOUS
    <3>1. e \in T
      BY <2>3, SentAre
    <3> QED BY <2>4, <2>5, <3>1, LeadingFirst, PagesAssumption
  <2>7. \A f \in todo : f > n /\ f > 0 /\ f \in ReducerEvents
    BY <2>3, <2>5, SentAre
  <2>8. New(p) = [pc |-> IF failing THEN "done" ELSE "waiting", state |-> IF failing THEN "failed" ELSE "success",
                  last |-> 0, current |-> st, todo |-> todo]
    BY <2>2, <2>3, <2>5 DEF NewOutcome, Unavailable
  <2> HIDE DEF New
  <2>9. New(p) \in Outcomes
    BY <2>7, <2>8 DEF Outcomes
  <2>10. Whole(New(p), p, st, n, unwritten[p])
    BY <2>3, <2>5, <2>6, <2>7, <2>8 DEF Whole, Unavailable
  <2> QED BY <2>1, <2>2, <2>9, <2>10
<1> HIDE DEF New
<1>3. new \in Pages /\ DOMAIN new = ps /\ \A p \in ps : new[p] = New(p)
  BY <1>2 DEF Pages
<1> HIDE DEF new
<1>4. page' \in [Streams -> Pages] /\ page'[reducerStream] = new /\ \A r \in Streams : r # reducerStream => page'[r] = page[r]
  BY <1>1, <1>3 DEF ReductionInv
<1>5. \A r \in Streams : DOMAIN page'[r] \subseteq ReducerPartitions /\ \A q \in DOMAIN page'[r] : page'[r][q] \in Outcomes
  BY <1>4 DEF Pages
<1>6. ReductionTypeOK'
  BY <1>1, <1>5 DEF ReductionInv, ReductionTypeOK
<1>7. \A r \in Streams : r > reducerStream => page'[r] = NoPage
  <2>1. \A r \in Streams : r > reducerStream => r # reducerStream
    BY <1>1 DEF Streams
  <2> QED BY <1>4, <2>1 DEF ReductionInv
<1>8. StateIsReduction'
  BY <1>1 DEF ReductionInv, StateIsReduction, WrittenEvents, SentOf
<1>9. \A o, q, x, n, u : Whole(o, q, x, n, u) => Whole(o, q, x, n, u)'
  BY <1>1 DEF Whole, WrittenUpto, SentUpto, SentOf
<1>10. \A q \in DOMAIN page'[reducerStream] : Whole(page'[reducerStream][q], q, stored[q], reducedTo[q], unwritten[q])
  BY <1>2, <1>3, <1>4
<1> QED BY <1>1, <1>4, <1>6, <1>7, <1>8, <1>9, <1>10 DEF ReductionInv

LEMMA StreamsKeep ==
  ASSUME ReductionInv, ReducerStreamEnds \/ ReobserveReducer \/ UNCHANGED reductionVars
  PROVE  ReductionInv'
<1>1. UNCHANGED <<batchMethod, stored, reducedTo, unwritten, page, mishapsLeft>>
  BY DEF ReducerStreamEnds, ReobserveReducer, reductionVars
<1>2. StateIsReduction'
  BY <1>1 DEF ReductionInv, StateIsReduction, WrittenEvents, SentOf
<1>3. \A o, q, x, n, u : Whole(o, q, x, n, u) => Whole(o, q, x, n, u)'
  BY <1>1 DEF Whole, WrittenUpto, SentUpto, SentOf
<1>4. CASE ReducerStreamEnds
  BY <1>1, <1>2, <1>4 DEF ReducerStreamEnds, ReductionInv, ReductionTypeOK
<1>5. CASE ReobserveReducer
  <2>1. reducerStream' = reducerStream + 1 /\ reducerStream' \in Streams /\ reducerStreamOpen' = TRUE /\ reducerStream \in Nat
    BY <1>5, PagesAssumption DEF ReobserveReducer, ReductionInv, ReductionTypeOK, Streams
  <2>2. \A r \in Streams : r >= reducerStream + 1 => page[r] = NoPage
    BY <2>1 DEF ReductionInv, Streams
  <2>3. page'[reducerStream'] = NoPage
    BY <1>1, <2>1, <2>2 DEF Streams
  <2>4. \A r \in Streams : r > reducerStream' => page'[r] = NoPage
    BY <1>1, <2>1, <2>2 DEF Streams
  <2>5. ReductionTypeOK' /\ page' \in [Streams -> Pages]
    BY <1>1, <2>1 DEF ReductionInv, ReductionTypeOK
  <2>6. \A p \in ReducerPartitions : \A e \in unwritten'[p] : e <= reducedTo'[p]
    BY <1>1 DEF ReductionInv
  <2>7. \A p \in DOMAIN page'[reducerStream'] :
          Whole(page[reducerStream][p], p, stored[p], reducedTo[p], unwritten[p])'
    BY <2>3, NoPageIs
  <2> QED BY <1>2, <2>1, <2>4, <2>5, <2>6, <2>7 DEF ReductionInv
<1>6. CASE UNCHANGED reductionVars
  BY <1>2, <1>3, <1>6 DEF reductionVars, ReductionInv, ReductionTypeOK
<1> QED BY <1>4, <1>5, <1>6

LEMMA ReductionStep == ReductionInv /\ [ReductionNext]_reductionVars => ReductionInv'
<1> SUFFICES ASSUME ReductionInv, [ReductionNext]_reductionVars PROVE ReductionInv'
  OBVIOUS
<1>1. ASSUME NEW s \in Streams, NEW p \in ReducerPartitions,
             \/ TakeNext(s, p) \/ EventReduced(s, p) \/ BatchReduced(s, p)
             \/ ReductionFails(s, p) \/ ReductionDefers(s, p)
             \/ LeaseCompletes(s, p) \/ LeaseFails(s, p)
      PROVE  ReductionInv'
  BY <1>1, TakeKeeps, EventKeeps, BatchKeeps, FailsKeep, LeasesKeep
<1>2. ASSUME NEW s \in Streams, Answer(s) PROVE ReductionInv'
  BY <1>2, AnswerKeeps
<1>3. CASE KernelDeliversPages
  BY <1>3, DeliverKeeps DEF KernelDeliversPages
<1>4. CASE ReducerStreamEnds \/ ReobserveReducer \/ UNCHANGED reductionVars
  BY <1>4, StreamsKeep
<1> QED BY <1>1, <1>2, <1>3, <1>4 DEF ReductionNext, ReductionProgress, ReducerStep

LEMMA ReductionAlways == ReductionSpec => []ReductionInv
BY ReductionStart, ReductionStep, PTL DEF ReductionSpec

\* Pages, states and positions keep their types (Reducers.ts).
THEOREM ReductionTypeCorrect == ReductionSpec => []ReductionTypeOK
<1>1. ReductionInv => ReductionTypeOK
  BY DEF ReductionInv
<1> QED BY <1>1, ReductionAlways, PTL

\* For any log, partitions, page sizes and mishaps: the read model of a partition is the
\* reduction of its events up to the position that the kernel was told, each once and in
\* order; of all of them with one handler per batch, and of all but those that an answer
\* with a failure named with one handler per event (Reducers.processEvents and processBatch,
\* ReductionOutcome.toPartitionResult).
THEOREM ReadModelsAreReductions == ReductionSpec => []StateIsReduction
<1>1. ReductionInv => StateIsReduction
  BY DEF ReductionInv
<1> QED BY <1>1, ReductionAlways, PTL

\* And its position never goes back: an answer of an ended stream is not taken after that of
\* a later one (Reducers.observeReducer, which completes the queue of a stream that ends).
THEOREM ReadModelsNeverGoBack == ReductionSpec => ReductionsAdvance
<1> DEFINE Advance == \A p \in ReducerPartitions : reducedTo'[p] >= reducedTo[p]
<1>1. ASSUME ReductionInv, [ReductionNext]_reductionVars PROVE [Advance]_reductionVars
  <2>1. ASSUME NEW s \in Streams, Answer(s) PROVE Advance
    BY <1>1, <2>1, AnswerMoves
  <2>2. \A p \in ReducerPartitions : reducedTo[p] \in Nat
    BY <1>1 DEF ReductionInv, ReductionTypeOK
  <2>3. ASSUME reducedTo' = reducedTo PROVE Advance
    BY <2>2, <2>3
  <2>4. (\E s \in Streams : Answer(s)) \/ reducedTo' = reducedTo \/ UNCHANGED reductionVars
    <3>1. ASSUME NEW s \in Streams, ReducerStep(s) PROVE Answer(s) \/ reducedTo' = reducedTo
      <4>1. ASSUME NEW p \in ReducerPartitions,
                   \/ TakeNext(s, p) \/ EventReduced(s, p) \/ BatchReduced(s, p)
                   \/ ReductionFails(s, p) \/ ReductionDefers(s, p)
                   \/ LeaseCompletes(s, p) \/ LeaseFails(s, p)
            PROVE  reducedTo' = reducedTo
        BY <4>1 DEF TakeNext, EventReduced, BatchReduced, ReductionFails, ReductionDefers,
                    LeaseCompletes, LeaseFails, Outcome
      <4> QED BY <3>1, <4>1 DEF ReducerStep
    <3>2. ASSUME KernelDeliversPages PROVE reducedTo' = reducedTo
      BY <3>2 DEF KernelDeliversPages, DeliverPage
    <3>3. ASSUME ReobserveReducer \/ ReducerStreamEnds PROVE reducedTo' = reducedTo
      BY <3>3 DEF ReobserveReducer, ReducerStreamEnds
    <3> QED BY <1>1, <3>1, <3>2, <3>3 DEF ReductionNext, ReductionProgress
  <2> QED BY <2>1, <2>3, <2>4
<1>2. ReductionInv /\ [ReductionNext]_reductionVars => [Advance]_reductionVars
  BY <1>1
<1> QED BY <1>2, ReductionAlways, PTL DEF ReductionSpec, ReductionsAdvance
=============================================================================
