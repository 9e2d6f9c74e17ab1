------------------------- MODULE UnitOfWork_proofs --------------------------
(***************************************************************************)
(* What the commits of a unit of work write, and answer, when it is left   *)
(* alone while one of them awaits its appends, for any events, sequences   *)
(* and scopes, however often commits fail and are repeated; and what the   *)
(* manager of the units of a store finds, for any units and correlations.  *)
(***************************************************************************)
EXTENDS UnitOfWork, UnitOfWorkManager, Orders

-----------------------------------------------------------------------------
(* The inductive invariant. *)

UnitTypes ==
  /\ events \in Seq(Enrolments)
  /\ scopes \in [SequenceIds -> [Sources -> Scopes \cup {NoScope}]]
  /\ call \in [Callers -> CallState]
  /\ written \subseteq Written
  /\ commits \in Nat

SequencesOf(batch) == {batch[i].sequence : i \in DOMAIN batch}

\* A source of a sequence has the scope that any of its events was enrolled with.
EnrolledScopes ==
  \A i \in DOMAIN events : events[i].scope # NoScope =>
    scopes[events[i].sequence][events[i].source] = events[i].scope

\* One commit at a time awaits an append.
OneCommit ==
  \A c, d \in Callers : call[c].state = "awaiting" /\ call[d].state = "awaiting" => c = d

\* It has all events, which were validated, and sent the scopes of its sequence.
Validated(commit) ==
  /\ commit.batch = events /\ commit.todo \subseteq SequencesOf(events)
  /\ ~RefusedUpFront(events, scopes)
Sending(commit) == commit.at \in SequenceIds /\ commit.sent = scopes[commit.at]
Awaited ==
  \A c \in Callers : call[c].state = "awaiting" => Validated(call[c]) /\ Sending(call[c])

\* Commits are told apart by their numbers.
Numbered ==
  /\ \A c \in Callers : call[c].number <= commits
  /\ \A w \in written : w.commit <= commits
  /\ \A c, d \in Callers :
       call[c].state # "idle" /\ call[d].state # "idle" /\ call[c].number = call[d].number => c = d

UnitInv ==
  /\ UnitTypes /\ EnrolledScopes /\ OneCommit /\ Awaited /\ Numbered
  /\ RejectedWritesNothing /\ ScopesAreEnforced

-----------------------------------------------------------------------------
(* The operators of the model. *)

\* The next sequence of a commit is one of those it still has to append to.
LEMMA FirstIsOneOf ==
  ASSUME NEW batch \in Seq(Enrolments), NEW todo, todo \subseteq SequencesOf(batch), todo # {}
  PROVE  FirstOf(batch, todo) \in todo
<1> DEFINE Places == {i \in DOMAIN batch : batch[i].sequence \in todo}
<1>1. Places \subseteq Nat /\ Places # {}
  BY DEF SequencesOf
<1>2. PICK i \in Places : \A j \in Places : ~(<<j, i>> \in OpToRel(<, Nat))
  BY <1>1, WFMin, NatLessThanWellFounded, Zenon
<1>3. \A j \in Places : ~(j < i)
  BY <1>1, <1>2 DEF OpToRel
<1>4. i \in DOMAIN batch /\ batch[i].sequence \in todo
  OBVIOUS
<1>5. \A j \in 1..(i - 1) : batch[j].sequence \notin todo
  <2> SUFFICES ASSUME NEW j \in 1..(i - 1), batch[j].sequence \in todo PROVE FALSE
    OBVIOUS
  <2>1. j \in DOMAIN batch /\ j < i
    BY <1>1, <1>4
  <2> QED BY <1>3, <2>1
<1>6. i \in GroupOf(batch, batch[i].sequence)
  BY <1>4 DEF GroupOf
<1>7. \E q \in todo : \E k \in GroupOf(batch, q) : \A j \in 1..(k - 1) : batch[j].sequence \notin todo
  BY <1>4, <1>5, <1>6
<1> QED BY <1>7 DEF FirstOf

LEMMA SequencesAreKnown ==
  ASSUME NEW batch \in Seq(Enrolments)
  PROVE  SequencesOf(batch) \subseteq SequenceIds
BY UnitOfWorkAssumption DEF SequencesOf, Enrolment

\* What commit has validated, no append of it refuses.
LEMMA NoneIsRefused ==
  ASSUME NEW batch, NEW known, NEW q \in SequenceIds, ~RefusedUpFront(batch, known)
  PROVE  ~Refused(batch, GroupOf(batch, q), known[q])
<1>1. GroupOf(batch, q) \subseteq DOMAIN batch
  BY DEF GroupOf
<1>2. TagsConflict(batch, GroupOf(batch, q)) => TagsConflict(batch, DOMAIN batch)
  BY <1>1 DEF TagsConflict
<1> QED BY <1>2 DEF Refused, RefusedUpFront

\* A validated commit goes on to its next append, or is done.
LEMMA GoesOn ==
  ASSUME UnitTypes, NEW commit \in CallState, Validated(commit)
  PROVE  LET next == Continued(commit)
         IN /\ next \in CallState /\ next.number = commit.number
            /\ next.state \in {"done", "awaiting"}
            /\ next.state = "awaiting" => Validated(next) /\ Sending(next)
<1> DEFINE next == Continued(commit)
<1>1. CASE commit.todo = {}
  <2>1. next = [commit EXCEPT !.state = "done", !.at = "none"]
    BY <1>1 DEF Continued
  <2> QED BY <2>1 DEF CallState
<1>2. CASE commit.todo # {}
  <2> DEFINE q == FirstOf(commit.batch, commit.todo)
  <2>1. q \in commit.todo /\ q \in SequenceIds
    BY <1>2, FirstIsOneOf, SequencesAreKnown DEF UnitTypes, Validated
  <2>2. ~Refused(commit.batch, GroupOf(commit.batch, q), scopes[q])
    BY <2>1, NoneIsRefused DEF Validated
  <2>3. next = [commit EXCEPT !.state = "awaiting", !.at = q, !.sent = scopes[q], !.todo = @ \ {q}]
    BY <1>2, <2>2 DEF Continued
  <2> HIDE DEF q, next
  <2>4. scopes[q] \in [Sources -> Scopes \cup {NoScope}]
    BY <2>1 DEF UnitTypes
  <2>5. /\ next.state = "awaiting" /\ next.at = q /\ next.sent = scopes[q]
        /\ next.todo \subseteq commit.todo /\ next.batch = commit.batch
        /\ next.number = commit.number /\ next.answers = commit.answers
    BY <2>3 DEF CallState
  <2>6. next \in CallState
    BY <2>1, <2>3, <2>4 DEF CallState
  <2> QED BY <2>1, <2>5, <2>6 DEF Validated, Sending, next
<1> QED BY <1>1, <1>2

-----------------------------------------------------------------------------
(* The steps. *)

LEMMA UnitInit == Init => UnitInv
<1> SUFFICES ASSUME Init PROVE UnitInv
  OBVIOUS
<1>1. UnitTypes
  BY DEF Init, UnitTypes, NoScopes, CallState
<1>2. \A c \in Callers : call[c].state = "idle" /\ call[c].number = 0
  BY DEF Init
<1>3. events = <<>> /\ written = {} /\ commits = 0
  BY DEF Init
<1> QED BY <1>1, <1>2, <1>3 DEF UnitInv, EnrolledScopes, OneCommit, Awaited, Numbered,
  RejectedWritesNothing, ScopesAreEnforced

\* Nobody awaits an append when the unit of work is used.
LEMMA AddEventStep ==
  ASSUME ~Overlap, UnitInv, NEW e \in Enrolments, AddEvent(e)
  PROVE  UnitInv'
<1>1. /\ UNCHANGED <<call, written, commits>> /\ events' = Append(events, e)
      /\ Compatible(scopes[e.sequence][e.source], e.scope)
      /\ scopes' = IF e.scope = NoScope THEN scopes
                   ELSE [scopes EXCEPT ![e.sequence][e.source] = e.scope]
      /\ \A c \in Callers : call[c].state # "awaiting"
  BY DEF AddEvent, MayBeCalled, InFlight
<1>2. /\ e.sequence \in SequenceIds /\ e.source \in Sources /\ e.scope \in Scopes \cup {NoScope}
  BY UnitOfWorkAssumption DEF Enrolment
<1>3. /\ events \in Seq(Enrolments)
      /\ scopes \in [SequenceIds -> [Sources -> Scopes \cup {NoScope}]]
  BY DEF UnitInv, UnitTypes
<1>4. scopes' \in [SequenceIds -> [Sources -> Scopes \cup {NoScope}]]
  BY <1>1, <1>2, <1>3
<1>5. events' \in Seq(Enrolments)
  BY <1>1, <1>3
<1>6. UnitTypes'
  BY <1>1, <1>4, <1>5 DEF UnitInv, UnitTypes
<1>7. EnrolledScopes'
  <2> SUFFICES ASSUME NEW i \in DOMAIN events', events'[i].scope # NoScope
               PROVE  scopes'[events'[i].sequence][events'[i].source] = events'[i].scope
    BY DEF EnrolledScopes
  <2>1. CASE i \in DOMAIN events
    <3>1. events'[i] = events[i] /\ events[i] \in Enrolments
      BY <1>1, <1>3, <2>1
    <3>2. scopes[events[i].sequence][events[i].source] = events[i].scope
      BY <2>1, <3>1 DEF UnitInv, EnrolledScopes
    <3>3. events[i].sequence \in SequenceIds /\ events[i].source \in Sources
      BY <3>1, UnitOfWorkAssumption DEF Enrolment
    <3>4. CASE events[i].sequence = e.sequence /\ events[i].source = e.source
      BY <1>1, <1>2, <1>3, <3>1, <3>2, <3>4 DEF Compatible
    <3>5. CASE ~(events[i].sequence = e.sequence /\ events[i].source = e.source)
      BY <1>1, <1>2, <1>3, <3>1, <3>2, <3>3, <3>5
    <3> QED BY <3>4, <3>5
  <2>2. CASE i \notin DOMAIN events
    <3>1. events'[i] = e
      BY <1>1, <1>3, <2>2
    <3> QED BY <1>1, <1>2, <1>3, <3>1
  <2> QED BY <2>1, <2>2
<1> QED BY <1>1, <1>6, <1>7 DEF UnitInv, OneCommit, Awaited, Numbered, RejectedWritesNothing,
  ScopesAreEnforced

LEMMA RollbackStep ==
  ASSUME ~Overlap, UnitInv, Rollback
  PROVE  UnitInv'
<1>1. /\ UNCHANGED <<call, written, commits>> /\ events' = <<>>
      /\ scopes' = [q \in SequenceIds |-> NoScopes]
      /\ \A c \in Callers : call[c].state # "awaiting"
  BY DEF Rollback, MayBeCalled, InFlight
<1>2. UnitTypes'
  BY <1>1 DEF UnitInv, UnitTypes, NoScopes
<1> QED BY <1>1, <1>2 DEF UnitInv, EnrolledScopes, OneCommit, Awaited, Numbered,
  RejectedWritesNothing, ScopesAreEnforced

LEMMA CommitStep ==
  ASSUME ~Overlap, UnitInv, NEW c \in Callers, Commit(c)
  PROVE  UnitInv'
<1> DEFINE begun == [call[c] EXCEPT !.number = commits + 1, !.batch = events,
                                    !.todo = {events[i].sequence : i \in DOMAIN events},
                                    !.at = "none", !.answers = {}]
<1>1. /\ commits' = commits + 1 /\ UNCHANGED <<events, scopes, written>>
      /\ \A d \in Callers : call[d].state # "awaiting"
  BY DEF Commit, MayBeCalled, InFlight
<1>2. UnitTypes /\ commits \in Nat /\ events \in Seq(Enrolments) /\ call[c] \in CallState
  BY DEF UnitInv, UnitTypes
<1>3. begun \in CallState /\ begun.number = commits + 1
  <2>1. {events[i].sequence : i \in DOMAIN events} \in SUBSET SequenceIds
    BY <1>2, SequencesAreKnown DEF SequencesOf
  <2>2. commits + 1 \in Nat
    BY <1>2
  <2> QED BY <1>2, <2>1, <2>2 DEF CallState
<1>4. begun.batch = events /\ begun.todo = SequencesOf(events)
  BY <1>2 DEF CallState, SequencesOf
<1>5. PICK commit \in CallState :
        /\ call' = [call EXCEPT ![c] = commit] /\ commit.number = commits + 1
        /\ commit.state \in {"refused", "done", "awaiting"}
        /\ commit.state = "awaiting" => Validated(commit) /\ Sending(commit)
  <2> HIDE DEF begun
  <2>1. CASE RefusedUpFront(events, scopes)
    <3>1. call' = [call EXCEPT ![c] = [begun EXCEPT !.state = "refused"]]
      BY <2>1 DEF Commit, begun
    <3>2. /\ [begun EXCEPT !.state = "refused"] \in CallState
          /\ [begun EXCEPT !.state = "refused"].number = commits + 1
          /\ [begun EXCEPT !.state = "refused"].state = "refused"
      BY <1>3 DEF CallState
    <3> QED BY <3>1, <3>2
  <2>2. CASE ~RefusedUpFront(events, scopes)
    <3>1. call' = [call EXCEPT ![c] = Continued(begun)]
      BY <2>2 DEF Commit, GoOn, begun
    <3>2. Validated(begun)
      BY <1>4, <2>2 DEF Validated
    <3> QED BY <1>2, <1>3, <3>1, <3>2, GoesOn
  <2> QED BY <2>1, <2>2
<1> HIDE DEF begun
<1>6. call'[c] = commit /\ \A d \in Callers \ {c} : call'[d] = call[d]
  BY <1>5 DEF UnitInv, UnitTypes
<1>7. UnitTypes'
  BY <1>1, <1>5 DEF UnitInv, UnitTypes
<1>8. Awaited'
  BY <1>1, <1>5, <1>6 DEF Awaited, Validated, Sending
<1>9. OneCommit'
  BY <1>1, <1>6 DEF OneCommit
<1>10. \A d \in Callers : call[d].number \in Nat
  BY DEF UnitInv, UnitTypes, CallState
<1>11. \A w \in written : w.commit \in Nat
  BY DEF UnitInv, UnitTypes, Written
<1>12. Numbered'
  <2>1. \A d \in Callers : call'[d].number <= commits'
    BY <1>1, <1>2, <1>5, <1>6, <1>10 DEF UnitInv, Numbered
  <2>2. \A w \in written' : w.commit <= commits'
    BY <1>1, <1>2, <1>11 DEF UnitInv, Numbered
  <2>3. \A d \in Callers \ {c} : call'[d].number # call'[c].number
    BY <1>2, <1>5, <1>6, <1>10 DEF UnitInv, Numbered
  <2> QED BY <1>6, <2>1, <2>2, <2>3 DEF UnitInv, Numbered
<1>13. RejectedWritesNothing'
  <2>1. \A w \in written : w.commit # commits + 1
    BY <1>2, <1>11 DEF UnitInv, Numbered
  <2> QED BY <1>1, <1>5, <1>6, <2>1 DEF UnitInv, RejectedWritesNothing
<1>14. EnrolledScopes' /\ ScopesAreEnforced'
  BY <1>1 DEF UnitInv, EnrolledScopes, ScopesAreEnforced
<1> QED BY <1>7, <1>8, <1>9, <1>12, <1>13, <1>14 DEF UnitInv

\* What an append writes, under which scopes.
LEMMA WritesOfCommit ==
  ASSUME UnitInv, NEW c \in Callers, call[c].state = "awaiting"
  PROVE  /\ Writes(c) \subseteq Written
         /\ \A w \in Writes(c) : /\ w.commit = call[c].number
                                 /\ w.enrolled.scope # NoScope => w.scope = w.enrolled.scope
<1>1. /\ call[c] \in CallState /\ call[c].batch = events /\ call[c].at \in SequenceIds
      /\ call[c].sent = scopes[call[c].at] /\ events \in Seq(Enrolments)
      /\ scopes[call[c].at] \in [Sources -> Scopes \cup {NoScope}]
  BY DEF UnitInv, UnitTypes, Awaited, Validated, Sending
<1> SUFFICES ASSUME NEW i \in GroupOf(call[c].batch, call[c].at)
             PROVE  LET w == [commit |-> call[c].number, event |-> i, enrolled |-> call[c].batch[i],
                              scope |-> call[c].sent[call[c].batch[i].source]]
                    IN /\ w \in Written
                       /\ w.enrolled.scope # NoScope => w.scope = w.enrolled.scope
  BY DEF Writes
<1>2. /\ i \in DOMAIN events /\ i \in Nat /\ events[i] \in Enrolments
      /\ events[i].sequence = call[c].at
  BY <1>1 DEF GroupOf
<1>3. events[i].source \in Sources /\ call[c].number \in Nat
  BY <1>1, <1>2, UnitOfWorkAssumption DEF Enrolment, CallState
<1>4. events[i].scope # NoScope => scopes[call[c].at][events[i].source] = events[i].scope
  BY <1>2 DEF UnitInv, EnrolledScopes
<1> QED BY <1>1, <1>2, <1>3, <1>4 DEF Written

\* An append ends: another of the commit follows, or none.
LEMMA AppendEnds ==
  ASSUME UnitInv, NEW c \in Callers, call[c].state = "awaiting",
         UNCHANGED <<events, scopes, commits>>,
         written' \in {written, written \cup Writes(c)},
         NEW commit \in CallState, call' = [call EXCEPT ![c] = commit],
         commit.number = call[c].number, commit.state \in {"done", "awaiting", "failed"},
         commit.state = "awaiting" => Validated(commit) /\ Sending(commit)
  PROVE  UnitInv'
<1>1. call'[c] = commit /\ \A d \in Callers \ {c} : call'[d] = call[d]
  BY DEF UnitInv, UnitTypes
<1>2. \A w \in written' : w \in written \/ w \in Writes(c)
  OBVIOUS
<1>3. UnitTypes'
  BY WritesOfCommit DEF UnitInv, UnitTypes
<1>4. Awaited'
  BY <1>1 DEF UnitInv, Awaited, Validated, Sending
<1>5. OneCommit'
  BY <1>1 DEF UnitInv, OneCommit
<1>6. Numbered'
  <2>1. \A d \in Callers : call'[d].number = call[d].number
                           /\ (call'[d].state # "idle" => call[d].state # "idle")
    BY <1>1
  <2>2. \A w \in written' : w.commit <= commits'
    BY <1>2, WritesOfCommit DEF UnitInv, Numbered
  <2> QED BY <2>1, <2>2 DEF UnitInv, Numbered
<1>7. RejectedWritesNothing'
  <2> SUFFICES ASSUME NEW d \in Callers, call'[d].state = "refused", NEW w \in written'
               PROVE  w.commit # call'[d].number
    BY DEF RejectedWritesNothing
  <2>1. d # c /\ call'[d] = call[d]
    BY <1>1
  <2>2. CASE w \in written
    BY <2>1, <2>2 DEF UnitInv, RejectedWritesNothing
  <2>3. CASE w \in Writes(c)
    BY <2>1, <2>3, WritesOfCommit DEF UnitInv, Numbered
  <2> QED BY <1>2, <2>2, <2>3
<1>8. ScopesAreEnforced'
  BY <1>2, WritesOfCommit DEF UnitInv, ScopesAreEnforced
<1>9. EnrolledScopes'
  BY DEF UnitInv, EnrolledScopes
<1> QED BY <1>3, <1>4, <1>5, <1>6, <1>7, <1>8, <1>9 DEF UnitInv

LEMMA AnsweredStep ==
  ASSUME UnitInv, NEW c \in Callers, Answered(c)
  PROVE  UnitInv'
<1>1. PICK success \in BOOLEAN :
        /\ written' = IF success THEN written \cup Writes(c) ELSE written
        /\ GoOn(c, [call[c] EXCEPT !.answers = @ \cup
             {[event |-> i, success |-> success] : i \in GroupOf(call[c].batch, call[c].at)}])
  BY DEF Answered
<1> DEFINE commit == [call[c] EXCEPT !.answers = @ \cup
             {[event |-> i, success |-> success] : i \in GroupOf(call[c].batch, call[c].at)}]
<1>2. call[c].state = "awaiting" /\ UNCHANGED <<events, scopes, commits>>
  BY DEF Answered
<1>3. call[c] \in CallState /\ Validated(call[c]) /\ UnitTypes /\ events \in Seq(Enrolments)
  BY <1>2 DEF UnitInv, UnitTypes, Awaited
<1>4. {[event |-> i, success |-> success] : i \in GroupOf(call[c].batch, call[c].at)} \subseteq Result
  BY <1>3 DEF Validated, GroupOf, Result
<1>5. commit \in CallState
  BY <1>3, <1>4 DEF CallState
<1>6. commit.batch = call[c].batch /\ commit.todo = call[c].todo /\ commit.number = call[c].number
  BY <1>3 DEF CallState
<1>7. Validated(commit)
  BY <1>3, <1>6 DEF Validated
<1>8. call' = [call EXCEPT ![c] = Continued(commit)]
  BY <1>1 DEF GoOn
<1> HIDE DEF commit
<1>9. /\ Continued(commit) \in CallState /\ Continued(commit).number = call[c].number
      /\ Continued(commit).state \in {"done", "awaiting"}
      /\ Continued(commit).state = "awaiting" =>
           Validated(Continued(commit)) /\ Sending(Continued(commit))
  BY <1>3, <1>5, <1>6, <1>7, GoesOn
<1>10. written' \in {written, written \cup Writes(c)}
  BY <1>1
<1> QED BY <1>2, <1>8, <1>9, <1>10, AppendEnds

LEMMA AppendFailsStep ==
  ASSUME UnitInv, NEW c \in Callers, AppendFails(c)
  PROVE  UnitInv'
<1> DEFINE commit == [call[c] EXCEPT !.state = "failed", !.at = "none"]
<1>1. /\ call[c].state = "awaiting" /\ UNCHANGED <<events, scopes, commits>>
      /\ written' \in {written, written \cup Writes(c)}
  BY DEF AppendFails
<1>2. call[c] \in CallState /\ call \in [Callers -> CallState]
  BY DEF UnitInv, UnitTypes
<1>3. commit \in CallState /\ commit.number = call[c].number /\ commit.state = "failed"
  BY <1>2 DEF CallState
<1>4. call' = [call EXCEPT ![c] = commit]
  BY <1>2 DEF AppendFails
<1> HIDE DEF commit
<1> QED BY <1>1, <1>3, <1>4, AppendEnds

LEMMA UnitStep ==
  ASSUME ~Overlap, UnitInv, [Next]_vars
  PROVE  UnitInv'
<1>1. CASE UNCHANGED vars
  BY <1>1 DEF vars, UnitInv, UnitTypes, EnrolledScopes, OneCommit, Awaited, Validated, Sending,
    Numbered, RejectedWritesNothing, ScopesAreEnforced
<1> QED BY <1>1, AddEventStep, RollbackStep, CommitStep, AnsweredStep, AppendFailsStep DEF Next

LEMMA UnitInvariant ==
  ASSUME ~Overlap
  PROVE  Spec => []UnitInv
BY UnitInit, UnitStep, PTL DEF Spec

\* However many sequences a unit of work writes to and however often its commit fails
\* and is repeated, a commit that is refused has written nothing (UnitOfWork.commit).
THEOREM RefusalsWriteNothing ==
  ASSUME ~Overlap
  PROVE  Spec => []RejectedWritesNothing
<1>1. UnitInv => RejectedWritesNothing
  BY DEF UnitInv
<1> QED BY UnitInvariant, <1>1, PTL

\* And every event is written under the scope it was enrolled with (UnitOfWork.addEvent
\* and the scopes that commit sends with each append).
THEOREM ScopesHold ==
  ASSUME ~Overlap
  PROVE  Spec => []ScopesAreEnforced
<1>1. UnitInv => ScopesAreEnforced
  BY DEF UnitInv
<1> QED BY UnitInvariant, <1>1, PTL

-----------------------------------------------------------------------------
(* The results of a commit. *)

\* The numbers from 1 to n, in an order that ascends, are at their own places.
LEMMA Ascending ==
  ASSUME NEW n \in Nat, NEW f, \A i \in 1..n : f[i] \in 1..n,
         \A i, j \in 1..n : i < j => f[i] < f[j]
  PROVE  \A i \in 1..n : f[i] = i
<1> DEFINE Low == {i \in Nat : i \in 1..n => f[i] >= i}
           High == {k \in Nat : n - k \in 1..n => f[n - k] <= n - k}
<1>1. 0 \in Low /\ 0 \in High
  BY Z3
<1>2. ASSUME NEW i \in Nat, i \in Low PROVE i + 1 \in Low
  <2> SUFFICES ASSUME i + 1 \in 1..n PROVE f[i + 1] >= i + 1
    OBVIOUS
  <2>1. f[i + 1] \in 1..n
    OBVIOUS
  <2>2. CASE i = 0
    BY <2>1, <2>2
  <2>3. CASE i # 0
    <3>1. i \in 1..n /\ i < i + 1
      BY <2>3
    <3>2. f[i] >= i /\ f[i] < f[i + 1] /\ f[i] \in 1..n
      BY <1>2, <3>1
    <3> QED BY <2>1, <3>2
  <2> QED BY <2>2, <2>3
<1>3. ASSUME NEW k \in Nat, k \in High PROVE k + 1 \in High
  <2> SUFFICES ASSUME n - (k + 1) \in 1..n PROVE f[n - (k + 1)] <= n - (k + 1)
    OBVIOUS
  <2>1. n - k \in 1..n /\ n - (k + 1) < n - k
    OBVIOUS
  <2>2. f[n - k] <= n - k
    BY <1>3, <2>1
  <2>3. f[n - (k + 1)] < f[n - k] /\ f[n - (k + 1)] \in 1..n /\ f[n - k] \in 1..n
    BY <2>1
  <2> QED BY <2>2, <2>3
<1>4. Nat \subseteq Low /\ Nat \subseteq High
  <2> HIDE DEF Low, High
  <2> QED BY <1>1, <1>2, <1>3, SetInduction
<1>5. ASSUME NEW i \in 1..n PROVE f[i] = i
  <2>1. i \in Nat /\ n - i \in Nat /\ n - (n - i) = i
    OBVIOUS
  <2>2. f[i] >= i
    BY <1>4, <2>1
  <2>3. f[n - (n - i)] <= n - (n - i)
    BY <1>4, <2>1
  <2> QED BY <2>1, <2>2, <2>3
<1> QED BY <1>5

\* An answer for each of n events, in their order.
LEMMA SortedAre ==
  ASSUME NEW n \in Nat, NEW answers, NEW batch, \A r \in answers : r.event \in 1..n,
         \A i \in 1..n : \E r \in answers : r.event = i,
         \A r, u \in answers : r.event = u.event => r = u
  PROVE  LET s == Sorted(batch, answers)
         IN /\ DOMAIN s = 1..n /\ Len(s) = n /\ s \in [1..n -> answers]
            /\ \A i \in 1..n : s[i] \in answers /\ s[i].event = i
<1> DEFINE At(i) == CHOOSE r \in answers : r.event = i
           t == [i \in 1..n |-> At(i)]
           Ascends(s) == \A i, j \in DOMAIN s : i < j => s[i].event < s[j].event
<1>1. \A i \in 1..n : At(i) \in answers /\ At(i).event = i
  OBVIOUS
<1>2. t \in [1..n -> answers] /\ \A i \in 1..n : t[i] \in answers /\ t[i].event = i
  BY <1>1
<1> HIDE DEF At, t
<1>3. Cardinality(answers) = n
  <2>1. t \in Bijection(1..n, answers)
    <3>1. \A i, j \in 1..n : t[i] = t[j] => i = j
      BY <1>2
    <3>2. \A r \in answers : \E i \in 1..n : t[i] = r
      BY <1>2
    <3>3. t \in Injection(1..n, answers)
      BY <1>2, <3>1 DEF Injection, IsInjective
    <3>4. t \in Surjection(1..n, answers)
      BY <1>2, <3>2 DEF Surjection
    <3> QED BY <3>3, <3>4 DEF Bijection
  <2> QED BY <2>1, FS_CountingElements DEF ExistsBijection
<1>4. t \in [1..Cardinality(answers) -> answers] /\ Ascends(t)
  BY <1>2, <1>3
<1> DEFINE s == Sorted(batch, answers)
<1>5. s = CHOOSE x \in [1..Cardinality(answers) -> answers] : Ascends(x)
  BY DEF Sorted, Ordered
<1>6. s \in [1..Cardinality(answers) -> answers] /\ Ascends(s)
  <2> HIDE DEF s, Ascends
  <2> QED BY <1>4, <1>5
<1> HIDE DEF s
<1>7. s \in [1..n -> answers] /\ \A i, j \in 1..n : i < j => s[i].event < s[j].event
  BY <1>3, <1>6
<1>8. \A i \in 1..n : s[i].event = i
  <2> DEFINE f == [i \in 1..n |-> s[i].event]
  <2>1. \A i \in 1..n : f[i] \in 1..n
    BY <1>7
  <2>2. \A i, j \in 1..n : i < j => f[i] < f[j]
    BY <1>7
  <2> HIDE DEF f
  <2>3. \A i \in 1..n : f[i] = i
    BY <2>1, <2>2, Ascending
  <2> QED BY <2>3 DEF f
<1>9. DOMAIN s = 1..n /\ Len(s) = n /\ \A i \in 1..n : s[i] \in answers
  BY <1>7
<1> QED BY <1>7, <1>8, <1>9 DEF s

\* What a commit has been told so far, when these sequences have not answered.
Answering(commit, unanswered) ==
  /\ \A r \in commit.answers :
       /\ r.event \in DOMAIN events /\ events[r.event].sequence \notin unanswered
       /\ r.success <=> \E w \in written : w.event = r.event /\ w.commit = commit.number
  /\ \A i \in DOMAIN events : events[i].sequence \notin unanswered => \E r \in commit.answers : r.event = i
  /\ \A r, u \in commit.answers : r.event = u.event => r = u
  /\ \A w \in written : w.commit = commit.number =>
       w.event \in DOMAIN events /\ events[w.event].sequence \notin unanswered

ResultTypes == results \in Seq(Result) /\ committed \in BOOLEAN /\ rolledBack \in BOOLEAN /\ faults \in Nat

ResultInv ==
  /\ ResultTypes
  /\ \A c \in Callers : call[c].state = "awaiting" =>
       /\ ~Completed /\ call[c].number = commits /\ call[c].at \notin call[c].todo
       /\ Answering(call[c], call[c].todo \cup {call[c].at})
  /\ ResultsMatchEvents

\* A commit that goes on awaits the next answer, or has them all.
LEMMA NextAnswer ==
  ASSUME UnitTypes, NEW commit \in CallState, Validated(commit)
  PROVE  LET next == Continued(commit)
         IN /\ next.number = commit.number /\ next.answers = commit.answers
            /\ next.state = "awaiting" =>
                 next.at \notin next.todo /\ next.todo \cup {next.at} = commit.todo
            /\ next.state = "done" <=> commit.todo = {}
<1> DEFINE next == Continued(commit)
<1>1. CASE commit.todo = {}
  <2>1. next = [commit EXCEPT !.state = "done", !.at = "none"]
    BY <1>1 DEF Continued
  <2> HIDE DEF next
  <2>2. next.number = commit.number /\ next.answers = commit.answers /\ next.state = "done"
    BY <2>1 DEF CallState
  <2> QED BY <1>1, <2>2 DEF next
<1>2. CASE commit.todo # {}
  <2> DEFINE q == FirstOf(commit.batch, commit.todo)
  <2>1. q \in commit.todo /\ q \in SequenceIds
    BY <1>2, FirstIsOneOf, SequencesAreKnown DEF UnitTypes, Validated
  <2>2. ~Refused(commit.batch, GroupOf(commit.batch, q), scopes[q])
    BY <2>1, NoneIsRefused DEF Validated
  <2>3. next = [commit EXCEPT !.state = "awaiting", !.at = q, !.sent = scopes[q], !.todo = commit.todo \ {q}]
    BY <1>2, <2>2 DEF Continued
  <2> HIDE DEF q, next
  <2>4. /\ next.state = "awaiting" /\ next.at = q /\ next.todo = commit.todo \ {q}
        /\ next.number = commit.number /\ next.answers = commit.answers
    BY <2>3 DEF CallState
  <2>5. next.todo \cup {next.at} = commit.todo
    BY <2>1, <2>4
  <2> QED BY <1>2, <2>4, <2>5 DEF next
<1> QED BY <1>1, <1>2

\* When it has them all, they are the results.
LEMMA AllAnswered ==
  ASSUME events' \in Seq(Enrolments), NEW commit, Answering(commit, {})', commit.number = commits',
         NEW batch, results' = Sorted(batch, commit.answers), commit.answers \subseteq Result
  PROVE  ResultsMatchEvents' /\ results' \in Seq(Result)
<1>1. PICK n \in Nat : n = Len(events') /\ DOMAIN events' = 1..n
  OBVIOUS
<1>2. /\ \A r \in commit.answers : r.event \in 1..n
      /\ \A i \in 1..n : \E r \in commit.answers : r.event = i
      /\ \A r, u \in commit.answers : r.event = u.event => r = u
  BY <1>1 DEF Answering
<1>3. /\ DOMAIN results' = 1..n /\ Len(results') = n /\ results' \in [1..n -> commit.answers]
      /\ \A i \in 1..n : results'[i] \in commit.answers /\ results'[i].event = i
  <2>1. PICK answers : answers = commit.answers
    OBVIOUS
  <2>2. LET s == Sorted(batch, answers)
        IN /\ DOMAIN s = 1..n /\ Len(s) = n /\ s \in [1..n -> answers]
           /\ \A i \in 1..n : s[i] \in answers /\ s[i].event = i
    BY <1>2, <2>1, SortedAre
  <2> QED BY <2>1, <2>2
<1>4. results' \in Seq(Result)
  <2>1. results' \in [1..n -> Result]
    BY <1>3
  <2> QED BY <2>1
<1>5. ResultsMatchEvents'
  BY <1>1, <1>3 DEF Answering, ResultsMatchEvents
<1> QED BY <1>4, <1>5

\* A commit goes on by itself.
LEMMA GoOnKeeps ==
  ASSUME UnitInv, ResultTypes, NEW c \in Callers, NEW commit \in CallState, GoOn(c, commit), ~Completed,
         \A d \in Callers \ {c} : call[d].state # "awaiting",
         UNCHANGED <<events, scopes, rolledBack, faults>>, commit.number = commits',
         Validated(commit), Answering(commit, commit.todo)'
  PROVE  ResultInv'
<1>0. UnitTypes /\ events \in Seq(Enrolments) /\ call \in [Callers -> CallState]
  BY DEF UnitInv, UnitTypes
<1>1. PICK next : next = Continued(commit)
  OBVIOUS
<1>2. /\ next \in CallState /\ next.number = commit.number /\ next.answers = commit.answers
      /\ next.state \in {"done", "awaiting"}
      /\ next.state = "awaiting" => next.at \notin next.todo /\ next.todo \cup {next.at} = commit.todo
      /\ next.state = "done" <=> commit.todo = {}
  <2>1. /\ next \in CallState /\ next.state \in {"done", "awaiting"}
    BY <1>0, <1>1, GoesOn
  <2>3. /\ next.number = commit.number /\ next.answers = commit.answers
        /\ next.state = "awaiting" => next.at \notin next.todo /\ next.todo \cup {next.at} = commit.todo
        /\ next.state = "done" <=> commit.todo = {}
    BY <1>0, <1>1, NextAnswer
  <2> QED BY <2>1, <2>3
<1>3. /\ call'[c] = next /\ \A d \in Callers \ {c} : call'[d].state # "awaiting"
      /\ committed' = (next.state = "done")
      /\ results' = IF next.state = "done" THEN Sorted(next.batch, next.answers) ELSE results
  BY <1>0, <1>1 DEF GoOn, Completed
<1>4. ASSUME next.state = "awaiting" PROVE ResultInv'
  <2>1. Answering(next, next.todo \cup {next.at})'
    BY <1>2, <1>4 DEF Answering
  <2>2. ~Completed'
    <3>1. ~rolledBack'
      BY DEF Completed
    <3>2. next.state # "done"
      BY <1>4
    <3>3. ~committed'
      BY <1>3, <3>2
    <3> QED BY <3>1, <3>3 DEF Completed
  <2>3. ResultsMatchEvents'
    BY <2>2 DEF ResultsMatchEvents, Completed
  <2>4. \A d \in Callers : call'[d].state = "awaiting" => d = c /\ call'[d] = next
    BY <1>3
  <2>5. ResultTypes'
    BY <1>3, <1>4 DEF ResultTypes
  <2> QED BY <1>2, <1>4, <2>1, <2>2, <2>3, <2>4, <2>5 DEF ResultInv
<1>5. ASSUME next.state = "done" PROVE ResultInv'
  <2>1. Answering(next, {})'
    BY <1>2, <1>5 DEF Answering
  <2>2. \A d \in Callers : call'[d].state # "awaiting"
    BY <1>3, <1>5
  <2>3. PICK batch : batch = next.batch
    OBVIOUS
  <2>4. results' = Sorted(batch, next.answers) /\ next.number = commits' /\ events' \in Seq(Enrolments)
    BY <1>0, <1>2, <1>3, <1>5, <2>3
  <2>5. next.answers \subseteq Result
    BY <1>2 DEF CallState
  <2>6. ResultsMatchEvents' /\ results' \in Seq(Result)
    BY <2>1, <2>4, <2>5, AllAnswered
  <2>7. ResultTypes'
    BY <1>3, <2>6 DEF ResultTypes
  <2> QED BY <2>2, <2>6, <2>7 DEF ResultInv
<1> QED BY <1>2, <1>4, <1>5

LEMMA ResultStart == Init => ResultInv
<1> SUFFICES ASSUME Init PROVE ResultInv
  OBVIOUS
<1>1. \A c \in Callers : call[c].state = "idle"
  BY DEF Init
<1>2. ResultTypes
  <2>1. results = <<>> /\ faults = MaxFaults /\ MaxFaults \in Nat
    BY UnitOfWorkAssumption DEF Init
  <2>2. committed \in BOOLEAN /\ rolledBack \in BOOLEAN
    BY DEF Init
  <2>3. results \in Seq(Result) /\ faults \in Nat
    BY <2>1
  <2> QED BY <2>2, <2>3 DEF ResultTypes
<1> QED BY <1>1, <1>2 DEF Init, ResultInv, ResultsMatchEvents

\* A commit begins, or returns at once.
LEMMA CommitResult ==
  ASSUME ~Overlap, UnitInv, ResultInv, NEW c \in Callers, Commit(c)
  PROVE  ResultInv'
<1>1. /\ ~Completed /\ \A d \in Callers : call[d].state # "awaiting"
      /\ commits' = commits + 1 /\ UNCHANGED <<events, scopes, rolledBack, written, faults>>
      /\ ResultTypes
  BY DEF Commit, MayBeCalled, InFlight, ResultInv
<1>2. UnitTypes /\ commits \in Nat /\ events \in Seq(Enrolments) /\ call[c] \in CallState /\ call \in [Callers -> CallState]
  BY DEF UnitInv, UnitTypes
<1>3. PICK begun \in CallState :
        /\ begun = [call[c] EXCEPT !.number = commits + 1, !.batch = events,
                                   !.todo = {events[i].sequence : i \in DOMAIN events},
                                   !.at = "none", !.answers = {}]
        /\ begun.number = commits + 1 /\ begun.batch = events /\ begun.todo = SequencesOf(events) /\ begun.answers = {}
  <2> DEFINE begun == [call[c] EXCEPT !.number = commits + 1, !.batch = events,
                                   !.todo = {events[i].sequence : i \in DOMAIN events},
                                   !.at = "none", !.answers = {}]
  <2>1. {events[i].sequence : i \in DOMAIN events} \in SUBSET SequenceIds
    BY <1>2, SequencesAreKnown DEF SequencesOf
  <2>2. commits + 1 \in Nat
    BY <1>2
  <2>3. /\ begun \in CallState
        /\ begun.number = commits + 1 /\ begun.batch = events /\ begun.todo = SequencesOf(events) /\ begun.answers = {}
    BY <1>2, <2>1, <2>2 DEF CallState, SequencesOf
  <2> QED BY <2>3
<1>4. CASE RefusedUpFront(events, scopes)
  <2>1. call' = [call EXCEPT ![c] = [begun EXCEPT !.state = "refused"]] /\ UNCHANGED <<committed, results>>
    BY <1>3, <1>4 DEF Commit
  <2>2. \A d \in Callers : call'[d].state # "awaiting"
    BY <1>1, <1>2, <2>1 DEF CallState
  <2>3. ResultsMatchEvents'
    BY <1>1, <2>1 DEF ResultsMatchEvents, Completed
  <2>4. ResultTypes'
    BY <1>1, <2>1 DEF ResultTypes
  <2> QED BY <2>2, <2>3, <2>4 DEF ResultInv
<1>5. CASE ~RefusedUpFront(events, scopes)
  <2>1. GoOn(c, begun)
    BY <1>3, <1>5 DEF Commit
  <2>2. Validated(begun)
    BY <1>3, <1>5 DEF Validated
  <2>3. Answering(begun, begun.todo)'
    <3>1. \A w \in written' : w.commit # commits + 1
      BY <1>1, <1>2 DEF UnitInv, Numbered, UnitTypes, Written
    <3>2. \A i \in DOMAIN events' : events'[i].sequence \in begun.todo
      BY <1>1, <1>3 DEF SequencesOf
    <3> QED BY <1>3, <3>1, <3>2 DEF Answering
  <2> QED BY <1>1, <1>3, <2>1, <2>2, <2>3, GoOnKeeps
<1> QED BY <1>4, <1>5

\* The append to a sequence answers: its results take the places of its events.
LEMMA AnsweredResult ==
  ASSUME UnitInv, ResultInv, NEW c \in Callers, Answered(c)
  PROVE  ResultInv'
<1>1. call[c].state = "awaiting" /\ UNCHANGED <<events, scopes, rolledBack, commits, faults>> /\ ResultTypes
  BY DEF Answered, ResultInv
<1>2. /\ call[c] \in CallState /\ Validated(call[c]) /\ UnitTypes /\ events \in Seq(Enrolments) /\ Sending(call[c])
      /\ \A d \in Callers \ {c} : call[d].state # "awaiting"
  BY <1>1 DEF UnitInv, UnitTypes, Awaited, OneCommit
<1>3. PICK x \in CallState : /\ x = call[c] /\ x.batch = events /\ x.at \in SequenceIds /\ x.number = commits
                             /\ x.at \notin x.todo /\ Answering(x, x.todo \cup {x.at}) /\ ~Completed
  BY <1>1, <1>2 DEF ResultInv, Validated, Sending
<1>4. PICK group : group = GroupOf(x.batch, x.at) /\ group \subseteq DOMAIN events
                   /\ \A i \in DOMAIN events : i \in group <=> events[i].sequence = x.at
  <2>1. x.batch = events
    BY <1>3
  <2>2. /\ GroupOf(x.batch, x.at) \subseteq DOMAIN events
        /\ \A i \in DOMAIN events : i \in GroupOf(x.batch, x.at) <=> events[i].sequence = x.at
    BY <2>1 DEF GroupOf
  <2> QED BY <2>2
<1>5. PICK success \in BOOLEAN :
        /\ written' = IF success THEN written \cup Writes(c) ELSE written
        /\ GoOn(c, [call[c] EXCEPT !.answers = @ \cup {[event |-> i, success |-> success] : i \in group}])
  BY <1>3, <1>4 DEF Answered
<1> DEFINE new == {[event |-> i, success |-> success] : i \in group}
<1>6. new \subseteq Result /\ \A r \in new : r.event \in group /\ r.success = success
  BY <1>2, <1>4 DEF Result
<1>7. ASSUME NEW i \in group PROVE \E r \in new : r.event = i
  <2>1. [event |-> i, success |-> success] \in new
    OBVIOUS
  <2>2. [event |-> i, success |-> success].event = i
    OBVIOUS
  <2> HIDE DEF new
  <2> QED BY <2>1, <2>2
<1>8. \A r, u \in new : r.event = u.event => r = u
  OBVIOUS
<1>9. PICK commit \in CallState :
        /\ GoOn(c, commit) /\ commit.answers = x.answers \cup new /\ commit.todo = x.todo
        /\ commit.number = x.number /\ commit.batch = x.batch
  <2> DEFINE commit == [x EXCEPT !.answers = x.answers \cup new]
  <2>1. GoOn(c, commit)
    BY <1>3, <1>5
  <2> HIDE DEF new
  <2>2. /\ commit \in CallState /\ commit.answers = x.answers \cup new /\ commit.todo = x.todo
        /\ commit.number = x.number /\ commit.batch = x.batch
    BY <1>6 DEF CallState
  <2> HIDE DEF commit
  <2> QED BY <2>1, <2>2
<1> HIDE DEF new
<1>10. \A w \in Writes(c) : w.commit = x.number /\ w.event \in group
  BY <1>3, <1>4 DEF Writes
<1>11. ASSUME NEW i \in group PROVE \E w \in Writes(c) : w.commit = x.number /\ w.event = i
  <2> DEFINE w == [commit |-> call[c].number, event |-> i, enrolled |-> call[c].batch[i],
                   scope |-> call[c].sent[call[c].batch[i].source]]
  <2>1. w \in Writes(c)
    BY <1>3, <1>4 DEF Writes
  <2>2. w.commit = x.number /\ w.event = i
    BY <1>3
  <2> HIDE DEF w
  <2> QED BY <2>1, <2>2
<1>12. Answering(commit, commit.todo)'
  <2>1. \A w \in written' : w \in written \/ (success /\ w \in Writes(c))
    BY <1>5
  <2>2. \A w \in written : w \in written'
    BY <1>5
  <2>3. \A i \in DOMAIN events' : i \in group \/ events[i].sequence # x.at
    BY <1>1, <1>4
  <2>4. ASSUME NEW r \in x.answers
        PROVE  /\ r.event \in DOMAIN events' /\ events'[r.event].sequence \notin x.todo /\ r.event \notin group
               /\ r.success <=> \E w \in written' : w.event = r.event /\ w.commit = x.number
    <3>1. /\ r.event \in DOMAIN events /\ events[r.event].sequence \notin x.todo \cup {x.at}
          /\ r.success <=> \E w \in written : w.event = r.event /\ w.commit = x.number
      BY <1>3 DEF Answering
    <3>2. r.event \notin group
      BY <1>4, <3>1
    <3> QED BY <1>1, <1>10, <2>1, <2>2, <3>1, <3>2
  <2>5. ASSUME NEW r \in new
        PROVE  /\ r.event \in DOMAIN events' /\ events'[r.event].sequence \notin x.todo /\ r.event \in group
               /\ r.success <=> \E w \in written' : w.event = r.event /\ w.commit = x.number
    <3>1. r.event \in group /\ r.success = success
      BY <1>6
    <3>2. r.event \in DOMAIN events' /\ events'[r.event].sequence = x.at
      BY <1>1, <1>4, <3>1
    <3>3. \A w \in written : ~(w.event = r.event /\ w.commit = x.number)
      BY <1>1, <1>3, <3>2 DEF Answering
    <3>4. CASE success
      BY <1>3, <1>5, <1>11, <3>1, <3>2, <3>4
    <3>5. CASE ~success
      BY <1>3, <1>5, <3>1, <3>2, <3>3, <3>5
    <3> QED BY <3>4, <3>5
  <2>6. \A i \in DOMAIN events' : events'[i].sequence \notin x.todo => \E r \in x.answers \cup new : r.event = i
    BY <1>1, <1>3, <1>7, <2>3 DEF Answering
  <2>7. \A r, u \in x.answers \cup new : r.event = u.event => r = u
    <3>1. \A r, u \in x.answers : r.event = u.event => r = u
      BY <1>3 DEF Answering
    <3> QED BY <1>8, <2>4, <2>5, <3>1
  <2>8. \A w \in written' : w.commit = x.number => w.event \in DOMAIN events' /\ events'[w.event].sequence \notin x.todo
    <3> SUFFICES ASSUME NEW w \in written', w.commit = x.number
                 PROVE  w.event \in DOMAIN events' /\ events'[w.event].sequence \notin x.todo
      OBVIOUS
    <3>1. CASE w \in written
      BY <1>1, <1>3, <3>1 DEF Answering
    <3>2. CASE w \in Writes(c)
      BY <1>1, <1>3, <1>4, <1>10, <3>2
    <3> QED BY <2>1, <3>1, <3>2
  <2> QED BY <1>9, <2>4, <2>5, <2>6, <2>7, <2>8 DEF Answering
<1>13. Validated(commit)
  BY <1>2, <1>3, <1>9 DEF Validated
<1>14. commit.number = commits'
  BY <1>1, <1>3, <1>9
<1> QED BY <1>1, <1>2, <1>3, <1>9, <1>12, <1>13, <1>14, GoOnKeeps

\* The append to a sequence throws.
LEMMA FailsResult ==
  ASSUME UnitInv, ResultInv, NEW c \in Callers, AppendFails(c)
  PROVE  ResultInv'
<1>1. /\ call[c].state = "awaiting" /\ UNCHANGED <<committed, rolledBack>>
      /\ call' = [call EXCEPT ![c].state = "failed", ![c].at = "none"]
  BY DEF AppendFails
<1>2. call \in [Callers -> CallState] /\ \A d \in Callers \ {c} : call[d].state # "awaiting"
  BY <1>1 DEF UnitInv, UnitTypes, OneCommit
<1>3. \A d \in Callers : call'[d].state # "awaiting"
  BY <1>1, <1>2 DEF CallState
<1>4. ~committed'
  BY <1>1 DEF ResultInv, Completed
<1>5. ResultTypes'
  <2>1. faults \in Nat /\ faults > 0 /\ faults' = faults - 1 /\ results' = results
    BY DEF AppendFails, ResultInv, ResultTypes
  <2>2. faults' \in Nat
    BY <2>1
  <2> QED BY <1>1, <2>1, <2>2 DEF ResultInv, ResultTypes
<1> QED BY <1>3, <1>4, <1>5 DEF ResultInv, ResultsMatchEvents

\* The other steps, none of which a unit takes while its commit is under way.
LEMMA UsedResult ==
  ASSUME ~Overlap, UnitInv, ResultInv, (\E e \in Enrolments : AddEvent(e)) \/ Rollback
  PROVE  ResultInv'
<1>1. MayBeCalled /\ UNCHANGED <<call, committed>>
  BY DEF AddEvent, Rollback
<1>2. ~committed /\ \A d \in Callers : call[d].state # "awaiting"
  BY <1>1 DEF MayBeCalled, InFlight, Completed
<1>3. ~committed' /\ \A d \in Callers : call'[d].state # "awaiting"
  BY <1>1, <1>2
<1>4. ResultTypes'
  <2>1. results' \in {results, <<>>} /\ rolledBack' \in {rolledBack, TRUE} /\ faults' = faults
    BY DEF AddEvent, Rollback
  <2>2. <<>> \in Seq(Result)
    OBVIOUS
  <2> QED BY <1>1, <2>1, <2>2 DEF ResultInv, ResultTypes
<1> QED BY <1>3, <1>4 DEF ResultInv, ResultsMatchEvents

LEMMA ResultStep ==
  ASSUME ~Overlap, UnitInv, ResultInv, [Next]_vars
  PROVE  ResultInv'
<1>1. CASE UNCHANGED vars
  BY <1>1 DEF vars, ResultInv, ResultTypes, Answering, Completed, ResultsMatchEvents
<1> QED BY <1>1, UsedResult, CommitResult, AnsweredResult, FailsResult DEF Next

\* After a commit, of however many sequences that answered in whatever way, appendResults
\* has one result for each event, at the place of the event, and it is a success exactly
\* when that commit wrote the event (UnitOfWork.commit).
THEOREM ResultsAreOfTheEvents ==
  ASSUME ~Overlap
  PROVE  Spec => []ResultsMatchEvents
<1>1. ResultInv => ResultsMatchEvents
  BY DEF ResultInv
<1> QED BY <1>1, ResultStart, ResultStep, UnitInvariant, PTL DEF Spec

\* And so the variables of the unit of work keep their types (UnitOfWork.ts).
THEOREM UnitTypeCorrect ==
  ASSUME ~Overlap
  PROVE  Spec => []TypeOK
<1>1. UnitInv /\ ResultInv => TypeOK
  BY DEF UnitInv, UnitTypes, ResultInv, ResultTypes, TypeOK
<1> QED BY <1>1, ResultStart, ResultStep, UnitInvariant, PTL DEF Spec

-----------------------------------------------------------------------------
(* The units of work of a store: the inductive invariant. *)

UnitState == [correlation : Correlations, filled : BOOLEAN, completed : BOOLEAN]

\* A unit is registered under its own id only.
OwnRegistration ==
  \A id \in Correlations : found[id] # NoUnit => found[id] \in Units /\ units[found[id]].correlation = id

\* Of an id that was not given away while it was in use, one unit is.
OneInUse ==
  \A u, v \in Units :
    units[u].correlation = units[v].correlation /\ units[u].correlation \notin reused /\ InUse(u) /\ InUse(v)
      => u = v

RevivedWereCompleted == \A u \in revived : units[u].completed

ManagerInv == ManagerTypeOK /\ OwnRegistration /\ OneInUse /\ RevivedWereCompleted /\ FoundWhileOpen

\* Units are numbered as they begin.
LEMMA UnitNumbers ==
  ASSUME ManagerTypeOK
  PROVE  /\ units \in Seq(UnitState) /\ Units = 1..Len(units) /\ Len(units) \in Nat /\ NoUnit \notin Units
         /\ \A u \in Units : u \in Nat /\ units[u] \in UnitState
<1>1. units \in Seq(UnitState)
  BY DEF ManagerTypeOK, UnitState
<1>2. Units = 1..Len(units) /\ Len(units) \in Nat /\ \A u \in Units : units[u] \in UnitState
  BY <1>1 DEF Units
<1> QED BY <1>1, <1>2, ManagerAssumption

LEMMA ManagerStart == ManagerInit => ManagerInv
<1> SUFFICES ASSUME ManagerInit PROVE ManagerInv
  OBVIOUS
<1>1. Units = {} /\ units = <<>>
  BY DEF ManagerInit, Units
<1>2. ManagerTypeOK
  BY <1>1 DEF ManagerInit, ManagerTypeOK
<1> QED BY <1>1, <1>2 DEF ManagerInit, ManagerInv, OwnRegistration, OneInUse, RevivedWereCompleted, FoundWhileOpen

\* A unit begins, with an id of its own or one that was given.
LEMMA BeginStep ==
  ASSUME ManagerInv, NEW c \in Contexts, NEW id \in Correlations, Begin(c, id)
  PROVE  ManagerInv'
<1> DEFINE n == Len(units) + 1
           new == [correlation |-> id, filled |-> FALSE, completed |-> FALSE]
<1>1. /\ units \in Seq(UnitState) /\ Units = 1..Len(units) /\ Len(units) \in Nat /\ NoUnit \notin Units
      /\ \A u \in Units : u \in Nat /\ units[u] \in UnitState
  BY UnitNumbers DEF ManagerInv
<1>2. new \in UnitState
  BY DEF UnitState
<1>3. /\ units' \in Seq(UnitState) /\ Len(units') = n /\ Units' = Units \cup {n} /\ n \notin Units /\ n \in Nat
      /\ units'[n] = new /\ \A u \in Units : units'[u] = units[u]
  BY <1>1, <1>2 DEF Begin, Units
<1>4. /\ current' = [current EXCEPT ![c] = n] /\ found' = [found EXCEPT ![id] = n]
      /\ committing' = committing /\ revived' = revived
  BY <1>3 DEF Begin, Enter
<1>5. \A v \in Units : InUse(v)' <=> InUse(v)
  BY <1>3, <1>4 DEF InUse
<1>6. reused' = IF \E v \in Units : units[v].correlation = id /\ InUse(v) THEN reused \cup {id} ELSE reused
  BY <1>3 DEF Begin, Enter
<1>7. ManagerTypeOK'
  BY <1>1, <1>3, <1>4, <1>6 DEF ManagerInv, ManagerTypeOK, UnitState
<1>8. OwnRegistration' /\ RevivedWereCompleted'
  <2>1. found \in [Correlations -> Units \cup {NoUnit}] /\ revived \subseteq Units
    BY DEF ManagerInv, ManagerTypeOK
  <2>2. OwnRegistration'
    BY <1>1, <1>3, <1>4, <2>1 DEF ManagerInv, OwnRegistration
  <2> QED BY <1>3, <1>4, <2>1, <2>2 DEF ManagerInv, RevivedWereCompleted
<1>9. OneInUse'
  BY <1>3, <1>4, <1>5, <1>6 DEF ManagerInv, OneInUse
<1>10. FoundWhileOpen'
  <2> SUFFICES ASSUME NEW u \in Units', units'[u].correlation \notin reused', u \notin revived'
               PROVE  found'[units'[u].correlation] = u <=> ~units'[u].completed
    BY DEF FoundWhileOpen
  <2>1. found \in [Correlations -> Units \cup {NoUnit}]
    BY DEF ManagerInv, ManagerTypeOK
  <2>2. CASE u = n
    BY <1>3, <1>4, <2>1, <2>2
  <2>3. CASE u \in Units
    <3>1. found[units[u].correlation] = u <=> ~units[u].completed
      BY <1>3, <1>4, <1>6, <2>3 DEF ManagerInv, FoundWhileOpen
    <3>2. units[u].correlation = id => units[u].completed
      BY <1>3, <1>6, <2>3 DEF InUse
    <3>3. units[u].correlation \in Correlations
      BY <1>1, <2>3 DEF UnitState
    <3> QED BY <1>3, <1>4, <2>1, <2>3, <3>1, <3>2, <3>3
  <2> QED BY <1>3, <2>2, <2>3
<1> QED BY <1>7, <1>8, <1>9, <1>10 DEF ManagerInv

\* A unit is made current, completed or not.
LEMMA SetCurrentStep ==
  ASSUME ManagerInv, NEW c \in Contexts, NEW u \in Units, SetCurrent(c, u)
  PROVE  ManagerInv'
<1> DEFINE id == units[u].correlation
<1>1. /\ units \in Seq(UnitState) /\ Units = 1..Len(units) /\ Len(units) \in Nat /\ NoUnit \notin Units
      /\ \A v \in Units : v \in Nat /\ units[v] \in UnitState
  BY UnitNumbers DEF ManagerInv
<1>2. /\ units' = units /\ Units' = Units /\ committing' = committing /\ id \in Correlations
      /\ current' = [current EXCEPT ![c] = u] /\ found' = [found EXCEPT ![id] = u]
      /\ reused' = (IF \E v \in Units \ {u} : units[v].correlation = id /\ InUse(v) THEN reused \cup {id} ELSE reused)
      /\ revived' = (IF units[u].completed THEN revived \cup {u} ELSE revived)
  BY <1>1 DEF SetCurrent, Enter, Units, InUse, UnitState
<1>3. \A v \in Units : InUse(v)' <=> InUse(v)
  BY <1>2 DEF InUse
<1>4. ManagerTypeOK'
  BY <1>2 DEF ManagerInv, ManagerTypeOK
<1>5. OwnRegistration' /\ RevivedWereCompleted'
  BY <1>2 DEF ManagerInv, ManagerTypeOK, OwnRegistration, RevivedWereCompleted
<1>6. OneInUse'
  BY <1>2, <1>3 DEF ManagerInv, OneInUse
<1>7. FoundWhileOpen'
  <2> SUFFICES ASSUME NEW v \in Units, units[v].correlation \notin reused', v \notin revived'
               PROVE  found'[units[v].correlation] = v <=> ~units[v].completed
    BY <1>2 DEF FoundWhileOpen
  <2>1. found[units[v].correlation] = v <=> ~units[v].completed
    BY <1>2 DEF ManagerInv, FoundWhileOpen
  <2>2. v # u /\ units[v].correlation = id => units[v].completed
    BY <1>2 DEF InUse
  <2>3. v = u => ~units[v].completed
    BY <1>2
  <2>4. found \in [Correlations -> Units \cup {NoUnit}] /\ units[v].correlation \in Correlations
    BY <1>1 DEF ManagerInv, ManagerTypeOK, UnitState
  <2> QED BY <1>2, <2>1, <2>2, <2>3, <2>4
<1> QED BY <1>4, <1>5, <1>6, <1>7 DEF ManagerInv

\* A unit completes, alone in its use of the id, and is no longer registered.
LEMMA CompletesStep ==
  ASSUME ManagerInv, NEW u \in Units, NEW c \in Contexts, Completes(c, u), InUse(u),
         committing' \subseteq committing, UNCHANGED <<reused, revived>>,
         current' \in [Contexts -> Units \cup {NoUnit}]
  PROVE  ManagerInv'
<1> DEFINE id == units[u].correlation
<1>1. /\ units \in Seq(UnitState) /\ Units = 1..Len(units) /\ Len(units) \in Nat /\ NoUnit \notin Units
      /\ \A v \in Units : v \in Nat /\ units[v] \in UnitState
  BY UnitNumbers DEF ManagerInv
<1>2. /\ units' = [units EXCEPT ![u].completed = TRUE] /\ found' = [found EXCEPT ![id] = NoUnit]
      /\ id \in Correlations
  BY <1>1 DEF Completes, Removed, UnitState
<1>3. /\ units' \in Seq(UnitState) /\ Units' = Units /\ units'[u].completed
      /\ \A v \in Units : units'[v].correlation = units[v].correlation /\ (v # u => units'[v] = units[v])
  <2>1. [units[u] EXCEPT !.completed = TRUE] \in UnitState
    BY <1>1 DEF UnitState
  <2>2. units' = [units EXCEPT ![u] = [units[u] EXCEPT !.completed = TRUE]]
    BY <1>2
  <2>3. units' \in Seq(UnitState) /\ DOMAIN units' = DOMAIN units
    BY <1>1, <2>1, <2>2
  <2>4. units'[u] = [units[u] EXCEPT !.completed = TRUE] /\ \A v \in Units : v # u => units'[v] = units[v]
    BY <1>1, <2>2 DEF Units
  <2> QED BY <1>1, <2>3, <2>4 DEF Units, UnitState
<1>4. \A v \in Units : InUse(v)' => InUse(v)
  BY <1>3 DEF InUse
<1>5. found \in [Correlations -> Units \cup {NoUnit}]
  BY DEF ManagerInv, ManagerTypeOK
<1>6. ManagerTypeOK'
  BY <1>2, <1>3, <1>5 DEF ManagerInv, ManagerTypeOK, UnitState
<1>7. OwnRegistration' /\ RevivedWereCompleted'
  <2>1. OwnRegistration'
    BY <1>2, <1>3, <1>5 DEF ManagerInv, OwnRegistration
  <2>2. revived \subseteq Units
    BY DEF ManagerInv, ManagerTypeOK
  <2> QED BY <1>3, <2>1, <2>2 DEF ManagerInv, RevivedWereCompleted
<1>8. OneInUse'
  BY <1>3, <1>4 DEF ManagerInv, OneInUse
<1>9. FoundWhileOpen'
  <2> SUFFICES ASSUME NEW v \in Units, units[v].correlation \notin reused, v \notin revived
               PROVE  found'[units[v].correlation] = v <=> ~units'[v].completed
    BY <1>3 DEF FoundWhileOpen
  <2>1. found[units[v].correlation] = v <=> ~units[v].completed
    BY DEF ManagerInv, FoundWhileOpen
  <2>2. v # u /\ units[v].correlation = id => units[v].completed
    BY DEF ManagerInv, OneInUse, InUse
  <2>3. units[v].correlation \in Correlations /\ v # NoUnit
    BY <1>1 DEF UnitState
  <2> QED BY <1>2, <1>3, <1>5, <2>1, <2>2, <2>3
<1> QED BY <1>6, <1>7, <1>8, <1>9 DEF ManagerInv

LEMMA ManagerStep ==
  ASSUME ManagerInv, [ManagerNext]_managerVars
  PROVE  ManagerInv'
<1>1. ASSUME NEW c \in Contexts, NEW id \in Correlations, Begin(c, id) PROVE ManagerInv'
  BY <1>1, BeginStep
<1>2. ASSUME NEW c \in Contexts, NEW u \in Units, SetCurrent(c, u) PROVE ManagerInv'
  BY <1>2, SetCurrentStep
<1>3. ASSUME NEW c \in Contexts, NEW u \in Units, CompleteAtOnce(c, u) PROVE ManagerInv'
  <2>1. current' \in [Contexts -> Units \cup {NoUnit}]
    BY <1>3 DEF CompleteAtOnce, ManagerInv, ManagerTypeOK
  <2> QED BY <1>3, <2>1, CompletesStep DEF CompleteAtOnce, InUse
<1>4. ASSUME NEW c \in Contexts, NEW u \in Units, CommitEnds(c, u) PROVE ManagerInv'
  <2>1. current' \in [Contexts -> Units \cup {NoUnit}]
    BY <1>4 DEF CommitEnds, ManagerInv, ManagerTypeOK
  <2> QED BY <1>4, <2>1, CompletesStep DEF CommitEnds, InUse
<1>5. ASSUME NEW c \in Contexts, NEW d \in Contexts, Fork(c, d) PROVE ManagerInv'
  BY <1>5 DEF Fork, ManagerInv, ManagerTypeOK, Units, OwnRegistration, OneInUse, InUse, RevivedWereCompleted,
       FoundWhileOpen
<1>6. ASSUME NEW c \in Contexts, AppendTransactional(c) PROVE ManagerInv'
  <2> DEFINE u == current[c]
  <2>1. /\ units \in Seq(UnitState) /\ Units = 1..Len(units) /\ Len(units) \in Nat /\ u \in Units
        /\ \A v \in Units : units[v] \in UnitState
    BY <1>6, UnitNumbers DEF AppendTransactional, ManagerInv, ManagerTypeOK
  <2> HIDE DEF u
  <2>2. /\ units' \in Seq(UnitState) /\ Units' = Units
        /\ \A v \in Units : /\ units'[v].correlation = units[v].correlation
                            /\ units'[v].completed = units[v].completed
    <3>1. [units[u] EXCEPT !.filled = TRUE] \in UnitState
      BY <2>1 DEF UnitState
    <3>2. units' = [units EXCEPT ![u] = [units[u] EXCEPT !.filled = TRUE]]
      BY <1>6 DEF AppendTransactional, u
    <3>3. units' \in Seq(UnitState) /\ DOMAIN units' = DOMAIN units
      BY <2>1, <3>1, <3>2
    <3>4. units'[u] = [units[u] EXCEPT !.filled = TRUE] /\ \A v \in Units : v # u => units'[v] = units[v]
      BY <2>1, <3>2 DEF Units
    <3> QED BY <2>1, <3>3, <3>4 DEF Units, UnitState
  <2>3. UNCHANGED <<found, current, committing, reused, revived>>
    BY <1>6 DEF AppendTransactional
  <2>4. ManagerTypeOK'
    BY <2>2, <2>3 DEF ManagerInv, ManagerTypeOK, UnitState
  <2>5. revived \subseteq Units
    BY DEF ManagerInv, ManagerTypeOK
  <2> QED BY <2>2, <2>3, <2>4, <2>5 DEF ManagerInv, OwnRegistration, OneInUse, InUse, RevivedWereCompleted, FoundWhileOpen
<1>7. ASSUME NEW u \in Units, CommitAwaits(u) PROVE ManagerInv'
  <2>1. \A v \in Units : InUse(v)' => InUse(v)
    BY <1>7 DEF CommitAwaits, InUse
  <2> QED BY <1>7, <2>1 DEF CommitAwaits, ManagerInv, ManagerTypeOK, Units, OwnRegistration, OneInUse,
            RevivedWereCompleted, FoundWhileOpen
<1>8. ASSUME NEW u \in Units, CommitFails(u) PROVE ManagerInv'
  <2>1. \A v \in Units : InUse(v)' => InUse(v)
    BY <1>8 DEF CommitFails, InUse
  <2> QED BY <1>8, <2>1 DEF CommitFails, ManagerInv, ManagerTypeOK, Units, OwnRegistration, OneInUse,
            RevivedWereCompleted, FoundWhileOpen
<1>9. CASE UNCHANGED managerVars
  BY <1>9 DEF managerVars, ManagerInv, ManagerTypeOK, Units, OwnRegistration, OneInUse, InUse, RevivedWereCompleted,
       FoundWhileOpen
<1> QED BY <1>1, <1>2, <1>3, <1>4, <1>5, <1>6, <1>7, <1>8, <1>9 DEF ManagerNext

\* For any units, correlations and contexts: a unit is found under its id exactly while it is
\* open, unless the id was given away while in use or the unit was made current again after
\* it was completed (UnitOfWorkManager.ts).
THEOREM OpenUnitsAreFound == ManagerSpec => []FoundWhileOpen
<1>1. ManagerInv => FoundWhileOpen
  BY DEF ManagerInv
<1> QED BY ManagerStart, ManagerStep, <1>1, PTL DEF ManagerSpec

\* Units, the current one and the registrations keep their types (UnitOfWorkManager.ts).
THEOREM ManagerTypeCorrect == ManagerSpec => []ManagerTypeOK
<1>1. ManagerInv => ManagerTypeOK
  BY DEF ManagerInv
<1> QED BY ManagerStart, ManagerStep, <1>1, PTL DEF ManagerSpec
=============================================================================
