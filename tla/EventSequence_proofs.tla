------------------------ MODULE EventSequence_proofs ------------------------
(***************************************************************************)
(* What appends to an event sequence and its iterations keep, for any      *)
(* number of clients and subscribers, any batches and however many calls   *)
(* fail; what the seed data of a store keeps for any number of             *)
(* registrations, entries and failures; and what the event sequence of a   *)
(* scenario keeps of its constraints and of its history, for any events,   *)
(* batches and setups.                                                     *)
(***************************************************************************)
EXTENDS EventSequence, EventSeeding, InProcessEventSequence, Orders, SequenceTheorems

-----------------------------------------------------------------------------
(* Appends and iterations: an inductive invariant for each. *)

CallStates == {"idle", "reading", "sending", "answered"}

AppendTypes ==
  /\ log \in Seq(Event)
  /\ pc \in [Clients -> CallStates]
  /\ batch \in [Clients -> Batches \cup {<<>>}]
  /\ scopes \in [Clients -> SUBSET Scope]
  /\ accepted \in [Clients -> BOOLEAN]
  /\ appends \in Nat /\ faults \in Nat

Preparing(c) == pc[c] \in {"reading", "sending"}

\* A call that reads tails or sends has a batch without guards in conflict.
OneGuardEach == \A c \in Clients : Preparing(c) => batch[c] \in Batches /\ ~Conflicting(batch[c])

\* A scope is that of a guard of its batch, the only one of its source, expects
\* something, and nothing newer than what the client had seen.
ScopesOfGuards ==
  \A c \in Clients : Preparing(c) => \A scope \in scopes[c] :
    /\ \A other \in scopes[c] : other.source = scope.source => other = scope
    /\ \A e \in Guards(batch[c]) : e.source = scope.source => PredicateOf(e) = scope.predicate
    /\ scope.seen <= Len(log) /\ scope.expected # Unset
    /\ scope.expected # BeforeFirst => scope.expected <= scope.seen

\* What is sent has a scope for each guard.
AllDerived ==
  \A c \in Clients : pc[c] = "sending" =>
    \A e \in Guards(batch[c]) : \E scope \in scopes[c] : scope.source = e.source

\* An event does not come before its batch.
InItsBatch == \A i \in DOMAIN log : log[i].first <= i

AppendInv ==
  AppendTypes /\ OneGuardEach /\ ScopesOfGuards /\ AllDerived /\ InItsBatch /\ NothingInBetween

IterationTypes ==
  /\ published \in Seq([by : Clients, accepted : BOOLEAN])
  /\ phase \in [Subscribers -> {"none", "body", "next", "left"}]
  /\ queue \in [Subscribers -> Seq(Nat)]
  /\ received \in [Subscribers -> Seq(Nat)]
  /\ joined \in [Subscribers -> Nat]

\* A sequence that counts on from n.
CountsFrom(q, n) == \A i \in 1..Len(q) : q[i] = n + i

\* First those received and then those queued are the numbers from start to total.
Counted(got, queued, start, total) ==
  /\ Len(got) + Len(queued) + start = total
  /\ CountsFrom(got, start)
  /\ CountsFrom(queued, start + Len(got))

Numbers(start, total) == [n \in 1..(total - start) |-> start + n]

\* Who waits has nothing queued.
Continued(s) ==
  /\ Counted(received[s], queue[s], joined[s], Len(published))
  /\ phase[s] = "next" => queue[s] = <<>>

IterationInv ==
  /\ IterationTypes
  /\ \A s \in Subscribers :
       /\ phase[s] = "none" => received[s] = <<>> /\ queue[s] = <<>>
       /\ phase[s] \in {"body", "next"} => Continued(s)

-----------------------------------------------------------------------------
(* The operators of the model. *)

LEMMA GuardsAreEntries ==
  ASSUME NEW b \in Batches
  PROVE  /\ b.entries \in Seq(Entry) /\ EntriesOf(b) \subseteq Entry /\ Guards(b) \subseteq Entry
         /\ \A i \in DOMAIN b.entries : b.entries[i] \in Entry /\ b.entries[i] \in EntriesOf(b)
<1>1. b.entries \in Seq(Entry)
  BY EventSequenceAssumption DEF Batch
<1>2. \A i \in DOMAIN b.entries : b.entries[i] \in Entry
  BY <1>1
<1> QED BY <1>1, <1>2 DEF EntriesOf, Guards

LEMMA PredicateTypes ==
  ASSUME NEW e \in Entry
  PROVE  PredicateOf(e) \in Predicate
BY DEF Entry, PredicateOf, Predicate

\* A scope that holds says that nothing matching came since its client looked.
LEMMA HeldScope ==
  ASSUME AppendInv, NEW c \in Clients, Preparing(c), NEW scope \in scopes[c], Holds(scope)
  PROVE  /\ scope.seen \in Nat /\ scope.seen <= Len(log)
         /\ \A j \in (scope.seen + 1)..Len(log) : ~Matches(scope.predicate, log[j])
<1>1. scope \in Scope /\ Len(log) \in Nat
  BY DEF AppendInv, AppendTypes
<1>2. scope.seen \in Nat /\ scope.expected \in Nat \cup {BeforeFirst}
  BY <1>1 DEF Scope
<1>3. /\ scope.seen <= Len(log) /\ scope.expected # Unset
      /\ scope.expected # BeforeFirst => scope.expected <= scope.seen
  BY DEF AppendInv, ScopesOfGuards
<1>4. CASE scope.expected = BeforeFirst
  <2>1. \A j \in 1..Len(log) : ~Matches(scope.predicate, log[j])
    BY <1>4 DEF Holds, IsTail, Unset
  <2> QED BY <1>1, <1>2, <1>3, <2>1
<1>5. CASE scope.expected # BeforeFirst
  <2>1. \A j \in (scope.expected + 1)..Len(log) : ~Matches(scope.predicate, log[j])
    BY <1>3, <1>5 DEF Holds, IsTail
  <2>2. \A j \in (scope.seen + 1)..Len(log) : j \in (scope.expected + 1)..Len(log)
    BY <1>1, <1>2, <1>3, <1>5
  <2> QED BY <1>2, <1>3, <2>1, <2>2
<1> QED BY <1>4, <1>5

LEMMA SeenOfScope ==
  ASSUME AppendInv, NEW c \in Clients, Preparing(c), NEW scope \in scopes[c]
  PROVE  Seen(c, scope.source) = scope.seen
<1>1. (CHOOSE other \in scopes[c] : other.source = scope.source) = scope
  BY DEF AppendInv, ScopesOfGuards
<1> QED BY <1>1 DEF Seen

LEMMA SeenTypes ==
  ASSUME AppendInv, NEW c \in Clients, Preparing(c), NEW source
  PROVE  Seen(c, source) \in Nat
<1>1. CASE \E scope \in scopes[c] : scope.source = source
  <2>1. PICK scope \in scopes[c] : scope.source = source
    BY <1>1
  <2>2. scope.seen \in Nat
    BY DEF AppendInv, AppendTypes, Scope
  <2> QED BY <2>1, <2>2, SeenOfScope
<1>2. CASE ~\E scope \in scopes[c] : scope.source = source
  BY <1>2 DEF Seen
<1> QED BY <1>1, <1>2

\* What the kernel appends for a call.
LEMMA EventsAppended ==
  ASSUME AppendInv, NEW c \in Clients, pc[c] = "sending"
  PROVE  /\ EventsOf(c) \in Seq(Event)
         /\ \A i \in DOMAIN EventsOf(c) :
              LET e == batch[c].entries[i]
              IN /\ e \in EntriesOf(batch[c])
                 /\ EventsOf(c)[i].predicate = PredicateOf(e)
                 /\ EventsOf(c)[i].guarded = NeedsGuard(batch[c], e)
                 /\ EventsOf(c)[i].seen = Seen(c, e.source)
                 /\ EventsOf(c)[i].first = Len(log) + 1
<1>1. batch[c] \in Batches /\ Preparing(c)
  BY DEF AppendInv, OneGuardEach, Preparing
<1>2. /\ batch[c].entries \in Seq(Entry)
      /\ \A i \in DOMAIN batch[c].entries :
           batch[c].entries[i] \in Entry /\ batch[c].entries[i] \in EntriesOf(batch[c])
  BY <1>1, GuardsAreEntries
<1> DEFINE Of(i) ==
      [source |-> batch[c].entries[i].source, stream |-> batch[c].entries[i].stream,
       predicate |-> PredicateOf(batch[c].entries[i]),
       guarded |-> NeedsGuard(batch[c], batch[c].entries[i]),
       seen |-> Seen(c, batch[c].entries[i].source), first |-> Len(log) + 1]
<1>3. EventsOf(c) = [i \in DOMAIN batch[c].entries |-> Of(i)]
  BY DEF EventsOf
<1>4. \A i \in DOMAIN batch[c].entries : Of(i) \in Event
  <2> SUFFICES ASSUME NEW i \in DOMAIN batch[c].entries PROVE Of(i) \in Event
    OBVIOUS
  <2> DEFINE e == batch[c].entries[i]
  <2>1. e.source \in Sources /\ e.stream \in Streams
    BY <1>2 DEF Entry
  <2>2. PredicateOf(e) \in Predicate /\ Seen(c, e.source) \in Nat
    BY <1>1, <1>2, PredicateTypes, SeenTypes
  <2>3. NeedsGuard(batch[c], e) \in BOOLEAN
    BY DEF NeedsGuard
  <2>4. Len(log) + 1 \in Nat
    BY DEF AppendInv, AppendTypes
  <2> QED BY <2>1, <2>2, <2>3, <2>4 DEF Event
<1>5. EventsOf(c) \in Seq(Event) /\ DOMAIN EventsOf(c) = DOMAIN batch[c].entries
  <2> HIDE DEF Of
  <2> QED BY <1>2, <1>3, <1>4
<1>6. \A i \in DOMAIN EventsOf(c) : EventsOf(c)[i] = Of(i)
  <2> HIDE DEF Of
  <2> QED BY <1>3
<1>7. ASSUME NEW i \in DOMAIN EventsOf(c)
      PROVE  LET e == batch[c].entries[i]
             IN /\ EventsOf(c)[i].predicate = PredicateOf(e)
                /\ EventsOf(c)[i].guarded = NeedsGuard(batch[c], e)
                /\ EventsOf(c)[i].seen = Seen(c, e.source)
                /\ EventsOf(c)[i].first = Len(log) + 1
  <2> DEFINE e == batch[c].entries[i]
             needs == NeedsGuard(batch[c], e)
  <2>1. EventsOf(c)[i] = [source |-> e.source, stream |-> e.stream, predicate |-> PredicateOf(e),
                          guarded |-> needs, seen |-> Seen(c, e.source), first |-> Len(log) + 1]
    BY <1>6
  <2> HIDE DEF needs
  <2>2. EventsOf(c)[i].guarded = needs
    BY <2>1
  <2> QED BY <2>1, <2>2 DEF needs
<1> QED BY <1>2, <1>5, <1>7

-----------------------------------------------------------------------------
(* The appends. *)

LEMMA AppendInit == Init => AppendInv
<1> SUFFICES ASSUME Init PROVE AppendInv
  OBVIOUS
<1>1. AppendTypes
  BY EventSequenceAssumption DEF Init, AppendTypes, CallStates
<1>2. log = <<>> /\ \A c \in Clients : pc[c] = "idle"
  BY DEF Init
<1> QED BY <1>1, <1>2 DEF AppendInv, OneGuardEach, ScopesOfGuards, AllDerived, InItsBatch, NothingInBetween,
  Preparing

\* A call that leaves the log and everyone else alone, and prepares nothing itself.
LEMMA StoppedStep ==
  ASSUME AppendInv, NEW c \in Clients, NEW state \in {"idle", "answered"},
         pc' = [pc EXCEPT ![c] = state], UNCHANGED <<log, batch, scopes, appends>>,
         accepted' \in [Clients -> BOOLEAN], faults' \in Nat
  PROVE  AppendInv'
<1>1. pc' \in [Clients -> CallStates] /\ pc'[c] = state /\ \A d \in Clients \ {c} : pc'[d] = pc[d]
  BY DEF AppendInv, AppendTypes, CallStates
<1>2. AppendTypes'
  BY <1>1 DEF AppendInv, AppendTypes
<1>3. \A d \in Clients : /\ Preparing(d)' => Preparing(d)
                         /\ pc'[d] = "sending" => pc[d] = "sending"
  BY <1>1 DEF Preparing
<1>4. OneGuardEach' /\ InItsBatch' /\ NothingInBetween'
  BY <1>3 DEF AppendInv, OneGuardEach, InItsBatch, NothingInBetween
<1>5. ScopesOfGuards'
  BY <1>3 DEF AppendInv, ScopesOfGuards
<1>6. AllDerived'
  BY <1>3 DEF AppendInv, AllDerived
<1> QED BY <1>2, <1>4, <1>5, <1>6 DEF AppendInv

LEMMA AppendManyStep ==
  ASSUME AppendInv, NEW c \in Clients, NEW b \in Batches, AppendMany(c, b)
  PROVE  AppendInv'
<1>1. /\ pc' \in [Clients -> CallStates] /\ Preparing(c)' /\ (pc'[c] = "sending" => Guards(b) = {})
      /\ batch' \in [Clients -> Batches \cup {<<>>}] /\ batch'[c] = b
      /\ scopes' \in [Clients -> SUBSET Scope] /\ scopes'[c] = {}
      /\ \A d \in Clients \ {c} : pc'[d] = pc[d] /\ batch'[d] = batch[d] /\ scopes'[d] = scopes[d]
  BY DEF AppendMany, AppendInv, AppendTypes, CallStates, Preparing
<1>2. /\ UNCHANGED <<log, accepted, faults>> /\ ~Conflicting(b) /\ appends' = appends + 1
  BY DEF AppendMany
<1>3. AppendTypes'
  BY <1>1, <1>2 DEF AppendInv, AppendTypes
<1>4. \A d \in Clients \ {c} : Preparing(d)' <=> Preparing(d)
  BY <1>1 DEF Preparing
<1>5. OneGuardEach'
  BY <1>1, <1>2, <1>4 DEF AppendInv, OneGuardEach
<1>6. ScopesOfGuards'
  BY <1>1, <1>2, <1>4 DEF AppendInv, ScopesOfGuards
<1>7. AllDerived'
  BY <1>1 DEF AppendInv, AllDerived
<1> QED BY <1>2, <1>3, <1>5, <1>6, <1>7 DEF AppendInv, InItsBatch, NothingInBetween

LEMMA ReadTailStep ==
  ASSUME AppendInv, NEW c \in Clients, ReadTail(c)
  PROVE  AppendInv'
<1>1. PICK e \in Underived(c), tail \in 0..Len(log) :
        /\ scopes' = [scopes EXCEPT ![c] = @ \cup
             {[source |-> e.source, predicate |-> PredicateOf(e),
               expected |-> Expected(tail), seen |-> Len(log)]}]
        /\ pc' = [pc EXCEPT ![c] =
             IF \A f \in Underived(c) : f.source = e.source THEN "sending" ELSE "reading"]
  BY DEF ReadTail
<1> DEFINE new == [source |-> e.source, predicate |-> PredicateOf(e),
                   expected |-> Expected(tail), seen |-> Len(log)]
<1>2. Preparing(c) /\ pc[c] = "reading" /\ UNCHANGED <<log, batch, accepted, appends, faults>>
  BY DEF ReadTail, Preparing
<1>3. batch[c] \in Batches /\ ~Conflicting(batch[c])
  BY <1>2 DEF AppendInv, OneGuardEach
<1>4. e \in Guards(batch[c]) /\ e \in Entry /\ \A scope \in scopes[c] : scope.source # e.source
  BY <1>3, GuardsAreEntries DEF Underived
<1>5. Len(log) \in Nat /\ tail \in Nat /\ tail <= Len(log)
  BY DEF AppendInv, AppendTypes
<1>6. /\ Expected(tail) \in Nat \cup {BeforeFirst} /\ Expected(tail) # Unset
      /\ Expected(tail) # BeforeFirst => Expected(tail) <= Len(log)
  BY <1>5, EventSequenceAssumption DEF Expected, Unset
<1>7. new \in Scope
  <2>1. e.source \in Sources /\ PredicateOf(e) \in Predicate
    BY <1>4, PredicateTypes DEF Entry
  <2> QED BY <1>5, <1>6, <2>1 DEF Scope
<1>8. /\ new.source = e.source /\ new.predicate = PredicateOf(e)
      /\ new.expected = Expected(tail) /\ new.seen = Len(log)
  OBVIOUS
<1>9. /\ scopes' \in [Clients -> SUBSET Scope] /\ scopes'[c] = scopes[c] \cup {new}
      /\ \A d \in Clients \ {c} : scopes'[d] = scopes[d]
  <2> HIDE DEF new
  <2>1. scopes' = [scopes EXCEPT ![c] = @ \cup {new}]
    BY <1>1 DEF new
  <2> QED BY <1>7, <2>1 DEF AppendInv, AppendTypes
<1> HIDE DEF new
<1>10. /\ pc' \in [Clients -> CallStates] /\ Preparing(c)' /\ \A d \in Clients \ {c} : pc'[d] = pc[d]
       /\ pc'[c] = "sending" => \A f \in Underived(c) : f.source = e.source
  BY <1>1 DEF AppendInv, AppendTypes, CallStates, Preparing
<1>11. \A d \in Clients : Preparing(d)' <=> Preparing(d)
  BY <1>2, <1>10 DEF Preparing
<1>12. AppendTypes'
  BY <1>2, <1>9, <1>10 DEF AppendInv, AppendTypes
<1>13. OneGuardEach'
  BY <1>2, <1>11 DEF AppendInv, OneGuardEach
<1>14. ScopesOfGuards'
  <2>1. ASSUME NEW d \in Clients \ {c}, Preparing(d)', NEW scope \in scopes'[d]
        PROVE  /\ \A other \in scopes'[d] : other.source = scope.source => other = scope
               /\ \A g \in Guards(batch'[d]) : g.source = scope.source => PredicateOf(g) = scope.predicate
               /\ scope.seen <= Len(log') /\ scope.expected # Unset
               /\ scope.expected # BeforeFirst => scope.expected <= scope.seen
    BY <1>2, <1>9, <1>11, <2>1 DEF AppendInv, ScopesOfGuards
  <2>2. ASSUME NEW scope \in scopes[c]
        PROVE  /\ \A other \in scopes'[c] : other.source = scope.source => other = scope
               /\ \A g \in Guards(batch'[c]) : g.source = scope.source => PredicateOf(g) = scope.predicate
               /\ scope.seen <= Len(log') /\ scope.expected # Unset
               /\ scope.expected # BeforeFirst => scope.expected <= scope.seen
    BY <1>2, <1>4, <1>8, <1>9, <2>2 DEF AppendInv, ScopesOfGuards
  <2>3. /\ \A other \in scopes'[c] : other.source = new.source => other = new
        /\ \A g \in Guards(batch'[c]) : g.source = new.source => PredicateOf(g) = new.predicate
        /\ new.seen <= Len(log') /\ new.expected # Unset
        /\ new.expected # BeforeFirst => new.expected <= new.seen
    BY <1>2, <1>3, <1>4, <1>5, <1>6, <1>8, <1>9 DEF Conflicting
  <2> QED BY <1>9, <2>1, <2>2, <2>3 DEF ScopesOfGuards
<1>15. AllDerived'
  <2>1. ASSUME pc'[c] = "sending", NEW g \in Guards(batch[c])
        PROVE  \E scope \in scopes'[c] : scope.source = g.source
    <3>1. CASE g \in Underived(c)
      BY <1>8, <1>9, <1>10, <2>1, <3>1
    <3>2. CASE g \notin Underived(c)
      BY <1>9, <3>2 DEF Underived
    <3> QED BY <3>1, <3>2
  <2> QED BY <1>2, <1>9, <1>10, <2>1 DEF AppendInv, AllDerived
<1> QED BY <1>2, <1>12, <1>13, <1>14, <1>15 DEF AppendInv, InItsBatch, NothingInBetween

LEMMA AcceptStep ==
  ASSUME AppendInv, NEW c \in Clients, Accept(c)
  PROVE  AppendInv'
<1> DEFINE new == EventsOf(c)
<1>1. /\ pc[c] = "sending" /\ Preparing(c) /\ log' = log \o new
      /\ pc' = [pc EXCEPT ![c] = "answered"] /\ accepted' = [accepted EXCEPT ![c] = TRUE]
      /\ UNCHANGED <<batch, scopes, appends, faults>>
      /\ \A scope \in scopes[c] : Holds(scope)
  BY DEF Accept, Preparing
<1>2. /\ new \in Seq(Event)
      /\ \A i \in DOMAIN new :
           LET e == batch[c].entries[i]
           IN /\ e \in EntriesOf(batch[c])
              /\ new[i].predicate = PredicateOf(e)
              /\ new[i].guarded = NeedsGuard(batch[c], e)
              /\ new[i].seen = Seen(c, e.source)
              /\ new[i].first = Len(log) + 1
  BY <1>1, EventsAppended
<1> HIDE DEF new
<1>3. log \in Seq(Event)
  BY DEF AppendInv, AppendTypes
<1>4. /\ log' \in Seq(Event) /\ Len(log') = Len(log) + Len(new) /\ Len(log) <= Len(log')
      /\ \A i \in DOMAIN log : log'[i] = log[i]
      /\ \A i \in DOMAIN log' : i \notin DOMAIN log => i - Len(log) \in DOMAIN new /\ log'[i] = new[i - Len(log)]
  BY <1>1, <1>2, <1>3
<1>5. pc' \in [Clients -> CallStates] /\ pc'[c] = "answered" /\ \A d \in Clients \ {c} : pc'[d] = pc[d]
  BY <1>1 DEF AppendInv, AppendTypes, CallStates
<1>6. AppendTypes'
  BY <1>1, <1>4, <1>5 DEF AppendInv, AppendTypes
<1>7. \A d \in Clients : /\ Preparing(d)' => Preparing(d)
                         /\ pc'[d] = "sending" => pc[d] = "sending"
  BY <1>5 DEF Preparing
<1>8. OneGuardEach' /\ AllDerived'
  BY <1>1, <1>7 DEF AppendInv, OneGuardEach, AllDerived
<1>9. ScopesOfGuards'
  <2> SUFFICES ASSUME NEW d \in Clients, Preparing(d)', NEW scope \in scopes'[d]
               PROVE  /\ \A other \in scopes'[d] : other.source = scope.source => other = scope
                      /\ \A g \in Guards(batch'[d]) : g.source = scope.source => PredicateOf(g) = scope.predicate
                      /\ scope.seen <= Len(log') /\ scope.expected # Unset
                      /\ scope.expected # BeforeFirst => scope.expected <= scope.seen
    BY DEF ScopesOfGuards
  <2>1. scope \in Scope /\ scope.seen \in Nat
    BY <1>1 DEF AppendInv, AppendTypes, Scope
  <2> QED BY <1>1, <1>3, <1>4, <1>7, <2>1 DEF AppendInv, ScopesOfGuards
<1>10. \A i \in DOMAIN log' : log'[i].first <= i
  <2> SUFFICES ASSUME NEW i \in DOMAIN log' PROVE log'[i].first <= i
    OBVIOUS
  <2>1. CASE i \in DOMAIN log
    BY <1>4, <2>1 DEF AppendInv, InItsBatch
  <2>2. CASE i \notin DOMAIN log
    <3>1. log'[i].first = Len(log) + 1
      BY <1>2, <1>4, <2>2
    <3> QED BY <1>3, <1>4, <2>2, <3>1
  <2> QED BY <2>1, <2>2
<1>11. NothingInBetween'
  <2> SUFFICES ASSUME NEW i \in DOMAIN log', log'[i].guarded,
                      NEW j \in (log'[i].seen + 1)..(log'[i].first - 1)
               PROVE  ~Matches(log'[i].predicate, log'[j])
    BY DEF NothingInBetween
  <2>1. log'[i] \in Event /\ log'[i].seen \in Nat /\ log'[i].first \in Nat /\ i \in Nat /\ Len(log) \in Nat
    <3>1. log'[i] \in Event /\ i \in Nat
      BY <1>4
    <3> QED BY <1>3, <3>1 DEF Event
  <2>2. CASE i \in DOMAIN log
    <3>1. log'[i] = log[i] /\ j \in DOMAIN log /\ log'[j] = log[j]
      BY <1>3, <1>4, <1>10, <2>1, <2>2
    <3> QED BY <2>2, <3>1 DEF AppendInv, NothingInBetween
  <2>3. CASE i \notin DOMAIN log
    <3> DEFINE n == i - Len(log)
               e == batch[c].entries[n]
    <3>1. /\ n \in DOMAIN new /\ e \in EntriesOf(batch[c]) /\ NeedsGuard(batch[c], e)
          /\ log'[i].predicate = PredicateOf(e) /\ log'[i].seen = Seen(c, e.source)
          /\ log'[i].first = Len(log) + 1
      BY <1>2, <1>4, <2>3
    <3> HIDE DEF e, n
    <3>2. e \in Guards(batch[c])
      BY <3>1 DEF Guards
    <3>3. PICK scope \in scopes[c] : scope.source = e.source
      BY <1>1, <3>2 DEF AppendInv, AllDerived
    <3>4. scope.predicate = PredicateOf(e)
      BY <1>1, <3>2, <3>3 DEF AppendInv, ScopesOfGuards
    <3>5. Seen(c, e.source) = scope.seen
      BY <1>1, <3>3, SeenOfScope
    <3>6. \A k \in (scope.seen + 1)..Len(log) : ~Matches(scope.predicate, log[k])
      BY <1>1, HeldScope
    <3>7. j \in (scope.seen + 1)..Len(log) /\ j \in DOMAIN log
      BY <1>3, <2>1, <3>1, <3>5
    <3> QED BY <1>4, <3>1, <3>4, <3>6, <3>7
  <2> QED BY <2>2, <2>3
<1> QED BY <1>6, <1>8, <1>9, <1>10, <1>11 DEF AppendInv, InItsBatch

LEMMA AppendStep ==
  ASSUME AppendInv, [Next]_vars
  PROVE  AppendInv'
<1>1. ASSUME NEW c \in Clients, Reject(c) \/ Answered(c) \/ CallFails(c) PROVE AppendInv'
  <2>1. UNCHANGED <<log, batch, scopes, appends>>
    BY <1>1 DEF Reject, Answered, CallFails
  <2>2. accepted \in [Clients -> BOOLEAN] /\ faults \in Nat
    BY DEF AppendInv, AppendTypes
  <2>3. CASE Reject(c)
    <3>1. pc' = [pc EXCEPT ![c] = "answered"] /\ accepted' \in [Clients -> BOOLEAN] /\ faults' \in Nat
      BY <2>2, <2>3 DEF Reject
    <3> QED BY <2>1, <3>1, StoppedStep
  <2>4. CASE Answered(c)
    <3>1. pc' = [pc EXCEPT ![c] = "idle"] /\ accepted' \in [Clients -> BOOLEAN] /\ faults' \in Nat
      BY <2>2, <2>4 DEF Answered
    <3> QED BY <2>1, <3>1, StoppedStep
  <2>5. CASE CallFails(c)
    <3>1. faults > 0 /\ faults' = faults - 1
      BY <2>5 DEF CallFails
    <3>2. pc' = [pc EXCEPT ![c] = "idle"] /\ accepted' = accepted
      BY <2>5 DEF CallFails
    <3>3. faults' \in Nat
      BY <2>2, <3>1
    <3> QED BY <2>1, <2>2, <3>2, <3>3, StoppedStep
  <2> QED BY <1>1, <2>3, <2>4, <2>5
<1>2. ASSUME NEW s \in Subscribers, Subscribe(s) \/ TakeNext(s) \/ Leave(s)
      PROVE  UNCHANGED <<log, callVars, faults>>
  BY <1>2 DEF Subscribe, TakeNext, Leave
<1>3. CASE UNCHANGED <<log, callVars, faults>>
  BY <1>3 DEF callVars, AppendInv, AppendTypes, OneGuardEach, ScopesOfGuards, AllDerived, InItsBatch,
    NothingInBetween, Preparing
<1>4. UNCHANGED vars => UNCHANGED <<log, callVars, faults>>
  BY DEF vars
<1> QED BY <1>1, <1>2, <1>3, <1>4, AppendManyStep, ReadTailStep, AcceptStep DEF Next

\* Whatever clients append, at whatever moments their calls fail: no guarded event is in
\* the sequence with a matching one between what its client had seen and its batch
\* (EventSequence.appendMany, planDerivedGuards and deriveConcurrencyScope).
THEOREM GuardsHold == Spec => []NothingInBetween
<1>1. AppendInv => NothingInBetween
  BY DEF AppendInv
<1> QED BY AppendInit, AppendStep, <1>1, PTL DEF Spec

-----------------------------------------------------------------------------
(* The iterations. *)

LEMMA IterationInit == Init => IterationInv
<1> SUFFICES ASSUME Init PROVE IterationInv
  OBVIOUS
<1>1. IterationTypes
  BY DEF Init, IterationTypes
<1> QED BY <1>1 DEF Init, IterationInv

\* Sequences that count, at both ends.
LEMMA AppendCounts ==
  ASSUME NEW q \in Seq(Nat), NEW n \in Nat, CountsFrom(q, n), NEW number, number = n + Len(q) + 1
  PROVE  /\ Len(Append(q, number)) = Len(q) + 1 /\ Append(q, number) \in Seq(Nat)
         /\ CountsFrom(Append(q, number), n)
<1>1. Len(q) \in Nat /\ number \in Nat
  OBVIOUS
<1>2. /\ Len(Append(q, number)) = Len(q) + 1 /\ Append(q, number) \in Seq(Nat)
      /\ Append(q, number)[Len(q) + 1] = number
      /\ \A i \in 1..Len(q) : Append(q, number)[i] = q[i]
  BY <1>1
<1>3. ASSUME NEW i \in 1..(Len(q) + 1) PROVE Append(q, number)[i] = n + i
  <2>1. CASE i = Len(q) + 1
    BY <1>1, <1>2, <2>1
  <2>2. CASE i # Len(q) + 1
    <3>1. i \in 1..Len(q)
      BY <1>1, <2>2
    <3> QED BY <1>2, <3>1 DEF CountsFrom
  <2> QED BY <2>1, <2>2
<1> QED BY <1>2, <1>3 DEF CountsFrom

LEMMA TailCounts ==
  ASSUME NEW q \in Seq(Nat), NEW n \in Nat, CountsFrom(q, n), q # <<>>
  PROVE  /\ Head(q) = n + 1 /\ Tail(q) \in Seq(Nat) /\ Len(Tail(q)) + 1 = Len(q)
         /\ CountsFrom(Tail(q), n + 1)
<1>1. Len(q) \in Nat /\ Len(q) >= 1
  OBVIOUS
<1>2. /\ Head(q) = q[1] /\ Tail(q) \in Seq(Nat) /\ Len(Tail(q)) = Len(q) - 1
      /\ \A i \in 1..(Len(q) - 1) : Tail(q)[i] = q[i + 1]
  BY <1>1
<1>3. ASSUME NEW i \in 1..(Len(q) - 1) PROVE Tail(q)[i] = n + 1 + i
  <2>1. i + 1 \in 1..Len(q)
    BY <1>1
  <2>2. q[i + 1] = n + (i + 1)
    BY <2>1 DEF CountsFrom
  <2> QED BY <1>2, <2>2
<1>4. q[1] = n + 1
  BY <1>1 DEF CountsFrom
<1> QED BY <1>1, <1>2, <1>3, <1>4 DEF CountsFrom

\* What publish() and next() do to the numbers of one iteration.
LEMMA CountedOnes ==
  ASSUME NEW got \in Seq(Nat), NEW queued \in Seq(Nat), NEW start \in Nat, NEW total \in Nat,
         Counted(got, queued, start, total)
  PROVE  /\ got \o queued = Numbers(start, total)
         /\ queued = <<>> => Counted(Append(got, total + 1), queued, start, total + 1)
         /\ Counted(got, Append(queued, total + 1), start, total + 1)
         /\ queued # <<>> =>
              /\ Head(queued) \in Nat /\ Tail(queued) \in Seq(Nat)
              /\ Counted(Append(got, Head(queued)), Tail(queued), start, total)
<1>1. Len(got) \in Nat /\ Len(queued) \in Nat
  OBVIOUS
<1>2. Len(got) + Len(queued) + start = total
  BY DEF Counted
<1>3. CountsFrom(got, start) /\ CountsFrom(queued, start + Len(got))
  BY DEF Counted
<1>4. got \o queued = [n \in 1..(total - start) |-> start + n]
  <2> DEFINE all == got \o queued
  <2>0. all \in Seq(Nat) /\ Len(all) = Len(got) + Len(queued)
    OBVIOUS
  <2>1. /\ all = [n \in 1..Len(all) |-> all[n]] /\ Len(all) = Len(got) + Len(queued)
        /\ \A n \in 1..Len(got) : all[n] = got[n]
        /\ \A n \in 1..Len(queued) : all[Len(got) + n] = queued[n]
    <3>1. \A n \in 1..Len(got) : all[n] = got[n]
      BY <1>1
    <3>2. \A n \in 1..Len(queued) : all[Len(got) + n] = queued[n]
      BY <1>1
    <3> HIDE DEF all
    <3>3. all = [n \in 1..Len(all) |-> all[n]]
      BY <2>0
    <3> QED BY <2>0, <3>1, <3>2, <3>3
  <2> HIDE DEF all
  <2>2. ASSUME NEW n \in 1..Len(all) PROVE all[n] = start + n
    <3>1. CASE n <= Len(got)
      <4>1. n \in 1..Len(got)
        BY <1>1, <2>1, <3>1
      <4> QED BY <1>3, <2>1, <4>1 DEF CountsFrom
    <3>2. CASE ~(n <= Len(got))
      <4>1. PICK m \in 1..Len(queued) : n = Len(got) + m
        <5>1. n - Len(got) \in 1..Len(queued) /\ n = Len(got) + (n - Len(got))
          BY <1>1, <2>1, <3>2
        <5> QED BY <5>1
      <4>2. all[n] = start + Len(got) + m
        BY <1>3, <2>1, <4>1 DEF CountsFrom
      <4> QED BY <1>1, <4>1, <4>2
    <3> QED BY <3>1, <3>2
  <2>3. Len(all) = total - start
    BY <1>1, <1>2, <2>1
  <2> QED BY <2>1, <2>2, <2>3 DEF all
<1>5. ASSUME queued = <<>> PROVE Counted(Append(got, total + 1), queued, start, total + 1)
  <2>1. Len(queued) = 0
    BY <1>5
  <2>2. total + 1 = start + Len(got) + 1
    BY <1>1, <1>2, <2>1
  <2>3. Len(Append(got, total + 1)) = Len(got) + 1 /\ CountsFrom(Append(got, total + 1), start)
    BY <1>3, <2>2, AppendCounts
  <2>4. CountsFrom(queued, start + Len(Append(got, total + 1)))
    BY <2>1 DEF CountsFrom
  <2> QED BY <1>1, <1>2, <2>1, <2>3, <2>4 DEF Counted
<1>6. Counted(got, Append(queued, total + 1), start, total + 1)
  <2>1. total + 1 = (start + Len(got)) + Len(queued) + 1 /\ start + Len(got) \in Nat
    BY <1>1, <1>2, SMTT(30)
  <2>2. /\ Len(Append(queued, total + 1)) = Len(queued) + 1
        /\ CountsFrom(Append(queued, total + 1), start + Len(got))
    BY <1>3, <2>1, AppendCounts
  <2> QED BY <1>1, <1>2, <1>3, <2>2 DEF Counted
<1>7. ASSUME queued # <<>>
      PROVE  /\ Head(queued) \in Nat /\ Tail(queued) \in Seq(Nat)
             /\ Counted(Append(got, Head(queued)), Tail(queued), start, total)
  <2>1. start + Len(got) \in Nat
    BY <1>1
  <2>2. /\ Head(queued) = start + Len(got) + 1 /\ Tail(queued) \in Seq(Nat)
        /\ Len(Tail(queued)) + 1 = Len(queued)
        /\ CountsFrom(Tail(queued), start + Len(got) + 1)
    BY <1>3, <1>7, <2>1, TailCounts
  <2>3. /\ Len(Append(got, Head(queued))) = Len(got) + 1
        /\ CountsFrom(Append(got, Head(queued)), start)
    BY <1>3, <2>2, AppendCounts
  <2>4. Len(Tail(queued)) \in Nat
    BY <2>2
  <2>5. /\ Len(Append(got, Head(queued))) + Len(Tail(queued)) + start = total
        /\ start + Len(Append(got, Head(queued))) = start + Len(got) + 1
    BY <1>1, <1>2, <2>2, <2>3, <2>4
  <2> QED BY <1>1, <2>2, <2>3, <2>5 DEF Counted
<1>8. got \o queued = Numbers(start, total)
  BY <1>4 DEF Numbers
<1> QED BY <1>5, <1>6, <1>7, <1>8

LEMMA AllReceived == IterationInv => EveryOperationIsReceived
<1> SUFFICES ASSUME IterationInv, NEW s \in Subscribers, phase[s] \in {"body", "next"}
             PROVE  received[s] \o queue[s] =
                      [n \in 1..(Len(published) - joined[s]) |-> joined[s] + n]
  BY DEF EveryOperationIsReceived
<1>1. received[s] \in Seq(Nat) /\ queue[s] \in Seq(Nat) /\ joined[s] \in Nat /\ Len(published) \in Nat
  BY DEF IterationInv, IterationTypes
<1>2. Counted(received[s], queue[s], joined[s], Len(published))
  BY DEF IterationInv, Continued
<1>3. \A got \in Seq(Nat), queued \in Seq(Nat), start \in Nat, total \in Nat :
        Counted(got, queued, start, total) => got \o queued = Numbers(start, total)
  BY CountedOnes
<1>4. received[s] \o queue[s] = Numbers(joined[s], Len(published))
  BY <1>1, <1>2, <1>3, ZenonT(30)
<1> QED BY <1>4 DEF Numbers

LEMMA PublishStep ==
  ASSUME IterationInv, NEW operation \in [by : Clients, accepted : BOOLEAN], Publish(operation)
  PROVE  IterationInv'
<1> DEFINE number == Len(published) + 1
<1>1. published' = Append(published, operation) /\ Len(published') = number /\ number \in Nat
  BY DEF Publish, IterationInv, IterationTypes
<1>2. \A s \in Subscribers :
        /\ phase'[s] = IF phase[s] = "next" THEN "body" ELSE phase[s]
        /\ received'[s] = IF phase[s] = "next" THEN Append(received[s], number) ELSE received[s]
        /\ queue'[s] = IF phase[s] = "body" THEN Append(queue[s], number) ELSE queue[s]
        /\ joined'[s] = joined[s]
  BY DEF Publish
<1>3. \A s \in Subscribers : /\ received[s] \in Seq(Nat) /\ queue[s] \in Seq(Nat) /\ joined[s] \in Nat
                             /\ phase[s] \in {"none", "body", "next", "left"}
  BY DEF IterationInv, IterationTypes
<1>4. Len(published) \in Nat
  BY DEF IterationInv, IterationTypes
<1>5. IterationTypes'
  <2>1. published' \in Seq([by : Clients, accepted : BOOLEAN])
    BY <1>1 DEF IterationInv, IterationTypes
  <2>2. received' \in [Subscribers -> Seq(Nat)]
    BY <1>1, <1>3 DEF Publish
  <2>3. queue' \in [Subscribers -> Seq(Nat)]
    BY <1>1, <1>3 DEF Publish
  <2>4. phase' \in [Subscribers -> {"none", "body", "next", "left"}]
    BY <1>3 DEF Publish
  <2>5. joined' \in [Subscribers -> Nat]
    BY DEF Publish, IterationInv, IterationTypes
  <2> QED BY <2>1, <2>2, <2>3, <2>4, <2>5 DEF IterationTypes
<1>6. ASSUME NEW s \in Subscribers, phase'[s] \in {"body", "next"} PROVE Continued(s)'
  <2> HIDE DEF number
  <2>1. Continued(s)
    BY <1>2, <1>6 DEF IterationInv
  <2>2. Counted(received[s], queue[s], joined[s], Len(published)) /\ number = Len(published) + 1
    BY <2>1 DEF Continued, number
  <2>3. /\ queue[s] = <<>> => Counted(Append(received[s], number), queue[s], joined[s], number)
        /\ Counted(received[s], Append(queue[s], number), joined[s], number)
    BY <1>3, <1>4, <2>2, CountedOnes
  <2>4. CASE phase[s] = "next"
    <3>1. queue[s] = <<>>
      BY <2>1, <2>4 DEF Continued
    <3>2. /\ queue'[s] = queue[s] /\ phase'[s] = "body"
          /\ received'[s] = Append(received[s], number)
      BY <1>2, <2>4
    <3> QED BY <1>1, <1>2, <2>3, <3>1, <3>2 DEF Continued
  <2>5. CASE phase[s] = "body"
    <3>1. queue'[s] = Append(queue[s], number) /\ received'[s] = received[s] /\ phase'[s] = "body"
      BY <1>2, <2>5
    <3> QED BY <1>1, <1>2, <2>3, <3>1 DEF Continued
  <2> QED BY <1>2, <1>6, <2>4, <2>5
<1>7. ASSUME NEW s \in Subscribers, phase'[s] = "none" PROVE received'[s] = <<>> /\ queue'[s] = <<>>
  BY <1>2, <1>7 DEF IterationInv
<1> QED BY <1>5, <1>6, <1>7 DEF IterationInv

\* A step of one iteration leaves the others alone.
LEMMA OthersContinue ==
  ASSUME IterationInv, NEW s \in Subscribers, UNCHANGED published, IterationTypes',
         \A r \in Subscribers \ {s} : /\ phase'[r] = phase[r] /\ queue'[r] = queue[r]
                                     /\ received'[r] = received[r] /\ joined'[r] = joined[r],
         phase'[s] # "none",
         phase'[s] \in {"body", "next"} => Continued(s)'
  PROVE  IterationInv'
<1>1. \A r \in Subscribers \ {s} : Continued(r)' <=> Continued(r)
  BY DEF Continued
<1> QED BY <1>1 DEF IterationInv

LEMMA SubscribeStep ==
  ASSUME IterationInv, NEW s \in Subscribers, Subscribe(s)
  PROVE  IterationInv'
<1>1. received[s] = <<>> /\ queue[s] = <<>>
  BY DEF Subscribe, IterationInv
<1>2. /\ phase'[s] = "body" /\ joined'[s] = Len(published) /\ UNCHANGED <<published, queue, received>>
      /\ \A r \in Subscribers \ {s} : phase'[r] = phase[r] /\ joined'[r] = joined[r]
      /\ IterationTypes'
  BY DEF Subscribe, IterationInv, IterationTypes
<1>3. Len(published) \in Nat
  BY DEF IterationInv, IterationTypes
<1>4. Counted(<<>>, <<>>, Len(published), Len(published))
  BY <1>3 DEF Counted, CountsFrom
<1>5. Continued(s)'
  BY <1>1, <1>2, <1>4 DEF Continued
<1> QED BY <1>2, <1>5, OthersContinue

LEMMA TakeNextStep ==
  ASSUME IterationInv, NEW s \in Subscribers, TakeNext(s)
  PROVE  IterationInv'
<1>1. phase[s] = "body" /\ Continued(s) /\ UNCHANGED <<published, joined>>
  BY DEF TakeNext, IterationInv
<1>2. received[s] \in Seq(Nat) /\ queue[s] \in Seq(Nat) /\ joined[s] \in Nat /\ Len(published) \in Nat
  BY DEF IterationInv, IterationTypes
<1>3. CASE queue[s] # <<>>
  <2>1. /\ received' = [received EXCEPT ![s] = Append(@, Head(queue[s]))]
        /\ queue' = [queue EXCEPT ![s] = Tail(@)] /\ UNCHANGED phase
    BY <1>3 DEF TakeNext, Taken
  <2>2. /\ Head(queue[s]) \in Nat /\ Tail(queue[s]) \in Seq(Nat)
        /\ Counted(Append(received[s], Head(queue[s])), Tail(queue[s]), joined[s], Len(published))
    BY <1>1, <1>2, <1>3, CountedOnes DEF Continued
  <2>3. Append(received[s], Head(queue[s])) \in Seq(Nat)
    BY <1>2, <2>2
  <2>4. /\ received'[s] = Append(received[s], Head(queue[s])) /\ queue'[s] = Tail(queue[s])
        /\ \A r \in Subscribers \ {s} : received'[r] = received[r] /\ queue'[r] = queue[r]
        /\ IterationTypes'
    BY <1>1, <2>1, <2>2, <2>3 DEF IterationInv, IterationTypes
  <2>5. Continued(s)'
    BY <1>1, <2>1, <2>2, <2>4 DEF Continued
  <2> QED BY <1>1, <2>1, <2>4, <2>5, OthersContinue
<1>4. CASE queue[s] = <<>>
  <2>1. phase' = [phase EXCEPT ![s] = "next"] /\ UNCHANGED <<queue, received>>
    BY <1>4 DEF TakeNext
  <2>2. /\ phase'[s] = "next" /\ \A r \in Subscribers \ {s} : phase'[r] = phase[r]
        /\ IterationTypes'
    BY <1>1, <2>1 DEF IterationInv, IterationTypes
  <2>3. Continued(s)'
    BY <1>1, <1>4, <2>1 DEF Continued
  <2> QED BY <1>1, <2>1, <2>2, <2>3, OthersContinue
<1> QED BY <1>3, <1>4

LEMMA IterationStep ==
  ASSUME AppendTypes, IterationInv, [Next]_vars
  PROVE  IterationInv'
<1>1. ASSUME NEW c \in Clients, Answered(c) PROVE IterationInv'
  <2>1. [by |-> c, accepted |-> accepted[c]] \in [by : Clients, accepted : BOOLEAN]
    BY DEF AppendTypes
  <2>2. CASE HasSubscribers
    <3>1. Publish([by |-> c, accepted |-> accepted[c]])
      BY <1>1, <2>2 DEF Answered
    <3> QED BY <2>1, <3>1, PublishStep
  <2>3. CASE ~HasSubscribers
    BY <1>1, <2>3 DEF Answered, subscriberVars, IterationInv, IterationTypes, Continued
  <2> QED BY <2>2, <2>3
<1>2. ASSUME NEW s \in Subscribers, Leave(s) PROVE IterationInv'
  <2>1. /\ phase'[s] = "left" /\ \A r \in Subscribers \ {s} : phase'[r] = phase[r]
        /\ UNCHANGED <<published, queue, received, joined>> /\ IterationTypes'
    BY <1>2 DEF Leave, IterationInv, IterationTypes
  <2> QED BY <2>1, OthersContinue
<1>3. ASSUME NEW c \in Clients, NEW b \in Batches, AppendMany(c, b) PROVE UNCHANGED <<published, subscriberVars>>
  BY <1>3 DEF AppendMany
<1>4. ASSUME NEW c \in Clients, ReadTail(c) \/ Accept(c) \/ Reject(c) \/ CallFails(c)
      PROVE  UNCHANGED <<published, subscriberVars>>
  BY <1>4 DEF ReadTail, Accept, Reject, CallFails
<1>5. CASE UNCHANGED <<published, subscriberVars>>
  BY <1>5 DEF subscriberVars, IterationInv, IterationTypes, Continued
<1>6. UNCHANGED vars => UNCHANGED <<published, subscriberVars>>
  BY DEF vars
<1> QED BY <1>1, <1>2, <1>3, <1>4, <1>5, <1>6, SubscribeStep, TakeNextStep DEF Next

LEMMA Invariant == Spec => []AppendInv /\ []IterationInv
<1>1. AppendInv => AppendTypes
  BY DEF AppendInv
<1> QED BY AppendInit, AppendStep, IterationInit, IterationStep, <1>1, PTL DEF Spec

\* Every iteration has, once and in order, all that was published since it began, however
\* next() and publications alternate (AppendOperationsBroadcaster.publish and iterate).
THEOREM OperationsReceived == Spec => []EveryOperationIsReceived
BY Invariant, AllReceived, PTL

\* The states are those of the code's own types.
THEOREM TypeCorrect == Spec => []TypeOK
<1>1. AppendInv /\ IterationInv => TypeOK
  BY DEF AppendInv, AppendTypes, CallStates, IterationInv, IterationTypes, TypeOK
<1> QED BY Invariant, <1>1, PTL

-----------------------------------------------------------------------------
(* The seed data of a store: the inductive invariant. *)

SeedingTyped ==
  /\ registration \in [Registrations -> {"idle", "discovering", "discovered", "sending", "done", "failed"}]
  /\ added \in Nat
  /\ requested \in [Registrations -> SUBSET Nat]
  /\ discovered \in [Registrations -> SUBSET (1..added)]

\* An entry that a request under way does not carry came while one was awaited.
Carried ==
  \A r \in Registrations : registration[r] = "sending" => entries \subseteq requested[r] \cup overtaken

SeedingInv == SeedingTyped /\ entries \subseteq 1..added /\ Carried /\ SeedsReachTheKernel

LEMMA SeedingStart == SeedingInit => SeedingInv
BY DEF SeedingInit, SeedingInv, SeedingTyped, Carried, SeedsReachTheKernel, Nothing

\* What an entry that is added keeps, whoever adds it.
LEMMA AddsStep ==
  ASSUME SeedingInv, Adds,
         UNCHANGED <<registration, requested, seeded>>,
         \A r \in Registrations : discovered'[r] \subseteq discovered[r] \cup {added'},
         \A r \in Registrations : registration[r] = "done" => discovered'[r] = discovered[r],
         discovered' \in [Registrations -> SUBSET (1..added')]
  PROVE  SeedingInv'
<1>1. added' = added + 1 /\ added' \in Nat /\ 1..added' = (1..added) \cup {added'}
  BY DEF SeedingInv, SeedingTyped, Adds
<1>2. entries' = entries \cup {added'} /\ overtaken \subseteq overtaken'
  BY DEF Adds
<1>3. SeedingTyped' /\ entries' \subseteq 1..added'
  BY <1>1, <1>2 DEF SeedingInv, SeedingTyped
<1>4. Carried'
  <2>1. CASE Sending = {}
    BY <2>1 DEF Carried, Sending
  <2>2. CASE Sending # {}
    BY <1>2, <2>2 DEF SeedingInv, Carried, Adds
  <2> QED BY <2>1, <2>2
<1>5. SeedsReachTheKernel'
  BY <1>1, <1>2 DEF SeedingInv, SeedsReachTheKernel
<1> QED BY <1>3, <1>4, <1>5 DEF SeedingInv

LEMMA SeedingStep ==
  ASSUME SeedingInv, [SeedingNext]_seedingVars
  PROVE  SeedingInv'
<1>1. CASE ApplicationAdds
  <2>1. discovered' \in [Registrations -> SUBSET (1..added')]
    <3>1. added' = added + 1 /\ 1..added \subseteq 1..added'
      BY <1>1 DEF ApplicationAdds, Adds, SeedingInv, SeedingTyped
    <3> QED BY <1>1, <3>1 DEF ApplicationAdds, SeedingInv, SeedingTyped
  <2> QED BY <1>1, <2>1, AddsStep DEF ApplicationAdds
<1>2. ASSUME NEW r \in Registrations, SeederAdds(r) PROVE SeedingInv'
  <2>1. discovered' \in [Registrations -> SUBSET (1..added')]
    <3>1. added' = added + 1 /\ 1..added \subseteq 1..added' /\ added' \in 1..added'
      BY <1>2 DEF SeederAdds, Adds, SeedingInv, SeedingTyped
    <3> QED BY <1>2, <3>1 DEF SeederAdds, SeedingInv, SeedingTyped
  <2>2. \A q \in Registrations : discovered'[q] \subseteq discovered[q] \cup {added'}
    BY <1>2 DEF SeederAdds, SeedingInv, SeedingTyped
  <2>3. \A q \in Registrations : registration[q] = "done" => discovered'[q] = discovered[q]
    BY <1>2 DEF SeederAdds, SeedingInv, SeedingTyped
  <2> QED BY <1>2, <2>1, <2>2, <2>3, AddsStep DEF SeederAdds
<1>3. ASSUME NEW r \in Registrations, Discover(r) \/ Discovered(r) \/ RegistrationFails(r) PROVE SeedingInv'
  BY <1>3 DEF Discover, Discovered, RegistrationFails, At, SeedingInv, SeedingTyped, Carried, SeedsReachTheKernel
<1>4. ASSUME NEW r \in Registrations, NothingToRegister(r) PROVE SeedingInv'
  BY <1>4 DEF NothingToRegister, At, SeedingInv, SeedingTyped, Carried, SeedsReachTheKernel
<1>5. ASSUME NEW r \in Registrations, Register(r) PROVE SeedingInv'
  <2>1. entries \subseteq Nat
    BY DEF SeedingInv, SeedingTyped
  <2> QED BY <1>5, <2>1 DEF Register, HeldWhileSending, StillHeld, At, SeedingInv, SeedingTyped, Carried, SeedsReachTheKernel
<1>6. ASSUME NEW r \in Registrations, Accepted(r) PROVE SeedingInv'
  <2>1. entries \subseteq requested[r] \cup overtaken
    BY <1>6 DEF Accepted, At, SeedingInv, Carried
  <2>2. 1..added \subseteq seeded' \cup overtaken'
    BY <1>6, <2>1 DEF Accepted, SeedingInv, SeedsReachTheKernel
  <2> QED BY <1>6, <2>2 DEF Accepted, At, SeedingInv, SeedingTyped, Carried, SeedsReachTheKernel
<1>7. ASSUME NEW r \in Registrations, Refused(r) PROVE SeedingInv'
  <2>1. seeded \subseteq seeded'
    BY <1>7 DEF Refused
  <2> QED BY <1>7, <2>1 DEF Refused, At, SeedingInv, SeedingTyped, Carried, SeedsReachTheKernel
<1>8. ASSUME NEW r \in Registrations, RegisteredAgain(r) PROVE SeedingInv'
  BY <1>8 DEF RegisteredAgain, SeedingInv, SeedingTyped, Carried, SeedsReachTheKernel
<1>9. CASE UNCHANGED seedingVars
  BY <1>9 DEF seedingVars, SeedingInv, SeedingTyped, Carried, SeedsReachTheKernel
<1> QED BY <1>1, <1>2, <1>3, <1>4, <1>5, <1>6, <1>7, <1>8, <1>9 DEF SeedingNext

\* Whatever registrations of a store overlap, fail or are repeated (EventSeeding.discover
\* and register), an entry is held until a request with it was accepted, unless it was
\* added while one was awaited, and a registration that succeeded leaves nothing behind.
THEOREM NoSeedIsForgotten == SeedingSpec => []SeedsReachTheKernel
<1>1. SeedingInv => SeedsReachTheKernel
  BY DEF SeedingInv
<1> QED BY SeedingStart, SeedingStep, <1>1, PTL DEF SeedingSpec

-----------------------------------------------------------------------------
(* The types of the seed data. *)

LEMMA SeedingTypeStep ==
  ASSUME MaxEntries \in Nat, SeedingTypeOK, [SeedingNext]_seedingVars
  PROVE  SeedingTypeOK'
<1>1. ASSUME Adds, UNCHANGED <<registration, requested, seeded, seedFaults>>,
             discovered' \in [Registrations -> SUBSET (1..added')]
      PROVE  SeedingTypeOK'
  <2>1. added' \in 0..MaxEntries /\ 1..added \subseteq 1..added' /\ added' \in 1..added'
    BY <1>1 DEF Adds, SeedingTypeOK
  <2>2. entries' \subseteq 1..added' /\ overtaken' \subseteq 1..added'
    BY <1>1, <2>1 DEF Adds, SeedingTypeOK
  <2>3. requested' \in [Registrations -> SUBSET (1..added')] /\ seeded' \subseteq 1..added'
    BY <1>1, <2>1 DEF SeedingTypeOK
  <2> QED BY <1>1, <2>1, <2>2, <2>3 DEF SeedingTypeOK
<1>2. CASE ApplicationAdds
  <2>1. discovered' \in [Registrations -> SUBSET (1..added')]
    BY <1>2 DEF ApplicationAdds, Adds, SeedingTypeOK
  <2> QED BY <1>1, <1>2, <2>1 DEF ApplicationAdds
<1>3. ASSUME NEW r \in Registrations, SeederAdds(r) PROVE SeedingTypeOK'
  <2>1. discovered' \in [Registrations -> SUBSET (1..added')]
    BY <1>3 DEF SeederAdds, Adds, SeedingTypeOK
  <2> QED BY <1>1, <1>3, <2>1 DEF SeederAdds
<1>4. ASSUME NEW r \in Registrations,
             Discover(r) \/ Discovered(r) \/ RegistrationFails(r) \/ NothingToRegister(r)
      PROVE  SeedingTypeOK'
  BY <1>4 DEF Discover, Discovered, RegistrationFails, NothingToRegister, At, SeedingTypeOK
<1>5. ASSUME NEW r \in Registrations, Register(r) PROVE SeedingTypeOK'
  BY <1>5 DEF Register, At, HeldWhileSending, StillHeld, SeedingTypeOK
<1>6. ASSUME NEW r \in Registrations, Accepted(r) \/ Refused(r) PROVE SeedingTypeOK'
  <2>1. requested[r] \subseteq 1..added
    BY DEF SeedingTypeOK
  <2>2. CASE Accepted(r)
    BY <2>1, <2>2 DEF Accepted, At, SeedingTypeOK
  <2>3. CASE Refused(r)
    BY <2>1, <2>3 DEF Refused, At, SeedingTypeOK
  <2> QED BY <1>6, <2>2, <2>3
<1>7. ASSUME NEW r \in Registrations, RegisteredAgain(r) PROVE SeedingTypeOK'
  BY <1>7 DEF RegisteredAgain, SeedingTypeOK
<1>8. CASE UNCHANGED seedingVars
  BY <1>8 DEF seedingVars, SeedingTypeOK
<1> QED BY <1>2, <1>3, <1>4, <1>5, <1>6, <1>7, <1>8 DEF SeedingNext

\* Entries, requests and registrations keep their types (EventSeeding.ts).
THEOREM SeedingTypeCorrect ==
  ASSUME MaxEntries \in Nat, MaxSeedFaults \in Nat
  PROVE  SeedingSpec => []SeedingTypeOK
<1>1. SeedingInit => SeedingTypeOK
  BY DEF SeedingInit, SeedingTypeOK, Nothing
<1> QED BY <1>1, SeedingTypeStep, PTL DEF SeedingSpec

-----------------------------------------------------------------------------
(* The event sequence of a scenario: who holds what. *)

EventType == {"covered", "removes", "both", "plain"}
InProcessEvent == [type : EventType, source : EventSources, key : UniqueKeys, scope : ScopeKeys]
Stored == [type : EventType, source : EventSources, key : UniqueKeys, scope : ScopeKeys,
           number : Nat, setup : Nat]

\* Event p of a sequence holds its value, or keeps its cycle open, after the first n.
Holder(w, p, n) ==
  /\ p \in 1..n /\ w[p].type = "covered"
  /\ \A r \in (p + 1)..n : w[r].type = "plain" \/ w[r].source # w[p].source \/ w[r].scope # w[p].scope

OneHolder(w) ==
  \A n \in 0..Len(w) : \A p, q \in 1..n :
    Holder(w, p, n) /\ Holder(w, q, n) /\ w[p].key = w[q].key /\ w[p].scope = w[q].scope
      => w[p].source = w[q].source

OneCycle(w) ==
  \A n \in 1..Len(w) : Claims(w[n]) =>
    \A p \in 1..(n - 1) : Holder(w, p, n - 1) /\ w[p].scope = w[n].scope => w[p].source # w[n].source

UniqueIn(w) == IF definition.constrains = "property" THEN OneHolder(w) ELSE OneCycle(w)

\* An event and what is stored of it.
Same(e, f) == e.type = f.type /\ e.source = f.source /\ e.key = f.key /\ e.scope = f.scope

\* Held, by the first n events of w, is what a holder among them holds.
LEMMA HeldIs ==
  ASSUME NEW w, NEW n \in Nat, NEW v, DOMAIN v = 1..n, \A i \in 1..n : Same(v[i], w[i]), NEW s, NEW k
  PROVE  \A x : x \in Held(v, s, k) <=>
           \E p \in 1..n : Holder(w, p, n) /\ w[p].source = s /\ w[p].scope = k /\ w[p].key = x
<1> DEFINE R == Relevant(v, s, k)
<1>1. R \subseteq 1..n /\ \A i \in 1..n : i \in R <=> w[i].type # "plain" /\ w[i].source = s /\ w[i].scope = k
  BY DEF Relevant, Same
<1>2. R # {} => Max(R) \in R /\ \A i \in R : i <= Max(R)
  <2>1. R \subseteq Nat /\ \A i \in R : i <= n
    BY <1>1
  <2> HIDE DEF R
  <2> QED BY <2>1, MaxOf
<1>3. \A x : x \in Held(v, s, k) <=> R # {} /\ v[Max(R)].type = "covered" /\ x = v[Max(R)].key
  BY DEF Held
<1> HIDE DEF R
<1>4. ASSUME NEW x, R # {}, v[Max(R)].type = "covered", x = v[Max(R)].key
      PROVE  \E p \in 1..n : Holder(w, p, n) /\ w[p].source = s /\ w[p].scope = k /\ w[p].key = x
  <2>1. PICK p \in 1..n : p = Max(R)
    BY <1>1, <1>2, <1>4
  <2>2. p \in R /\ Same(v[p], w[p])
    BY <1>2, <1>4, <2>1
  <2>3. \A r \in (p + 1)..n : r \in 1..n /\ r \notin R
    <3> TAKE r \in (p + 1)..n
    <3>1. r \in 1..n /\ ~(r <= p)
      OBVIOUS
    <3> QED BY <1>2, <1>4, <2>1, <3>1
  <2>4. w[p].type = "covered" /\ w[p].source = s /\ w[p].scope = k /\ w[p].key = x
    BY <1>1, <1>4, <2>1, <2>2 DEF Same
  <2>5. \A r \in (p + 1)..n : w[r].type = "plain" \/ w[r].source # w[p].source \/ w[r].scope # w[p].scope
    BY <1>1, <2>3, <2>4
  <2> QED BY <2>4, <2>5 DEF Holder
<1>5. ASSUME NEW x, NEW p \in 1..n, Holder(w, p, n), w[p].source = s, w[p].scope = k, w[p].key = x
      PROVE  R # {} /\ v[Max(R)].type = "covered" /\ x = v[Max(R)].key
  <2>1. p \in R
    BY <1>1, <1>5 DEF Holder
  <2>2. Max(R) \in 1..n /\ p <= Max(R) /\ Max(R) \in R
    BY <1>1, <1>2, <2>1
  <2>3. Max(R) = p
    <3> SUFFICES ASSUME Max(R) # p PROVE FALSE
      OBVIOUS
    <3>1. Max(R) \in (p + 1)..n
      BY <2>2
    <3>2. w[Max(R)].type = "plain" \/ w[Max(R)].source # w[p].source \/ w[Max(R)].scope # w[p].scope
      BY <1>5, <3>1 DEF Holder
    <3> QED BY <1>1, <1>5, <2>2, <3>2
  <2> QED BY <1>5, <2>1, <2>3 DEF Holder, Same
<1> QED BY <1>3, <1>4, <1>5

\* What is unique after all of a sequence was so after its first events.
LEMMA UniqueBefore ==
  ASSUME NEW w, NEW v, NEW m \in Nat, NEW n \in 0..m, Len(w) = m, Len(v) = n,
         \A i \in 1..n : v[i] = w[i], UniqueIn(w)
  PROVE  UniqueIn(v)
<1>1. \A i \in 0..n : i \in 0..m
  OBVIOUS
<1>2. \A i \in 0..n : \A p : Holder(v, p, i) <=> Holder(w, p, i)
  <2> SUFFICES ASSUME NEW i \in 0..n, NEW p \in 1..i PROVE Holder(v, p, i) <=> Holder(w, p, i)
    BY DEF Holder
  <2>1. v[p] = w[p] /\ \A r \in (p + 1)..i : v[r] = w[r]
    OBVIOUS
  <2> QED BY <2>1 DEF Holder
<1>3. ASSUME OneHolder(w) PROVE OneHolder(v)
  <2> SUFFICES ASSUME NEW i \in 0..n, NEW p \in 1..i, NEW q \in 1..i,
                      Holder(v, p, i), Holder(v, q, i), v[p].key = v[q].key, v[p].scope = v[q].scope
               PROVE  v[p].source = v[q].source
    BY DEF OneHolder
  <2>1. v[p] = w[p] /\ v[q] = w[q]
    OBVIOUS
  <2> QED BY <1>1, <1>2, <1>3, <2>1 DEF OneHolder
<1>4. ASSUME OneCycle(w) PROVE OneCycle(v)
  <2> SUFFICES ASSUME NEW i \in 1..n, Claims(v[i]), NEW p \in 1..(i - 1), Holder(v, p, i - 1), v[p].scope = v[i].scope
               PROVE  v[p].source # v[i].source
    BY DEF OneCycle
  <2>1. v[p] = w[p] /\ v[i] = w[i] /\ i \in 1..m /\ i - 1 \in 0..n
    OBVIOUS
  <2>2. Holder(w, p, i - 1)
    BY <1>2, <2>1
  <2> QED BY <1>4, <2>1, <2>2 DEF OneCycle
<1> QED BY <1>3, <1>4 DEF UniqueIn

\* z is w, and then what is stored of the events of a batch.
Extended(z, w, given) ==
  /\ Len(z) = Len(w) + Len(given)
  /\ \A i \in 1..Len(w) : z[i] = w[i]
  /\ \A j \in 1..Len(given) : Same(given[j], z[Len(w) + j])

\* A batch without a violation keeps what is unique unique.
LEMMA StaysUnique ==
  ASSUME NEW w \in Seq(Stored), NEW given \in Seq(InProcessEvent), UniqueIn(w), Valid(w, given),
         NEW z, Extended(z, w, given)
  PROVE  UniqueIn(z)
<1>a. PICK a \in Nat : a = Len(w)
  OBVIOUS
<1>b. PICK b \in Nat : b = Len(given)
  OBVIOUS
<1>0. Len(z) = a + b /\ (\A i \in 1..a : z[i] = w[i]) /\ \A j \in 1..b : Same(given[j], z[a + j])
  BY <1>a, <1>b DEF Extended
<1>1. /\ a \in Nat /\ b \in Nat /\ DOMAIN w = 1..a /\ DOMAIN given = 1..b
      /\ \A i \in 1..a : w[i] \in Stored
      /\ \A j \in 1..b : given[j] \in InProcessEvent
  BY <1>a, <1>b
<1>2. \A n \in 0..a : \A p : Holder(z, p, n) <=> Holder(w, p, n)
  <2> SUFFICES ASSUME NEW n \in 0..a, NEW p \in 1..n PROVE Holder(z, p, n) <=> Holder(w, p, n)
    BY DEF Holder
  <2>1. z[p] = w[p] /\ \A r \in (p + 1)..n : z[r] = w[r]
    BY <1>0, <1>1
  <2> QED BY <2>1 DEF Holder
<1>3. \A n \in (a + 1)..(a + b) : n - a \in 1..b /\ a + (n - a) = n /\ Same(given[n - a], z[n])
  <2> TAKE n \in (a + 1)..(a + b)
  <2>1. n - a \in 1..b /\ a + (n - a) = n
    BY <1>1
  <2>2. Same(given[n - a], z[a + (n - a)])
    BY <1>0, <2>1
  <2> QED BY <2>1, <2>2
<1>4. ASSUME definition.constrains = "property" PROVE OneHolder(z)
  <2>1. ASSUME NEW n \in 0..(a + b), NEW p \in 1..n, NEW q \in 1..n, p < q,
               Holder(z, p, n), Holder(z, q, n), z[p].key = z[q].key, z[p].scope = z[q].scope
        PROVE  z[p].source = z[q].source
    <3>1. CASE q <= a
      <4>1. PICK m \in 0..a : m <= n /\ q <= m /\ (m = a \/ m = n)
        <5>1. CASE n <= a
          BY <1>1, <2>1, <5>1
        <5>2. CASE n > a
          BY <1>1, <2>1, <3>1, <5>2
        <5> QED BY <1>1, <5>1, <5>2
      <4>2. p \in 1..m /\ q \in 1..m /\ \A r : r \in (p + 1)..m => r \in (p + 1)..n
        BY <2>1, <4>1
      <4>3. \A r : r \in (q + 1)..m => r \in (q + 1)..n
        BY <4>1
      <4>4. Holder(z, p, m) /\ Holder(z, q, m)
        BY <2>1, <4>2, <4>3 DEF Holder
      <4>5. Holder(w, p, m) /\ Holder(w, q, m) /\ z[p] = w[p] /\ z[q] = w[q]
        BY <1>0, <1>1, <1>2, <4>1, <4>2, <4>4
      <4> QED BY <1>a, <1>4, <2>1, <4>1, <4>2, <4>5 DEF UniqueIn, OneHolder
    <3>2. CASE q > a
      <4>1. PICK i \in 1..b : i = q - a /\ Same(given[i], z[q]) /\ given[i] \in InProcessEvent
        <5>1. q \in (a + 1)..(a + b)
          BY <1>1, <2>1, <3>2
        <5> QED BY <1>1, <1>3, <5>1
      <4>2. Claims(given[i])
        BY <2>1, <4>1 DEF Holder, Same, Claims
      <4>3. ~ValueTaken(w, given, i)
        BY <1>1, <1>4, <4>1, <4>2 DEF Valid
      <4>4. CASE p <= a
        <5>1. p \in 1..a /\ z[p] = w[p] /\ \A r : r \in (p + 1)..a => r \in (p + 1)..n
          BY <1>0, <1>1, <2>1, <3>2, <4>4
        <5>2. Holder(z, p, a)
          BY <2>1, <5>1 DEF Holder
        <5>3. Holder(w, p, a)
          BY <1>1, <1>2, <5>2
        <5>4. w[p].key \in Held(w, w[p].source, w[p].scope)
          <6>1. \A j \in 1..a : Same(w[j], w[j])
            BY DEF Same
          <6> QED BY <1>1, <5>1, <5>3, <6>1, HeldIs
        <5>5. w[p].source \in EventSources
          BY <1>1, <5>1 DEF Stored
        <5>6. w[p].key = given[i].key /\ w[p].scope = given[i].scope
          BY <2>1, <4>1, <5>1 DEF Same
        <5>7. w[p].source = given[i].source
          BY <4>3, <5>4, <5>5, <5>6 DEF ValueTaken, DurableOrStaged, OnlyDurable
        <5> QED BY <4>1, <5>1, <5>7 DEF Same
      <4>5. CASE p > a
        <5>1. PICK j \in 1..b : j = p - a /\ Same(given[j], z[p])
          <6>1. p \in (a + 1)..(a + b)
            BY <1>1, <2>1, <4>5
          <6> QED BY <1>3, <6>1
        <5>2. j \in 1..(i - 1)
          BY <1>1, <2>1, <4>1, <5>1
        <5>3. Claims(given[j])
          BY <2>1, <5>1 DEF Holder, Same, Claims
        <5>4. given[j].key = given[i].key /\ given[j].scope = given[i].scope
          BY <2>1, <4>1, <5>1 DEF Same
        <5>5. given[j].source = given[i].source
          BY <4>3, <5>2, <5>3, <5>4 DEF ValueTaken, DurableOrStaged
        <5> QED BY <4>1, <5>1, <5>5 DEF Same
      <4> QED BY <1>1, <2>1, <4>4, <4>5
    <3> QED BY <1>1, <2>1, <3>1, <3>2
  <2>2. ASSUME NEW n \in 0..(a + b), NEW p \in 1..n, NEW q \in 1..n,
               Holder(z, p, n), Holder(z, q, n), z[p].key = z[q].key, z[p].scope = z[q].scope
        PROVE  z[p].source = z[q].source
    <3>1. p < q \/ q < p \/ p = q
      OBVIOUS
    <3> QED BY <2>1, <2>2, <3>1
  <2> QED BY <1>0, <1>1, <2>2 DEF OneHolder
<1>5. ASSUME definition.constrains # "property" PROVE OneCycle(z)
  <2> SUFFICES ASSUME NEW n \in 1..(a + b), Claims(z[n]), NEW p \in 1..(n - 1), Holder(z, p, n - 1),
                      z[p].scope = z[n].scope
               PROVE  z[p].source # z[n].source
    BY <1>0, <1>1 DEF OneCycle
  <2>1. CASE n <= a
    <3>1. n \in 1..a /\ p \in 1..a /\ n - 1 \in 0..a
      BY <1>1, <2>1
    <3>2. Holder(w, p, n - 1) /\ z[p] = w[p] /\ z[n] = w[n]
      BY <1>0, <1>2, <3>1
    <3> QED BY <1>a, <1>1, <1>5, <3>1, <3>2 DEF UniqueIn, OneCycle
  <2>2. CASE n > a
    <3>1. PICK i \in 1..b : i = n - a /\ Same(given[i], z[n]) /\ n - 1 = a + (i - 1) /\ n - 1 \in Nat
      <4>1. n \in (a + 1)..(a + b)
        BY <1>1, <2>2
      <4>2. n - 1 = a + ((n - a) - 1) /\ n - 1 \in Nat
        BY <1>1, <2>2
      <4>3. n - a \in 1..b /\ Same(given[n - a], z[n])
        BY <1>3, <4>1
      <4> QED BY <4>2, <4>3
    <3>2. ~CycleOpen(w, given, i)
      <4>1. Claims(given[i])
        BY <3>1 DEF Same, Claims
      <4> QED BY <1>1, <1>5, <4>1 DEF Valid
    <3> DEFINE v == w \o SubSeq(given, 1, i - 1)
    <3>3. DOMAIN v = 1..(n - 1) /\ \A j \in 1..(n - 1) : Same(v[j], z[j])
      <4>1. /\ SubSeq(given, 1, i - 1) \in Seq(InProcessEvent) /\ Len(SubSeq(given, 1, i - 1)) = i - 1
            /\ \A j \in 1..(i - 1) : SubSeq(given, 1, i - 1)[j] = given[j]
        <5>1. \A j \in 1..(i - 1) : given[j] \in InProcessEvent
          BY <1>1
        <5>2. /\ SubSeq(given, 1, i - 1) \in Seq(InProcessEvent)
              /\ Len(SubSeq(given, 1, i - 1)) = (IF 1 <= i - 1 THEN (i - 1) - 1 + 1 ELSE 0)
              /\ \A j \in 1..((i - 1) - 1 + 1) : SubSeq(given, 1, i - 1)[j] = given[1 + j - 1]
          BY <5>1, SubSeqProperties
        <5>3. (i - 1) - 1 + 1 = i - 1 /\ \A j \in 1..(i - 1) : 1 + j - 1 = j
          OBVIOUS
        <5> QED BY <5>2, <5>3
      <4>2. PICK c \in Seq(InProcessEvent) : c = SubSeq(given, 1, i - 1)
        BY <4>1
      <4>3. w \in Seq(Stored \cup InProcessEvent) /\ c \in Seq(Stored \cup InProcessEvent)
        BY SeqMonotonic
      <4>4. /\ v \in Seq(Stored \cup InProcessEvent) /\ Len(v) = a + (i - 1)
            /\ \A j \in 1..(a + (i - 1)) : v[j] = IF j <= a THEN w[j] ELSE c[j - a]
        <5>1. PICK d \in Nat : d = i - 1
          OBVIOUS
        <5>2. PICK u : u = w \o c
          OBVIOUS
        <5>3. Len(c) = d
          BY <4>1, <4>2, <5>1
        <5>4. u \in Seq(Stored \cup InProcessEvent) /\ Len(u) = a + d /\ \A j \in 1..(a + d) : u[j] = IF j <= a THEN w[j] ELSE c[j - a]
          BY <1>a, <4>3, <5>2, <5>3, ConcatProperties
        <5>5. u = v
          BY <4>2, <5>2
        <5> HIDE DEF v
        <5> QED BY <5>1, <5>4, <5>5
      <4>5. DOMAIN v = 1..(n - 1)
        BY <3>1, <4>4
      <4>6. ASSUME NEW j \in 1..(n - 1) PROVE Same(v[j], z[j])
        <5>1. CASE j <= a
          <6>1. j \in 1..a /\ j \in 1..(a + (i - 1))
            BY <1>1, <3>1, <5>1
          <6>2. v[j] = w[j]
            BY <4>4, <5>1, <6>1
          <6>3. z[j] = w[j]
            BY <1>0, <6>1
          <6> QED BY <6>2, <6>3 DEF Same
        <5>2. CASE j > a
          <6>1. j \in (a + 1)..(a + b) /\ j - a \in 1..(i - 1) /\ ~(j <= a)
            BY <1>1, <3>1, <5>2
          <6>2. v[j] = given[j - a]
            BY <3>1, <4>1, <4>2, <4>4, <6>1
          <6> QED BY <1>3, <6>1, <6>2
        <5>3. j <= a \/ j > a
          BY <1>1
        <5> HIDE DEF v
        <5> QED BY <5>1, <5>2, <5>3
      <4> QED BY <4>5, <4>6
    <3>4. Held(v, given[i].source, given[i].scope) = {}
      BY <3>2 DEF CycleOpen
    <3> HIDE DEF v
    <3>5. z[p].source = given[i].source /\ z[p].scope = given[i].scope => z[p].key \in Held(v, given[i].source, given[i].scope)
      BY <3>1, <3>3, HeldIs
    <3> QED BY <3>1, <3>4, <3>5 DEF Same
  <2> QED BY <1>1, <2>1, <2>2
<1> QED BY <1>4, <1>5 DEF UniqueIn

-----------------------------------------------------------------------------
(* The event sequence of a scenario: its calls. *)

InProcessTyped ==
  /\ definition \in Definitions
  /\ history \in Seq(Stored) /\ staged \in Seq(Stored)
  /\ setup \in [pc : {"none", "staging", "committing"}, todo : Seq(InProcessEvent)]
  /\ setups \in Nat /\ abandoned \subseteq 1..setups

SetupPhases ==
  /\ setup.pc = "none" => staged = <<>>
  /\ setup.pc = "committing" => setup.todo = <<>>
  /\ setup.pc # "none" => setups \notin abandoned /\ setups # 0

WholeIsUnique == UniqueIn(history \o staged)

HistoryNumbers ==
  /\ \A n \in DOMAIN history : history[n].number = n - 1
  /\ \A i \in DOMAIN staged : staged[i].number = Len(history) + i - 1
  /\ announced = [n \in DOMAIN history |-> history[n].number]

\* Events of the setup that commits are the last of the history.
Setups ==
  /\ \A n \in DOMAIN history : history[n].setup <= setups /\ history[n].setup \notin abandoned
  /\ \A i \in DOMAIN staged : staged[i].setup = setups
  /\ setup.pc = "staging" => \A n \in DOMAIN history : history[n].setup # setups
  /\ setup.pc = "committing" =>
       \A n \in DOMAIN history : history[n].setup = setups => \A m \in n..Len(history) : history[m].setup = setups
  /\ \A m, n \in DOMAIN history : m < n /\ history[m].setup = history[n].setup /\ history[m].setup # 0
       => history[m + 1].setup = history[m].setup

InProcessInv == InProcessTyped /\ SetupPhases /\ WholeIsUnique /\ HistoryNumbers /\ Setups

\* z is x, of length a, and then y, of length b.
Joins(z, x, y, a, b) ==
  /\ z = x \o y /\ Len(z) = a + b /\ DOMAIN z = 1..(a + b)
  /\ \A i \in 1..a : z[i] = x[i]
  /\ \A j \in 1..b : z[a + j] = y[j]

\* Two sequences joined: the first, then the second behind it.
LEMMA JoinIs ==
  ASSUME NEW T, NEW x \in Seq(T), NEW y \in Seq(T), NEW a \in Nat, a = Len(x), NEW b \in Nat, b = Len(y)
  PROVE  \E z \in Seq(T) : Joins(z, x, y, a, b)
<1>1. x \o y \in Seq(T) /\ Len(x \o y) = a + b /\ \A i \in 1..(a + b) : (x \o y)[i] = IF i <= a THEN x[i] ELSE y[i - a]
  BY ConcatProperties
<1>2. PICK z \in Seq(T) : z = x \o y /\ Len(z) = a + b /\ \A i \in 1..(a + b) : z[i] = IF i <= a THEN x[i] ELSE y[i - a]
  BY <1>1
<1>3. \A i \in 1..a : i \in 1..(a + b) /\ i <= a
  OBVIOUS
<1>4. \A j \in 1..b : a + j \in 1..(a + b) /\ ~(a + j <= a) /\ (a + j) - a = j
  OBVIOUS
<1>5. \A i \in 1..a : z[i] = x[i]
  BY <1>2, <1>3
<1>6. \A j \in 1..b : z[a + j] = y[j]
  BY <1>2, <1>4
<1>7. DOMAIN z = 1..(a + b)
  BY <1>2
<1> QED BY <1>2, <1>5, <1>6, <1>7, Zenon DEF Joins

\* A numbered event is stored, with its number and its setup.
LEMMA NumberedIs ==
  ASSUME NEW e \in InProcessEvent, NEW n \in Nat, NEW by \in Nat
  PROVE  /\ Numbered(e, n, by) \in Stored /\ Same(e, Numbered(e, n, by))
         /\ Numbered(e, n, by).number = n /\ Numbered(e, n, by).setup = by
BY DEF Numbered, Stored, InProcessEvent, Same

\* What clients append are sequences of events.
LEMMA AppendedAreEvents == \A given \in Appended : given \in Seq(InProcessEvent) /\ DOMAIN given = 1..Len(given) /\ Len(given) \in Nat
<1> SUFFICES ASSUME NEW given \in Appended PROVE given \in Seq(InProcessEvent) /\ DOMAIN given = 1..Len(given) /\ Len(given) \in Nat
  OBVIOUS
<1>1. PICK n \in 1..2 : given \in [1..n -> Events]
  BY DEF Appended
<1>2. Events \subseteq InProcessEvent
  BY DEF Events, InProcessEvent, EventType
<1>3. given \in [1..n -> InProcessEvent]
  BY <1>1, <1>2
<1> QED BY <1>3

\* The invariant holds at the start.
LEMMA InProcessStart == InProcessInit => InProcessInv
<1> SUFFICES ASSUME InProcessInit PROVE InProcessInv
  OBVIOUS
<1>1. InProcessTyped /\ SetupPhases
  BY DEF InProcessInit, InProcessTyped, SetupPhases, NoSetup
<1>2. HistoryNumbers /\ Setups
  BY DEF InProcessInit, HistoryNumbers, Setups, NoSetup
<1>3. WholeIsUnique
  <2>1. PICK z : z = history \o staged /\ Len(z) = 0
    BY DEF InProcessInit
  <2>2. OneHolder(z) /\ OneCycle(z)
    BY <2>1 DEF OneHolder, OneCycle
  <2> QED BY <2>1, <2>2 DEF WholeIsUnique, UniqueIn
<1> QED BY <1>1, <1>2, <1>3 DEF InProcessInv

\* A batch that was valid joins the history as a whole; one that was not leaves it alone.
LEMMA AppendAllKeeps ==
  ASSUME InProcessInv, NEW given \in Appended, AppendAll(given)
  PROVE  InProcessInv'
<1> USE DEF InProcessInv
<1>1. /\ setup.pc = "none" /\ staged = <<>>
      /\ UNCHANGED <<definition, staged, setup, setups, abandoned>>
  BY DEF AppendAll, Overlaps, SetupPhases
<1>2. CASE ~Valid(history, given)
  <2>1. UNCHANGED <<definition, staged, setup, setups, abandoned, history, announced>>
    BY <1>1, <1>2 DEF AppendAll
  <2>2. (InProcessTyped /\ SetupPhases)'
    BY <2>1 DEF InProcessTyped, SetupPhases
  <2>3. (HistoryNumbers /\ Setups)'
    BY <2>1 DEF HistoryNumbers, Setups
  <2>4. WholeIsUnique'
    BY <2>1 DEF WholeIsUnique, UniqueIn
  <2> QED BY <2>2, <2>3, <2>4
<1>3. CASE Valid(history, given)
  <2>1. PICK h \in Seq(Stored) : h = history
    BY DEF InProcessTyped
  <2>2. PICK a \in Nat : a = Len(h) /\ DOMAIN h = 1..a
    OBVIOUS
  <2>3. PICK b \in Nat : b = Len(given) /\ DOMAIN given = 1..b /\ given \in Seq(InProcessEvent) /\ \A j \in 1..b : given[j] \in InProcessEvent
    BY AppendedAreEvents
  <2> DEFINE stored == [i \in 1..b |-> Numbered(given[i], a + i - 1, 0)]
  <2>4. \A i \in 1..b : a + i - 1 \in Nat
    OBVIOUS
  <2>5. \A i \in 1..b : /\ stored[i] \in Stored /\ Same(given[i], stored[i])
                        /\ stored[i].number = a + i - 1 /\ stored[i].setup = 0
    BY <2>3, <2>4, NumberedIs
  <2>6. stored \in Seq(Stored) /\ Len(stored) = b /\ DOMAIN stored = 1..b
    BY <2>5
  <2>7. history' = h \o stored /\ announced' = announced \o [i \in 1..b |-> stored[i].number]
    BY <1>3, <2>1, <2>2, <2>3, <2>6 DEF AppendAll
  <2> HIDE DEF stored
  <2>8. PICK z \in Seq(Stored) : Joins(z, h, stored, a, b)
    <3>1. a = Len(h) /\ b = Len(stored) /\ stored \in Seq(Stored)
      BY <2>2, <2>6
    <3> QED BY <3>1, JoinIs
  <2> USE DEF Joins
  <2>9. history' = z
    BY <2>7, <2>8
  <2>10. \A i \in 1..(a + b) : i \in 1..a \/ (i - a \in 1..b /\ a + (i - a) = i)
    OBVIOUS
  <2>11. InProcessTyped'
    BY <1>1, <2>9 DEF InProcessTyped
  <2>12. SetupPhases'
    BY <1>1 DEF SetupPhases
  <2>13. WholeIsUnique'
    <3>1. history \o staged = h
      BY <1>1, <2>1
    <3>2. history' \o staged' = z
      BY <1>1, <2>9
    <3>3. UniqueIn(h)
      BY <3>1 DEF WholeIsUnique
    <3>4. \A j \in 1..b : Same(given[j], z[a + j])
      BY <2>5, <2>8
    <3>5. Valid(h, given)
      BY <1>3, <2>1
    <3>6. UniqueIn(z)
      <4>1. Extended(z, h, given)
        BY <2>2, <2>3, <2>8, <3>4 DEF Extended
      <4> QED BY <2>3, <3>3, <3>5, <4>1, StaysUnique
    <3> QED BY <1>1, <3>2, <3>6 DEF WholeIsUnique, UniqueIn
  <2>14. HistoryNumbers'
    <3>1. \A n \in 1..(a + b) : z[n].number = n - 1
      <4> TAKE n \in 1..(a + b)
      <4>1. CASE n \in 1..a
        BY <2>1, <2>2, <2>8, <4>1 DEF HistoryNumbers
      <4>2. CASE n - a \in 1..b /\ a + (n - a) = n
        <5>1. z[n] = stored[n - a] /\ stored[n - a].number = a + (n - a) - 1
          BY <2>5, <2>8, <4>2
        <5> QED BY <4>2, <5>1
      <4> QED BY <2>10, <4>1, <4>2
    <3>2. announced' = [n \in 1..(a + b) |-> z[n].number]
      <4>1. PICK x \in Seq(Nat) : x = announced /\ Len(x) = a /\ \A i \in 1..a : x[i] = i - 1
        <5>1. announced = [n \in 1..a |-> h[n].number]
          BY <2>1, <2>2 DEF HistoryNumbers
        <5>2. \A i \in 1..a : h[i].number \in Nat
          <6>1. \A i \in 1..a : h[i] \in Stored
            BY <2>2
          <6> QED BY <6>1 DEF Stored
        <5>3. \A i \in 1..a : h[i].number = i - 1
          BY <2>1, <2>2 DEF HistoryNumbers
        <5> DEFINE x == [n \in 1..a |-> h[n].number]
        <5>4. x \in Seq(Nat) /\ Len(x) = a /\ \A i \in 1..a : x[i] = i - 1
          BY <5>2, <5>3
        <5> HIDE DEF x
        <5>5. x = announced
          BY <5>1 DEF x
        <5> QED BY <5>4, <5>5, Zenon
      <4>2. PICK y \in Seq(Nat) : y = [i \in 1..b |-> stored[i].number] /\ Len(y) = b /\ \A i \in 1..b : y[i] = a + i - 1
        <5> DEFINE y == [i \in 1..b |-> stored[i].number]
        <5>0. \A i \in 1..b : stored[i].number \in Nat /\ stored[i].number = a + i - 1
          BY <2>4, <2>5
        <5>1. y \in Seq(Nat) /\ Len(y) = b /\ \A i \in 1..b : y[i] = a + i - 1
          BY <5>0
        <5>2. y = [i \in 1..b |-> stored[i].number]
          OBVIOUS
        <5> HIDE DEF y
        <5> QED BY <5>1, <5>2, Zenon
      <4>3. PICK u \in Seq(Nat) : Joins(u, x, y, a, b)
        <5>1. a = Len(x) /\ b = Len(y)
          BY <4>1, <4>2
        <5> HIDE DEF Joins
        <5> QED BY <5>1, JoinIs
      <4>4. \A n \in 1..(a + b) : u[n] = n - 1
        <5> TAKE n \in 1..(a + b)
        <5>1. CASE n \in 1..a
          BY <4>1, <4>3, <5>1
        <5>2. CASE n - a \in 1..b /\ a + (n - a) = n
          <6>1. u[a + (n - a)] = y[n - a] /\ y[n - a] = a + (n - a) - 1
            BY <4>2, <4>3, <5>2
          <6> QED BY <5>2, <6>1
        <5> QED BY <2>10, <5>1, <5>2
      <4>5. u = [n \in 1..(a + b) |-> z[n].number]
        <5>1. \A n \in 1..(a + b) : u[n] = z[n].number
          BY <3>1, <4>4
        <5>2. u \in [1..(a + b) -> Nat]
          <6>1. u \in [1..Len(u) -> Nat]
            OBVIOUS
          <6> QED BY <4>3, <6>1
        <5> QED BY <5>1, <5>2
      <4>6. announced' = u
        BY <2>7, <4>1, <4>2, <4>3
      <4> QED BY <4>5, <4>6
    <3> QED BY <1>1, <2>8, <2>9, <3>1, <3>2, SMTT(30) DEF HistoryNumbers
  <2>15. Setups'
    <3>1. \A n \in 1..(a + b) : (n \in 1..a /\ z[n] = h[n]) \/ (n \notin 1..a /\ z[n].setup = 0)
      <4> TAKE n \in 1..(a + b)
      <4>1. CASE n \in 1..a
        BY <2>8, <4>1
      <4>2. CASE n - a \in 1..b /\ a + (n - a) = n
        <5>1. z[n] = stored[n - a] /\ stored[n - a].setup = 0
          BY <2>5, <2>8, <4>2
        <5>2. n \notin 1..a
          BY <4>2
        <5> QED BY <5>1, <5>2
      <4> QED BY <2>10, <4>1, <4>2
    <3>2. \A n \in 1..(a + b) : z[n].setup <= setups /\ z[n].setup \notin abandoned
      <4>1. 0 <= setups /\ 0 \notin abandoned
        BY DEF InProcessTyped
      <4>2. \A n \in 1..a : h[n].setup <= setups /\ h[n].setup \notin abandoned
        BY <2>1, <2>2 DEF Setups
      <4> QED BY <3>1, <4>1, <4>2
    <3>3. \A m, n \in 1..(a + b) : m < n /\ z[m].setup = z[n].setup /\ z[m].setup # 0 => z[m + 1].setup = z[m].setup
      <4> TAKE m, n \in 1..(a + b)
      <4> HAVE m < n /\ z[m].setup = z[n].setup /\ z[m].setup # 0
      <4>1. m \in 1..a /\ n \in 1..a /\ z[m] = h[m] /\ z[n] = h[n]
        BY <3>1
      <4>2. m + 1 \in 1..a
        BY <4>1
      <4>3. z[m + 1] = h[m + 1]
        BY <2>8, <4>2
      <4> QED BY <2>1, <2>2, <4>1, <4>3 DEF Setups
    <3>4. DOMAIN history' = 1..(a + b)
      BY <2>8, <2>9
    <3>5. \A n \in DOMAIN history' : history'[n].setup <= setups' /\ history'[n].setup \notin abandoned'
      BY <1>1, <2>9, <3>2, <3>4
    <3>6. \A i \in DOMAIN staged' : staged'[i].setup = setups'
      BY <1>1 DEF Setups
    <3>7. setup'.pc # "staging" /\ setup'.pc # "committing"
      BY <1>1
    <3>8. \A m, n \in DOMAIN history' : m < n /\ history'[m].setup = history'[n].setup /\ history'[m].setup # 0
            => history'[m + 1].setup = history'[m].setup
      BY <2>9, <3>3, <3>4
    <3> QED BY <3>5, <3>6, <3>7, <3>8 DEF Setups
  <2> QED BY <2>11, <2>12, <2>13, <2>14, <2>15
<1> QED BY <1>2, <1>3

\* The history and what is staged, as constants.
LEMMA Parts ==
  ASSUME InProcessTyped
  PROVE  \E h \in Seq(Stored), s \in Seq(Stored), a \in Nat, c \in Nat :
           /\ h = history /\ s = staged /\ a = Len(h) /\ c = Len(s) /\ DOMAIN h = 1..a /\ DOMAIN s = 1..c
           /\ \A n \in 1..a : h[n] \in Stored
           /\ \A i \in 1..c : s[i] \in Stored
<1>1. history \in Seq(Stored) /\ staged \in Seq(Stored)
  BY DEF InProcessTyped
<1>2. /\ Len(history) \in Nat /\ Len(staged) \in Nat
      /\ DOMAIN history = 1..Len(history) /\ DOMAIN staged = 1..Len(staged)
      /\ \A n \in 1..Len(history) : history[n] \in Stored
      /\ \A i \in 1..Len(staged) : staged[i] \in Stored
  BY <1>1
<1> QED BY <1>1, <1>2, Zenon

\* A setup stages its events one by one, each valid after the history and the staged ones.
LEMMA StageKeeps ==
  ASSUME InProcessInv, StageNext
  PROVE  InProcessInv'
<1> USE DEF InProcessInv
<1>1. /\ setup.pc = "staging" /\ setup.todo # <<>> /\ setup.todo \in Seq(InProcessEvent) /\ setups \in Nat
      /\ UNCHANGED <<definition, history, announced, setups, abandoned>>
      /\ setup'.pc = "staging" /\ setup'.todo = Tail(setup.todo) /\ DOMAIN setup' = {"pc", "todo"}
      /\ setup' = [pc |-> "staging", todo |-> Tail(setup.todo)]
  BY DEF StageNext, InProcessTyped
<1>2. PICK h \in Seq(Stored), s \in Seq(Stored), a \in Nat, c \in Nat :
        /\ h = history /\ s = staged /\ a = Len(h) /\ c = Len(s) /\ DOMAIN h = 1..a /\ DOMAIN s = 1..c
        /\ \A n \in 1..a : h[n] \in Stored
        /\ \A i \in 1..c : s[i] \in Stored
  BY Parts
<1>3. PICK e \in InProcessEvent : e = Head(setup.todo)
  BY <1>1
<1>4. PICK x \in Stored : x = Numbered(e, a + c, setups) /\ Same(e, x) /\ x.number = a + c /\ x.setup = setups
  <2>1. a + c \in Nat
    OBVIOUS
  <2> QED BY <1>1, <2>1, NumberedIs
<1>5. PICK t \in Seq(Stored) : /\ t = Append(s, x) /\ Len(t) = c + 1 /\ DOMAIN t = 1..(c + 1)
                               /\ \A i \in 1..c : t[i] = s[i]
                               /\ t[c + 1] = x
  <2> DEFINE t == Append(s, x)
  <2>1. /\ t \in Seq(Stored) /\ Len(t) = c + 1 /\ DOMAIN t = 1..(c + 1)
        /\ \A i \in 1..c : t[i] = s[i]
        /\ t[c + 1] = x
    BY <1>2
  <2> QED BY <2>1
<1>6. staged' = t
  BY <1>2, <1>3, <1>4, <1>5 DEF StageNext, NextNumber, FromStaged
<1>7. \A i \in 1..(c + 1) : i \in 1..c \/ i = c + 1
  OBVIOUS
<1>8. InProcessTyped'
  <2>1. Tail(setup.todo) \in Seq(InProcessEvent)
    BY <1>1
  <2> QED BY <1>1, <1>6, <2>1 DEF InProcessTyped
<1>9. SetupPhases'
  BY <1>1 DEF SetupPhases
<1>10. WholeIsUnique'
  <2>1. PICK w \in Seq(Stored) : Joins(w, h, s, a, c)
    BY <1>2, JoinIs
  <2>2. PICK z \in Seq(Stored) : Joins(z, h, t, a, c + 1)
    <3>1. c + 1 \in Nat /\ c + 1 = Len(t)
      BY <1>5
    <3> QED BY <1>2, <3>1, JoinIs
  <2>3. Len(w) = a + c /\ a + c \in Nat /\ Len(z) = (a + c) + 1
    BY <2>1, <2>2 DEF Joins
  <2>4. \A i \in 1..(a + c) : z[i] = w[i]
    <3> TAKE i \in 1..(a + c)
    <3>1. CASE i \in 1..a
      BY <2>1, <2>2, <3>1 DEF Joins
    <3>2. CASE i \notin 1..a
      <4>1. i - a \in 1..c /\ i - a \in 1..(c + 1) /\ a + (i - a) = i
        BY <3>2
      <4>2. w[a + (i - a)] = s[i - a] /\ z[a + (i - a)] = t[i - a]
        BY <2>1, <2>2, <4>1 DEF Joins
      <4> QED BY <1>5, <4>1, <4>2
    <3> QED BY <3>1, <3>2
  <2>5. PICK given \in Seq(InProcessEvent) : given = <<e>> /\ Len(given) = 1
    <3>1. <<e>> \in Seq(InProcessEvent) /\ Len(<<e>>) = 1
      OBVIOUS
    <3> QED BY <3>1
  <2>6. \A j \in 1..1 : Same(given[j], z[(a + c) + j])
    <3>1. z[a + (c + 1)] = x
      <4>1. c + 1 \in 1..(c + 1)
        OBVIOUS
      <4>2. z[a + (c + 1)] = t[c + 1]
        BY <2>2, <4>1 DEF Joins
      <4> QED BY <1>5, <4>2
    <3>2. (a + c) + 1 = a + (c + 1) /\ \A j \in 1..1 : j = 1
      OBVIOUS
    <3>3. given[1] = e
      BY <2>5
    <3> QED BY <1>4, <3>1, <3>2, <3>3
  <2>7. w = history \o staged /\ z = history \o t
    BY <1>2, <2>1, <2>2 DEF Joins
  <2>8. Valid(w, given) /\ UniqueIn(w)
    BY <1>3, <2>5, <2>7 DEF StageNext, WholeIsUnique
  <2>9. UniqueIn(z)
    <3>1. Extended(z, w, given)
      BY <2>3, <2>4, <2>5, <2>6 DEF Extended
    <3> HIDE DEF InProcessInv
    <3> QED BY <2>8, <3>1, StaysUnique
  <2>10. history' \o staged' = z
    BY <1>1, <1>6, <2>7
  <2> QED BY <1>1, <2>9, <2>10 DEF WholeIsUnique, UniqueIn
<1>11. HistoryNumbers'
  <2>1. \A i \in 1..c : t[i].number = a + i - 1
    BY <1>2, <1>5 DEF HistoryNumbers
  <2>2. t[c + 1].number = a + (c + 1) - 1
    BY <1>4, <1>5
  <2>3. \A i \in 1..(c + 1) : t[i].number = a + i - 1
    BY <1>7, <2>1, <2>2
  <2> QED BY <1>1, <1>2, <1>5, <1>6, <2>3 DEF HistoryNumbers
<1>12. Setups'
  <2>1. \A i \in 1..c : t[i].setup = setups
    BY <1>2, <1>5 DEF Setups
  <2>2. \A i \in 1..(c + 1) : t[i].setup = setups
    BY <1>4, <1>5, <1>7, <2>1
  <2> QED BY <1>1, <1>2, <1>5, <1>6, <2>2 DEF Setups
<1> QED BY <1>8, <1>9, <1>10, <1>11, <1>12

\* A setup that fails leaves the history as it was, as what it staged is dropped.
LEMMA FailKeeps ==
  ASSUME InProcessInv, SetupFails
  PROVE  InProcessInv'
<1> USE DEF InProcessInv
<1>1. /\ setup.pc = "staging" /\ setups \in Nat /\ setups # 0
      /\ UNCHANGED <<definition, history, announced, setups>>
      /\ staged' = <<>> /\ setup' = NoSetup /\ abandoned' = abandoned \cup {setups}
  BY DEF SetupFails, SetupPhases, InProcessTyped
<1>2. PICK h \in Seq(Stored), s \in Seq(Stored), a \in Nat, c \in Nat :
        /\ h = history /\ s = staged /\ a = Len(h) /\ c = Len(s) /\ DOMAIN h = 1..a /\ DOMAIN s = 1..c
        /\ \A n \in 1..a : h[n] \in Stored
        /\ \A i \in 1..c : s[i] \in Stored
  BY Parts
<1>3. InProcessTyped'
  <2>1. NoSetup \in [pc : {"none", "staging", "committing"}, todo : Seq(InProcessEvent)]
    BY DEF NoSetup
  <2>2. <<>> \in Seq(Stored)
    OBVIOUS
  <2>3. setup' \in [pc : {"none", "staging", "committing"}, todo : Seq(InProcessEvent)] /\ staged' \in Seq(Stored)
    BY <1>1, <2>1, <2>2
  <2>4. abandoned' \subseteq 1..setups'
    <3>1. setups \in Nat /\ setups # 0 /\ abandoned \subseteq 1..setups
      BY <1>1 DEF InProcessTyped
    <3>2. setups \in 1..setups
      BY <3>1
    <3> QED BY <1>1, <3>1, <3>2
  <2>5. definition' \in Definitions /\ history' \in Seq(Stored) /\ setups' \in Nat
    BY <1>1 DEF InProcessTyped
  <2> QED BY <2>3, <2>4, <2>5 DEF InProcessTyped
<1>4. SetupPhases'
  BY <1>1 DEF SetupPhases, NoSetup
<1>5. WholeIsUnique'
  <2>1. PICK w \in Seq(Stored) : Joins(w, h, s, a, c)
    BY <1>2, JoinIs
  <2>2. h \o <<>> = h
    OBVIOUS
  <2>3. UniqueIn(w)
    BY <1>2, <2>1 DEF WholeIsUnique, Joins
  <2>4. Len(w) = a + c /\ a + c \in Nat /\ a \in 0..(a + c) /\ Len(h) = a /\ \A i \in 1..a : h[i] = w[i]
    BY <1>2, <2>1 DEF Joins
  <2>5. UniqueIn(h)
    BY <2>3, <2>4, UniqueBefore
  <2> QED BY <1>1, <1>2, <2>2, <2>5 DEF WholeIsUnique, UniqueIn
<1>6. HistoryNumbers'
  BY <1>1 DEF HistoryNumbers
<1>7. Setups'
  <2>1. setup'.pc = "none" /\ DOMAIN staged' = {}
    BY <1>1 DEF NoSetup
  <2>2. \A n \in DOMAIN history : history[n].setup \notin abandoned \cup {setups}
    BY <1>1 DEF Setups
  <2> QED BY <1>1, <2>1, <2>2 DEF Setups
<1> QED BY <1>3, <1>4, <1>5, <1>6, <1>7

\* A setup commits what it staged event by event, with nothing in between.
LEMMA CommitKeeps ==
  ASSUME InProcessInv, CommitNext
  PROVE  InProcessInv'
<1> USE DEF InProcessInv
<1>1. /\ setup.pc # "none" /\ setup.todo = <<>> /\ staged # <<>> /\ setups \in Nat
      /\ UNCHANGED <<definition, setups, abandoned>>
      /\ setup'.pc = "committing" /\ setup'.todo = <<>> /\ setup' = [pc |-> "committing", todo |-> <<>>]
  BY DEF CommitNext, InProcessTyped
<1>2. PICK h \in Seq(Stored), s \in Seq(Stored), a \in Nat, c \in Nat :
        /\ h = history /\ s = staged /\ a = Len(h) /\ c = Len(s) /\ DOMAIN h = 1..a /\ DOMAIN s = 1..c
        /\ \A n \in 1..a : h[n] \in Stored
        /\ \A i \in 1..c : s[i] \in Stored
  BY Parts
<1>3. PICK d \in Nat : c = d + 1
  <2>1. c # 0
    BY <1>1, <1>2
  <2>2. c - 1 \in Nat /\ c = (c - 1) + 1
    BY <2>1
  <2> QED BY <2>2
<1>4. PICK x \in Stored : x = Head(s) /\ x = s[1] /\ x.number = a /\ x.setup = setups
  <2>1. 1 \in 1..c
    BY <1>3
  <2>2. Head(s) = s[1] /\ s[1] \in Stored
    BY <1>2, <2>1
  <2>3. s[1].number = a + 1 - 1 /\ s[1].setup = setups
    BY <1>2, <2>1 DEF HistoryNumbers, Setups
  <2> QED BY <2>2, <2>3
<1>5. PICK t \in Seq(Stored) : t = Tail(s) /\ Len(t) = d /\ DOMAIN t = 1..d /\ \A i \in 1..d : t[i] = s[i + 1]
  <2> DEFINE t == Tail(s)
  <2>1. s # <<>>
    BY <1>1, <1>2
  <2>2. t \in Seq(Stored) /\ Len(t) = d /\ DOMAIN t = 1..d /\ \A i \in 1..d : t[i] = s[i + 1]
    BY <1>2, <1>3, <2>1
  <2> QED BY <2>2
<1>6. PICK g \in Seq(Stored) : /\ g = Append(h, x) /\ Len(g) = a + 1 /\ DOMAIN g = 1..(a + 1)
                               /\ \A n \in 1..a : g[n] = h[n]
                               /\ g[a + 1] = x
  <2> DEFINE g == Append(h, x)
  <2>1. /\ g \in Seq(Stored) /\ Len(g) = a + 1 /\ DOMAIN g = 1..(a + 1)
        /\ \A n \in 1..a : g[n] = h[n]
        /\ g[a + 1] = x
    BY <1>2
  <2> QED BY <2>1
<1>7. history' = g /\ staged' = t /\ announced' = Append(announced, a)
  BY <1>2, <1>4, <1>5, <1>6 DEF CommitNext
<1>8. \A n \in 1..(a + 1) : n \in 1..a \/ n = a + 1
  OBVIOUS
<1>9. InProcessTyped'
  <2>1. <<>> \in Seq(InProcessEvent)
    OBVIOUS
  <2> QED BY <1>1, <1>7, <2>1 DEF InProcessTyped
<1>10. SetupPhases'
  BY <1>1 DEF SetupPhases
<1>11. WholeIsUnique'
  <2>1. PICK w \in Seq(Stored) : Joins(w, h, s, a, c)
    BY <1>2, JoinIs
  <2>2. PICK z \in Seq(Stored) : Joins(z, g, t, a + 1, d)
    <3>1. a + 1 \in Nat /\ a + 1 = Len(g) /\ d = Len(t)
      BY <1>5, <1>6
    <3> QED BY <3>1, JoinIs
  <2>3. Len(w) = a + c /\ a + c \in Nat /\ a + c \in 0..(a + c) /\ Len(z) = a + c
    BY <1>3, <2>1, <2>2 DEF Joins
  <2>4. \A i \in 1..(a + c) : z[i] = w[i]
    <3> TAKE i \in 1..(a + c)
    <3>1. CASE i \in 1..a
      <4>1. i \in 1..(a + 1)
        BY <3>1
      <4> QED BY <1>6, <2>1, <2>2, <3>1, <4>1 DEF Joins
    <3>2. CASE i = a + 1
      <4>1. i \in 1..(a + 1) /\ 1 \in 1..c
        BY <1>3, <3>2
      <4>2. w[a + 1] = s[1] /\ z[a + 1] = g[a + 1]
        BY <2>1, <2>2, <3>2, <4>1 DEF Joins
      <4> QED BY <1>4, <1>6, <3>2, <4>2
    <3>3. CASE i \notin 1..(a + 1)
      <4>1. /\ i - (a + 1) \in 1..d /\ (a + 1) + (i - (a + 1)) = i
            /\ i - a \in 1..c /\ a + (i - a) = i /\ (i - (a + 1)) + 1 = i - a
        BY <1>3, <3>3
      <4>2. w[a + (i - a)] = s[i - a] /\ z[(a + 1) + (i - (a + 1))] = t[i - (a + 1)]
        BY <2>1, <2>2, <4>1 DEF Joins
      <4> QED BY <1>5, <4>1, <4>2
    <3> QED BY <1>8, <3>1, <3>2, <3>3
  <2>5. UniqueIn(w)
    BY <1>2, <2>1 DEF WholeIsUnique, Joins
  <2>6. UniqueIn(z)
    BY <2>3, <2>4, <2>5, UniqueBefore
  <2>7. history' \o staged' = z
    BY <1>7, <2>2 DEF Joins
  <2> QED BY <1>1, <2>6, <2>7 DEF WholeIsUnique, UniqueIn
<1>12. HistoryNumbers'
  <2>1. \A n \in 1..a : g[n].number = n - 1
    BY <1>2, <1>6 DEF HistoryNumbers
  <2>2. \A n \in 1..(a + 1) : g[n].number = n - 1
    BY <1>4, <1>6, <1>8, <2>1
  <2>3. \A i \in 1..d : t[i].number = (a + 1) + i - 1
    <3> TAKE i \in 1..d
    <3>1. i + 1 \in 1..c
      BY <1>3
    <3>2. s[i + 1].number = a + (i + 1) - 1
      BY <1>2, <3>1 DEF HistoryNumbers
    <3> QED BY <1>5, <3>2
  <2>4. announced' = [n \in 1..(a + 1) |-> g[n].number]
    <3>1. announced = [n \in 1..a |-> h[n].number] /\ \A n \in 1..a : h[n].number = n - 1 /\ h[n].number \in Nat
      <4>1. \A n \in 1..a : h[n].number \in Nat
        BY <1>2 DEF Stored
      <4> QED BY <1>2, <4>1 DEF HistoryNumbers
    <3> DEFINE u == [n \in 1..a |-> h[n].number]
               v == Append(u, a)
    <3>2. u \in Seq(Nat) /\ Len(u) = a /\ \A n \in 1..a : u[n] = h[n].number
      BY <3>1
    <3>5. announced' = v
      BY <1>7, <3>1
    <3> HIDE DEF u
    <3>7. v \in Seq(Nat) /\ Len(v) = a + 1 /\ (\A n \in 1..a : v[n] = u[n]) /\ v[a + 1] = a
      BY <3>2
    <3> HIDE DEF v
    <3>3. v \in [1..(a + 1) -> Nat]
      <4>1. v \in [1..Len(v) -> Nat]
        BY <3>7
      <4> QED BY <3>7, <4>1
    <3>4. \A n \in 1..(a + 1) : v[n] = g[n].number
      BY <1>4, <1>6, <1>8, <3>2, <3>7
    <3>6. v = [n \in 1..(a + 1) |-> g[n].number]
      BY <3>3, <3>4
    <3> QED BY <3>5, <3>6
  <2> QED BY <1>5, <1>6, <1>7, <2>2, <2>3, <2>4 DEF HistoryNumbers
<1>13. Setups'
  <2>1. \A i \in 1..d : t[i].setup = setups
    <3> TAKE i \in 1..d
    <3>1. i + 1 \in 1..c
      BY <1>3
    <3> QED BY <1>2, <1>5, <3>1, SMTT(30) DEF Setups
  <2>2. \A n \in 1..a : h[n].setup = setups => \A m \in n..a : h[m].setup = setups
    <3>1. setup.pc \in {"staging", "committing"}
      BY <1>1 DEF InProcessTyped
    <3>2. CASE setup.pc = "staging"
      BY <1>2, <3>2 DEF Setups
    <3>3. CASE setup.pc = "committing"
      BY <1>2, <3>3 DEF Setups
    <3> QED BY <3>1, <3>2, <3>3
  <2>3. \A n \in 1..(a + 1) : g[n].setup = setups => \A m \in n..(a + 1) : g[m].setup = setups
    <3> SUFFICES ASSUME NEW n \in 1..(a + 1), g[n].setup = setups, NEW m \in n..(a + 1)
                 PROVE  g[m].setup = setups
      OBVIOUS
    <3>1. m \in 1..(a + 1)
      OBVIOUS
    <3>2. CASE m = a + 1
      BY <1>4, <1>6, <3>2
    <3>3. CASE m \in 1..a
      <4>1. n \in 1..a /\ m \in n..a
        BY <3>3
      <4> QED BY <1>6, <2>2, <3>3, <4>1
    <3> QED BY <1>8, <3>1, <3>2, <3>3
  <2>4. \A n \in 1..(a + 1) : g[n].setup <= setups /\ g[n].setup \notin abandoned
    <3>1. \A n \in 1..a : h[n].setup <= setups /\ h[n].setup \notin abandoned
      BY <1>2 DEF Setups
    <3>2. setups <= setups /\ setups \notin abandoned
      BY <1>1 DEF SetupPhases
    <3> QED BY <1>4, <1>6, <1>8, <3>1, <3>2
  <2>5. \A m, n \in 1..(a + 1) : m < n /\ g[m].setup = g[n].setup /\ g[m].setup # 0 => g[m + 1].setup = g[m].setup
    <3> TAKE m, n \in 1..(a + 1)
    <3> HAVE m < n /\ g[m].setup = g[n].setup /\ g[m].setup # 0
    <3>1. m \in 1..a /\ m + 1 \in 1..(a + 1) /\ m + 1 \in m..(a + 1)
      OBVIOUS
    <3>2. CASE n \in 1..a
      <4>1. m + 1 \in 1..a
        BY <3>2
      <4>2. h[m + 1].setup = h[m].setup
        <5>1. \A i, j \in 1..a : i < j /\ h[i].setup = h[j].setup /\ h[i].setup # 0 => h[i + 1].setup = h[i].setup
          BY <1>2 DEF Setups
        <5>2. g[m] = h[m] /\ g[n] = h[n]
          BY <1>6, <3>1, <3>2
        <5> QED BY <3>1, <3>2, <5>1, <5>2
      <4> QED BY <1>6, <3>1, <4>1, <4>2
    <3>3. CASE n = a + 1
      <4>1. g[m].setup = setups
        BY <1>4, <1>6, <3>3
      <4> QED BY <2>3, <3>1, <4>1
    <3> QED BY <1>8, <3>2, <3>3
  <2>6. /\ setup'.pc = "committing" /\ setups' = setups /\ abandoned' = abandoned
        /\ history' = g /\ staged' = t /\ Len(g) = a + 1 /\ DOMAIN g = 1..(a + 1) /\ DOMAIN t = 1..d
    BY <1>1, <1>5, <1>6, <1>7
  <2> HIDE DEF InProcessInv
  <2> QED BY <2>1, <2>3, <2>4, <2>5, <2>6 DEF Setups
<1> QED BY <1>9, <1>10, <1>11, <1>12, <1>13

\* The steps that touch neither the history nor what is staged.
LEMMA OthersKeep ==
  ASSUME InProcessInv, (\E given \in Appended : Seed(given)) \/ AppendReturns \/ SetupReturns \/ UNCHANGED sequenceVars
  PROVE  InProcessInv'
<1> USE DEF InProcessInv
<1>1. UNCHANGED <<definition, history, staged, announced, abandoned>>
  BY DEF Seed, AppendReturns, SetupReturns, sequenceVars
<1>2. WholeIsUnique' /\ HistoryNumbers'
  <2>1. WholeIsUnique'
    BY <1>1 DEF WholeIsUnique, UniqueIn
  <2> QED BY <1>1, <2>1 DEF HistoryNumbers
<1>3. ASSUME UNCHANGED <<setup, setups>> PROVE (InProcessTyped /\ SetupPhases /\ Setups)'
  BY <1>1, <1>3 DEF InProcessTyped, SetupPhases, Setups
<1>4. ASSUME SetupReturns PROVE (InProcessTyped /\ SetupPhases /\ Setups)'
  <2>1. setup' = NoSetup /\ setups' = setups /\ staged = <<>>
    BY <1>4 DEF SetupReturns
  <2>2. NoSetup \in [pc : {"none", "staging", "committing"}, todo : Seq(InProcessEvent)] /\ NoSetup.pc = "none"
    BY DEF NoSetup
  <2> QED BY <1>1, <2>1, <2>2 DEF InProcessTyped, SetupPhases, Setups
<1>5. ASSUME NEW given \in Appended, Seed(given) PROVE (InProcessTyped /\ SetupPhases /\ Setups)'
  <2>1. setup.pc = "none" /\ setup' = [pc |-> "staging", todo |-> given] /\ setups' = setups + 1 /\ staged = <<>>
    BY <1>5 DEF Seed, Overlaps, SetupPhases
  <2>2. given \in Seq(InProcessEvent)
    BY AppendedAreEvents
  <2>3. setups + 1 \in Nat /\ setups + 1 # 0 /\ 1..setups \subseteq 1..(setups + 1) /\ setups + 1 \notin 1..setups
    BY DEF InProcessTyped
  <2>4. InProcessTyped'
    BY <1>1, <2>1, <2>2, <2>3 DEF InProcessTyped
  <2>5. SetupPhases'
    BY <1>1, <2>1, <2>3 DEF SetupPhases, InProcessTyped
  <2>6. \A n \in DOMAIN history : history[n].setup <= setups + 1 /\ history[n].setup # setups + 1
    <3>1. \A n \in DOMAIN history : history[n].setup \in Nat
      <4>1. \A n \in DOMAIN history : history[n] \in Stored
        BY DEF InProcessTyped
      <4> QED BY <4>1 DEF Stored
    <3> QED BY <3>1 DEF Setups, InProcessTyped
  <2>7. Setups'
    BY <1>1, <2>1, <2>6 DEF Setups
  <2> QED BY <2>4, <2>5, <2>7
<1>6. ASSUME AppendReturns \/ UNCHANGED sequenceVars PROVE UNCHANGED <<setup, setups>>
  BY <1>6 DEF AppendReturns, sequenceVars
<1> QED BY <1>2, <1>3, <1>4, <1>5, <1>6

LEMMA InProcessStep == InProcessInv /\ [InProcessNext]_sequenceVars => InProcessInv'
<1> SUFFICES ASSUME InProcessInv, [InProcessNext]_sequenceVars PROVE InProcessInv'
  OBVIOUS
<1>1. ASSUME NEW given \in Appended, AppendAll(given) PROVE InProcessInv'
  BY <1>1, AppendAllKeeps
<1>2. ASSUME StageNext PROVE InProcessInv'
  BY <1>2, StageKeeps
<1>3. ASSUME SetupFails PROVE InProcessInv'
  BY <1>3, FailKeeps
<1>4. ASSUME CommitNext PROVE InProcessInv'
  BY <1>4, CommitKeeps
<1>5. ASSUME (\E given \in Appended : Seed(given)) \/ AppendReturns \/ SetupReturns \/ UNCHANGED sequenceVars
      PROVE  InProcessInv'
  BY <1>5, OthersKeep
<1> QED BY <1>1, <1>2, <1>3, <1>4, <1>5 DEF InProcessNext

LEMMA InProcessAlways == InProcessSpec => []InProcessInv
BY InProcessStart, InProcessStep, PTL DEF InProcessSpec

\* What holds of history and staged events together holds of the history at every point.
LEMMA UniqueFollows == InProcessInv => UniqueThroughout
<1> SUFFICES ASSUME InProcessInv PROVE UniqueThroughout
  OBVIOUS
<1>1. PICK h \in Seq(Stored), s \in Seq(Stored), a \in Nat, c \in Nat :
        /\ h = history /\ s = staged /\ a = Len(h) /\ c = Len(s) /\ DOMAIN h = 1..a /\ DOMAIN s = 1..c
        /\ \A n \in 1..a : h[n] \in Stored
        /\ \A i \in 1..c : s[i] \in Stored
  BY Parts DEF InProcessInv
<1>2. UniqueIn(h)
  <2>1. PICK w \in Seq(Stored) : Joins(w, h, s, a, c)
    BY <1>1, JoinIs
  <2>2. UniqueIn(w)
    BY <1>1, <2>1 DEF InProcessInv, WholeIsUnique, Joins
  <2>3. Len(w) = a + c /\ a + c \in Nat /\ a \in 0..(a + c) /\ Len(h) = a /\ \A i \in 1..a : h[i] = w[i]
    BY <1>1, <2>1 DEF Joins
  <2> QED BY <2>2, <2>3, UniqueBefore
<1>3. \A n \in 0..a : Before(n) = SubSeq(h, 1, n) /\ DOMAIN SubSeq(h, 1, n) = 1..n
                       /\ \A i \in 1..n : SubSeq(h, 1, n)[i] = h[i]
  <2> TAKE n \in 0..a
  <2>1. \A i \in 1..n : h[i] \in Stored
    BY <1>1
  <2>2. /\ SubSeq(h, 1, n) \in Seq(Stored)
        /\ Len(SubSeq(h, 1, n)) = (IF 1 <= n THEN n - 1 + 1 ELSE 0)
        /\ \A i \in 1..(n - 1 + 1) : SubSeq(h, 1, n)[i] = h[1 + i - 1]
    BY <2>1, SubSeqProperties
  <2>3. n - 1 + 1 = n /\ \A i \in 1..n : 1 + i - 1 = i
    OBVIOUS
  <2>4. Before(n) = SubSeq(h, 1, n)
    BY <1>1 DEF Before
  <2> QED BY <2>2, <2>3, <2>4
<1>4. \A n \in 0..a : \A i \in 1..n : Same(SubSeq(h, 1, n)[i], h[i])
  BY <1>3 DEF Same
<1>5. \A n \in 0..a : \A t, k, x : x \in Held(Before(n), t, k) <=>
        \E p \in 1..n : Holder(h, p, n) /\ h[p].source = t /\ h[p].scope = k /\ h[p].key = x
  <2> TAKE n \in 0..a
  <2> TAKE t, k, x
  <2>1. n \in Nat
    OBVIOUS
  <2>2. PICK v : v = SubSeq(h, 1, n)
    OBVIOUS
  <2>3. Before(n) = v /\ DOMAIN v = 1..n /\ \A i \in 1..n : Same(v[i], h[i])
    BY <1>3, <1>4, <2>2
  <2>4. x \in Held(v, t, k) <=> \E p \in 1..n : Holder(h, p, n) /\ h[p].source = t /\ h[p].scope = k /\ h[p].key = x
    BY <2>1, <2>3, HeldIs, SMTT(30)
  <2> QED BY <2>3, <2>4
<1>6. ASSUME definition.constrains = "property"
      PROVE  \A n \in 0..a, r, t \in EventSources, k \in ScopeKeys : r # t => Held(Before(n), r, k) \cap Held(Before(n), t, k) = {}
  <2> SUFFICES ASSUME NEW n \in 0..a, NEW r, NEW t, NEW k, r # t, NEW x \in Held(Before(n), r, k), x \in Held(Before(n), t, k)
               PROVE  FALSE
    OBVIOUS
  <2>1. PICK p \in 1..n : Holder(h, p, n) /\ h[p].source = r /\ h[p].scope = k /\ h[p].key = x
    BY <1>5
  <2>2. PICK q \in 1..n : Holder(h, q, n) /\ h[q].source = t /\ h[q].scope = k /\ h[q].key = x
    BY <1>5
  <2> QED BY <1>1, <1>2, <1>6, <2>1, <2>2 DEF UniqueIn, OneHolder
<1>7. ASSUME definition.constrains # "property", NEW n \in 1..a, Claims(h[n])
      PROVE  Held(Before(n - 1), h[n].source, h[n].scope) = {}
  <2> SUFFICES ASSUME NEW x \in Held(Before(n - 1), h[n].source, h[n].scope) PROVE FALSE
    OBVIOUS
  <2>1. n - 1 \in 0..a
    OBVIOUS
  <2>2. PICK p \in 1..(n - 1) : Holder(h, p, n - 1) /\ h[p].source = h[n].source /\ h[p].scope = h[n].scope
    BY <1>5, <2>1
  <2> QED BY <1>1, <1>2, <1>7, <2>2 DEF UniqueIn, OneCycle
<1> QED BY <1>1, <1>6, <1>7 DEF UniqueThroughout

\* Whatever is appended, batched, staged, failed or committed: no two sources ever held the
\* same value of a scope, and no source has had a covered event type twice without a removal
\* (InProcessConstraints.validate, asked by InProcessEventSequence before it stores).
THEOREM HistoryStaysUnique == InProcessSpec => []UniqueThroughout
BY InProcessAlways, UniqueFollows, PTL

\* The history is numbered and announced without a gap, nothing of a setup that failed is in
\* it, and what a setup appended is in one piece (InProcessEventSequence.append, appendMany
\* and seed).
THEOREM HistoryIsKeptWhole == InProcessSpec => []HistoryIsOneSequence
<1>1. InProcessInv => HistoryIsOneSequence
  BY DEF InProcessInv, HistoryNumbers, Setups, HistoryIsOneSequence
<1> QED BY <1>1, InProcessAlways, PTL
=============================================================================
