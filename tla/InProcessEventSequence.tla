----------------------- MODULE InProcessEventSequence -----------------------
(***************************************************************************)
(* The event sequence of a scenario test (testing/InProcessEventSequence): *)
(* single and batched appends, setups that stage their events before they  *)
(* commit them, and the constraints that an append must satisfy            *)
(* (testing/InProcessConstraints).                                         *)
(*                                                                         *)
(* A definition constrains a property, whose value only one source may     *)
(* hold, or an event type, which a source may have once until it is        *)
(* removed.  An event is its type in that definition ("both" claims and    *)
(* removes), its source, the value it claims, and the part of the route    *)
(* that scopes the definition.  Checks of arguments, which refuse a call   *)
(* before it does anything, and content are left out.                      *)
(***************************************************************************)
EXTENDS Naturals, Sequences, FiniteSets, FiniteSetsExt, SequencesExt

CONSTANTS
  EventSources,  \* event source ids
  UniqueKeys,    \* what kernelKeyString makes of values
  ScopeKeys,     \* what propertyScopeKey and eventTypeScopeKey make of routes
  MaxHistory,    \* bound: events in the sequence
  MaxSetups      \* bound: calls of seed

VARIABLES
  definition,  \* the installed constraint; never changes
  history,     \* _history
  staged,      \* _stagedSeeds
  setup,       \* the call of seed in progress: _setup, and its events to come
  busy,        \* _busy
  announced,   \* the sequence numbers that were published
  setups,      \* calls of seed so far
  abandoned    \* history: the setups that failed

sequenceVars == <<definition, history, staged, setup, busy, announced, setups, abandoned>>

Definitions == [constrains : {"property", "event type"}, scoped : BOOLEAN]

\* A scoped definition with an event type that claims and removes is not supported,
\* and an event type constraint reads no value.
Events ==
  {e \in [type : {"covered", "removes", "both", "plain"}, source : EventSources,
          key : UniqueKeys, scope : ScopeKeys] :
     /\ definition.scoped => e.type # "both"
     /\ ~definition.scoped => e.scope = CHOOSE k \in ScopeKeys : TRUE
     /\ e.type \in {"removes", "plain"} \/ definition.constrains = "event type"
          => e.key = CHOOSE k \in UniqueKeys : TRUE
     /\ e.type = "plain" => e.source = CHOOSE s \in EventSources : TRUE}

NoSetup == [pc |-> "none", todo |-> <<>>]

InProcessInit ==
  /\ definition \in Definitions
  /\ history = <<>> /\ staged = <<>> /\ setup = NoSetup /\ busy = FALSE
  /\ announced = <<>> /\ setups = 0 /\ abandoned = {}

-----------------------------------------------------------------------------
(* The constraints. *)

Claims(e) == e.type \in {"covered", "both"}

\* What is left of the events of this source in this scope: the last one decides.
Relevant(events, source, scope) ==
  {i \in DOMAIN events : events[i].type # "plain" /\ events[i].source = source /\ events[i].scope = scope}
Held(events, source, scope) ==
  LET relevant == Relevant(events, source, scope)
  IN IF relevant # {} /\ events[Max(relevant)].type = "covered" THEN {events[Max(relevant)].key} ELSE {}

\* A durable claim of another source, or another source's claim earlier in the batch,
\* stands against event i; an event of the batch releases neither.
\* Mutant: claims of the batch are not compared with each other.
OnlyDurable(events, batch, i) ==
  \E s \in EventSources \ {batch[i].source} : batch[i].key \in Held(events, s, batch[i].scope)
DurableOrStaged(events, batch, i) ==
  \/ OnlyDurable(events, batch, i)
  \/ \E j \in 1..(i - 1) : /\ Claims(batch[j]) /\ batch[j].source # batch[i].source
                           /\ batch[j].key = batch[i].key /\ batch[j].scope = batch[i].scope
ValueTaken(events, batch, i) == DurableOrStaged(events, batch, i)

\* The cycle of the source is open, after the events of the batch before this one.
CycleOpen(events, batch, i) ==
  Held(events \o SubSeq(batch, 1, i - 1), batch[i].source, batch[i].scope) # {}

\* validate(): the whole batch, against these events, without a violation.
Valid(events, batch) ==
  \A i \in DOMAIN batch : Claims(batch[i]) =>
    IF definition.constrains = "property" THEN ~ValueTaken(events, batch, i) ELSE ~CycleOpen(events, batch, i)

-----------------------------------------------------------------------------
(* Appends. *)

Numbered(e, number, by) == [type |-> e.type, source |-> e.source, key |-> e.key, scope |-> e.scope,
                            number |-> number, setup |-> by]
Overlaps == busy \/ setup.pc # "none"

\* append and appendMany.  A batch that violates a constraint leaves nothing (its
\* rejections are published too, without numbers; "announced" has the accepted ones).
AppendAll(batch) ==
  /\ ~Overlaps
  /\ Len(history) + Len(batch) <= MaxHistory
  /\ busy' = TRUE
  /\ IF Valid(history, batch)
     THEN LET stored == [i \in DOMAIN batch |-> Numbered(batch[i], Len(history) + i - 1, 0)]
          IN /\ history' = history \o stored
             /\ announced' = announced \o [i \in DOMAIN stored |-> stored[i].number]
     ELSE UNCHANGED <<history, announced>>
  /\ UNCHANGED <<definition, staged, setup, setups, abandoned>>

\* The promise of the call crosses an asynchronous boundary.
AppendReturns ==
  /\ busy /\ busy' = FALSE
  /\ UNCHANGED <<definition, history, staged, setup, announced, setups, abandoned>>

-----------------------------------------------------------------------------
(* Setups. *)

Seed(events) ==
  /\ ~Overlaps /\ setups < MaxSetups
  /\ Len(history) + Len(events) <= MaxHistory
  /\ setup' = [pc |-> "staging", todo |-> events]
  /\ setups' = setups + 1
  /\ UNCHANGED <<definition, history, staged, busy, announced, abandoned>>

\* The sequence number of a staged event.  Mutant: counted from the history only.
FromHistory == Len(history)
FromStaged == Len(history) + Len(staged)
NextNumber == FromStaged

\* append, as seed calls it: against the history and what is staged.
StageNext ==
  /\ setup.pc = "staging" /\ setup.todo # <<>> /\ ~busy
  /\ Valid(history \o staged, <<Head(setup.todo)>>)
  /\ staged' = Append(staged, Numbered(Head(setup.todo), NextNumber, setups))
  /\ setup' = [setup EXCEPT !.todo = Tail(@)]
  /\ busy' = TRUE
  /\ UNCHANGED <<definition, history, announced, setups, abandoned>>

\* "EventScenario given setup failed": nothing of it is committed.
SetupFails ==
  /\ setup.pc = "staging" /\ setup.todo # <<>> /\ ~busy
  /\ ~Valid(history \o staged, <<Head(setup.todo)>>)
  /\ staged' = <<>> /\ setup' = NoSetup
  /\ abandoned' = abandoned \cup {setups}
  /\ busy' = TRUE
  /\ UNCHANGED <<definition, history, announced, setups>>

\* Each staged event is committed and published by itself, and awaited.
CommitNext ==
  /\ setup.todo = <<>> /\ setup.pc # "none" /\ ~busy
  /\ staged # <<>>
  /\ history' = Append(history, Head(staged))
  /\ announced' = Append(announced, Head(staged).number)
  /\ staged' = Tail(staged)
  /\ setup' = [setup EXCEPT !.pc = "committing"]
  /\ UNCHANGED <<definition, busy, setups, abandoned>>

SetupReturns ==
  /\ setup.pc # "none" /\ setup.todo = <<>> /\ staged = <<>> /\ ~busy
  /\ setup' = NoSetup
  /\ UNCHANGED <<definition, history, staged, busy, announced, setups, abandoned>>

-----------------------------------------------------------------------------

Appended == UNION {[1..n -> Events] : n \in 1..2}

InProcessNext ==
  \/ /\ ~Overlaps /\ Len(history) < MaxHistory
     /\ \E batch \in Appended : AppendAll(batch) \/ Seed(batch)
  \/ AppendReturns \/ StageNext \/ SetupFails \/ CommitNext \/ SetupReturns

InProcessSpec == InProcessInit /\ [][InProcessNext]_sequenceVars

-----------------------------------------------------------------------------

Before(n) == SubSeq(history, 1, n)

\* After any event of the history, no two sources hold the same value in a scope, and
\* no source has had a covered event type again before a removal: however events
\* were appended, batched and staged, and values released, moved and claimed again.
UniqueThroughout ==
  IF definition.constrains = "property"
  THEN \A n \in 0..Len(history), s, t \in EventSources, k \in ScopeKeys :
         s # t => Held(Before(n), s, k) \cap Held(Before(n), t, k) = {}
  ELSE \A n \in DOMAIN history :
         Claims(history[n]) => Held(Before(n - 1), history[n].source, history[n].scope) = {}

\* The history is one sequence: events have consecutive numbers and were published
\* one after the other, a setup that failed left nothing in it, and those of one that
\* did not are next to each other, however calls overlap.
HistoryIsOneSequence ==
  /\ \A n \in DOMAIN history : history[n].number = n - 1
  /\ announced = [n \in DOMAIN history |-> history[n].number]
  /\ \A n \in DOMAIN history : history[n].setup \notin abandoned
  /\ \A m, n \in DOMAIN history : m < n /\ history[m].setup = history[n].setup /\ history[m].setup # 0
       => history[m + 1].setup = history[m].setup
=============================================================================
