------------------------- MODULE ScenarioProjection -------------------------
(***************************************************************************)
(* The replay that a read model scenario runs in process                   *)
(* (testing/projections/ProjectionReadModelProcessor.ts): the rows that a  *)
(* projection makes of a history, with one join or one collection of       *)
(* children, which the validation of a definition keeps apart.             *)
(*                                                                         *)
(* Every read replays the whole history, so what a read of a history       *)
(* returns is the state after its last event.  A row keeps undefined and   *)
(* null apart, which decides what null overwrites.                         *)
(***************************************************************************)
EXTENDS Naturals, FiniteSetsExt, SequencesExt

CONSTANTS
  RowSources,   \* event sources: keys of rows, and what a row joins on
  Contents,     \* what a joined event maps into a row
  Children,     \* identities of children
  Null, Undefined,  \* null and undefined
  Deleted,      \* what a read of a removed row returns
  MaxReplayed   \* bound: events

\* A row is an object of its own, and a source or a content is a value.
Row == [initialized : BOOLEAN, on : RowSources \cup {Null, Undefined},
        joined : Contents \cup {Null, Undefined}, children : Seq([id : Children, by : Nat])]

ASSUME ScenarioAssumption ==
  /\ Null # Undefined /\ {Null, Undefined} \cap (RowSources \cup Contents) = {}
  /\ Undefined \notin Row /\ Deleted \notin Row
  /\ MaxReplayed \in Nat

VARIABLES
  joins,    \* whether the definition has a join, or else children; never changes
  replayed, \* the history
  engine,   \* engine: the row of each source, or undefined
  reported, \* states: what a read returns for each source, or undefined
  lookup    \* joinedEvents: what the last joined event of each source maps, or undefined

scenarioVars == <<joins, replayed, engine, reported, lookup>>

EventOf(kind, source, on, content, child) ==
  [kind |-> kind, source |-> source, on |-> on, content |-> content, child |-> child]

\* opened maps the target of the join, changed is another From; added, dropped and
\* addedWith are subscribed by the children, the last also by From.
JoinEvents ==
  {EventOf("opened", s, on, Null, Null) : s \in RowSources, on \in RowSources \cup {Null}}
    \cup {EventOf("joined", s, Null, content, Null) : s \in RowSources, content \in Contents \cup {Null}}
ChildEvents ==
  {EventOf(kind, s, Null, Null, child) :
     kind \in {"added", "dropped", "addedWith"}, s \in RowSources, child \in Children}
CommonEvents == {EventOf(kind, s, Null, Null, Null) : kind \in {"changed", "removed"}, s \in RowSources}

FromKinds == {"opened", "changed", "addedWith"}
ChildKinds == {"added", "dropped", "addedWith"}

ScenarioTypeOK ==
  /\ joins \in BOOLEAN
  /\ replayed \in Seq(JoinEvents \cup ChildEvents \cup CommonEvents)
  /\ engine \in [RowSources -> Row \cup {Undefined}]
  /\ reported \in [RowSources -> Row \cup {Undefined, Deleted}]
  /\ lookup \in [RowSources -> Contents \cup {Null, Undefined}]

ScenarioInit ==
  /\ joins \in BOOLEAN
  /\ replayed = <<>>
  /\ engine = [s \in RowSources |-> Undefined]
  /\ reported = [s \in RowSources |-> Undefined]
  /\ lookup = [s \in RowSources |-> Undefined]

-----------------------------------------------------------------------------
(* One event. *)

\* apply: null is no change where there is no value yet.
Applied(value, old) == IF value = Null /\ old = Undefined THEN old ELSE value

\* process, of an event of the join: changes are computed against an empty state.
Join(e) ==
  LET changes == Applied(e.content, Undefined)
      Joined(row) == IF changes = Undefined THEN row ELSE [row EXCEPT !.joined = changes]
      reached == {s \in RowSources : engine[s] # Undefined /\ engine[s].on = e.source}
  IN  /\ lookup' = [lookup EXCEPT ![e.source] = e.content]
      /\ engine' = [s \in RowSources |-> IF s \in reached THEN Joined(engine[s]) ELSE engine[s]]
      /\ reported' = [s \in RowSources |-> IF s \in reached THEN Joined(engine[s]) ELSE reported[s]]

\* Removal takes the row, never what was joined.
RemoveRow(e) ==
  /\ engine' = [engine EXCEPT ![e.source] = Undefined]
  /\ reported' = [reported EXCEPT ![e.source] = Deleted]
  /\ UNCHANGED lookup

\* initialState, identityState, and the initialization of a row that an event of
\* the children created.
Started(row, e) ==
  IF row = Undefined
  THEN [initialized |-> e.kind \in FromKinds, on |-> Undefined, joined |-> Undefined, children |-> <<>>]
  ELSE [row EXCEPT !.initialized = @ \/ e.kind \in FromKinds]

\* Mutant: a row is joined only by events that follow.
Unresolved(row) == row

\* From that maps the target of the join resolves it by what was joined before.
Resolved(row) ==
  IF row.on \in RowSources /\ lookup[row.on] # Undefined
  THEN [row EXCEPT !.joined = Applied(lookup[row.on], @)] ELSE row

WithTarget(row, e) ==
  IF e.kind = "opened" THEN Resolved([row EXCEPT !.on = Applied(e.on, @)]) ELSE row

\* applyChild, which looks for the child first.  The fields of a child that is there
\* are merged with those of the event; a child has one field here, which the event sets.
PlaceOf(children, child) == SelectInSeq(children, LAMBDA item : item.id = child)
WithChild(row, e) ==
  LET i == PlaceOf(row.children, e.child)
      item == [id |-> e.child, by |-> Len(replayed) + 1]
  IN  CASE e.kind \notin ChildKinds -> row
        [] e.kind = "dropped" /\ i = 0 -> row
        [] e.kind = "dropped" /\ i > 0 -> [row EXCEPT !.children = RemoveAt(@, i)]
        [] OTHER -> [row EXCEPT !.children = IF i = 0 THEN Append(@, item) ELSE [@ EXCEPT ![i] = item]]

Change(e) ==
  LET row == WithChild(WithTarget(Started(engine[e.source], e), e), e)
  IN  /\ engine' = [engine EXCEPT ![e.source] = row]
      /\ reported' = [reported EXCEPT ![e.source] = row]
      /\ UNCHANGED lookup

Process(e) ==
  /\ Len(replayed) < MaxReplayed
  /\ replayed' = Append(replayed, e)
  /\ CASE e.kind = "joined" -> Join(e)
       [] e.kind = "removed" -> RemoveRow(e)
       [] OTHER -> Change(e)
  /\ UNCHANGED joins

ScenarioNext == \E e \in CommonEvents \cup (IF joins THEN JoinEvents ELSE ChildEvents) : Process(e)

ScenarioSpec == ScenarioInit /\ [][ScenarioNext]_scenarioVars

-----------------------------------------------------------------------------
(* Properties. *)

LastOf(Test(_)) == Max({0} \cup {n \in DOMAIN replayed : Test(replayed[n])})

LastRemoved(s) == LastOf(LAMBDA e : e.kind = "removed" /\ e.source = s)
LastJoined(s) == LastOf(LAMBDA e : e.kind = "joined" /\ e.source = s)
IsRead(s) == reported[s] \notin {Undefined, Deleted}

\* A scenario reads a row of a source exactly when an event of it came after the
\* last removal.
ReadsWhatRemains ==
  \A s \in RowSources :
    IsRead(s) <=> LastOf(LAMBDA e : e.source = s /\ e.kind \in FromKinds \cup ChildKinds) > LastRemoved(s)

\* A row that is read shows what the last event of the source it is joined to maps,
\* whichever of the two came first and although the row was removed in between.
JoinIsCurrent ==
  \A s \in RowSources :
    IsRead(s) =>
      LET on == reported[s].on IN
        on \in RowSources /\ LastJoined(on) > 0 /\ replayed[LastJoined(on)].content # Null
          => reported[s].joined = replayed[LastJoined(on)].content

\* A row holds one item for each child that was added, by the last event that did,
\* and was not dropped since, nor the row removed.
ChildrenAreThoseAdded ==
  \A s \in RowSources :
    IsRead(s) =>
      LET Of(e, child, kinds) == e.source = s /\ e.child = child /\ e.kind \in kinds
          Added(child) == LastOf(LAMBDA e : Of(e, child, {"added", "addedWith"}))
          Dropped(child) == LastOf(LAMBDA e : Of(e, child, {"dropped"}))
          held == {child \in Children : Added(child) > Max({Dropped(child), LastRemoved(s)})}
      IN  /\ ToSet(reported[s].children) = {[id |-> child, by |-> Added(child)] : child \in held}
          /\ Len(reported[s].children) = Cardinality(held)

\* What a scenario reads is what its history says, with a join and with children.
ReadsFollowHistory == ReadsWhatRemains /\ JoinIsCurrent /\ ChildrenAreThoseAdded
=============================================================================
