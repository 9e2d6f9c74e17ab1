------------------------- MODULE UnitOfWorkManager -------------------------
(***************************************************************************)
(* The units of work of a store (transactions/UnitOfWorkManager.ts): the   *)
(* current one of each asynchronous context, the registration of each      *)
(* under its correlation id, and what its completion undoes of both.       *)
(*                                                                         *)
(* AsyncLocalStorage.enterWith acts on the context that runs: a rollback,  *)
(* and a commit without events, complete in the caller's before they first *)
(* await; a commit that has awaited completes in a continuation of its     *)
(* own, so that the caller keeps its current unit of work.                 *)
(***************************************************************************)
EXTENDS Naturals, Sequences

CONSTANTS
  Contexts,      \* asynchronous contexts
  Correlations,  \* correlation ids
  NoUnit,        \* undefined
  MaxUnits       \* bound: units of work

ASSUME ManagerAssumption == NoUnit \notin Nat \ {0} /\ MaxUnits \in Nat

VARIABLES
  units,       \* the units of work begun: correlation, with events, completed
  found,       \* _unitsOfWork: the unit under each correlation id
  current,     \* _storage, in each context
  committing,  \* commits that await their appends
  reused,      \* history: the correlation ids given to a unit while another of the id was in use
  revived      \* history: the units made current when they were already completed

managerVars == <<units, found, current, committing, reused, revived>>

Units == DOMAIN units

ManagerTypeOK ==
  /\ units \in Seq([correlation : Correlations, filled : BOOLEAN, completed : BOOLEAN])
  /\ found \in [Correlations -> Units \cup {NoUnit}]
  /\ current \in [Contexts -> Units \cup {NoUnit}]
  /\ committing \subseteq Units /\ reused \subseteq Correlations /\ revived \subseteq Units

ManagerInit ==
  /\ units = <<>>
  /\ found = [id \in Correlations |-> NoUnit]
  /\ current = [c \in Contexts |-> NoUnit]
  /\ committing = {} /\ reused = {} /\ revived = {}

-----------------------------------------------------------------------------

InUse(u) == ~units[u].completed \/ u \in committing

\* setCurrent, of a unit with this correlation id: registers what is not.
Enter(c, u, id) ==
  /\ current' = [current EXCEPT ![c] = u]
  /\ found' = [found EXCEPT ![id] = u]
  /\ reused' = IF \E v \in Units \ {u} : units[v].correlation = id /\ InUse(v)
             THEN reused \cup {id} ELSE reused

\* begin, with a correlation id or a new one.
Begin(c, id) ==
  /\ Len(units) < MaxUnits
  /\ units' = Append(units, [correlation |-> id, filled |-> FALSE, completed |-> FALSE])
  /\ Enter(c, Len(units'), id)
  /\ UNCHANGED <<committing, revived>>

\* setCurrent, of a unit that the application holds, in whatever state it is.
SetCurrent(c, u) ==
  /\ u \in Units
  /\ Enter(c, u, units[u].correlation)
  /\ revived' = IF units[u].completed THEN revived \cup {u} ELSE revived
  /\ UNCHANGED <<units, committing>>

\* What one context starts inherits its current unit.
Fork(c, d) ==
  /\ c # d
  /\ current' = [current EXCEPT ![d] = current[c]]
  /\ UNCHANGED <<units, found, committing, reused, revived>>

\* The transactional append: an event for the current unit, if it is open.
AppendTransactional(c) ==
  /\ current[c] # NoUnit /\ ~units[current[c]].completed
  /\ units' = [units EXCEPT ![current[c]].filled = TRUE]
  /\ UNCHANGED <<found, current, committing, reused, revived>>

-----------------------------------------------------------------------------
(* Completion. *)

\* What unitOfWorkCompleted removes.  Mutant: the registration of the current unit.
OfCurrent(c, u) == IF current[c] = NoUnit THEN units[u].correlation ELSE units[current[c]].correlation
Removed(c, u) == units[u].correlation

Completes(c, u) ==
  /\ units' = [units EXCEPT ![u].completed = TRUE]
  /\ found' = [found EXCEPT ![Removed(c, u)] = NoUnit]

\* rollback, also while a commit awaits; and commit without events.
CompleteAtOnce(c, u) ==
  /\ u \in Units /\ ~units[u].completed
  /\ Completes(c, u)
  /\ current' = [current EXCEPT ![c] = NoUnit]
  /\ UNCHANGED <<committing, reused, revived>>

\* commit with events, which may be called again while it awaits.
CommitAwaits(u) ==
  /\ u \in Units /\ ~units[u].completed /\ units[u].filled
  /\ committing' = committing \cup {u}
  /\ UNCHANGED <<units, found, current, reused, revived>>

\* The appends have returned; whatever happened in between, the unit completes.
CommitEnds(c, u) ==
  /\ u \in committing
  /\ committing' = committing \ {u}
  /\ Completes(c, u)
  /\ UNCHANGED <<current, reused, revived>>

\* An append was refused or failed: the unit stays open.
CommitFails(u) ==
  /\ u \in committing
  /\ committing' = committing \ {u}
  /\ UNCHANGED <<units, found, current, reused, revived>>

-----------------------------------------------------------------------------

ManagerNext ==
  \/ \E c \in Contexts :
       \/ \E id \in Correlations : Begin(c, id)
       \/ \E u \in Units : SetCurrent(c, u) \/ CompleteAtOnce(c, u) \/ CommitEnds(c, u)
       \/ \E d \in Contexts : Fork(c, d)
       \/ AppendTransactional(c)
  \/ \E u \in Units : CommitAwaits(u) \/ CommitFails(u)

ManagerSpec == ManagerInit /\ [][ManagerNext]_managerVars

-----------------------------------------------------------------------------

\* tryGetFor finds a unit of work under its correlation id for as long as it is
\* open, and no longer, unless another of that id was open or awaited its commit when
\* it was given the id, or it was made current again when completed; whichever
\* context begins, fills and completes it.
FoundWhileOpen ==
  \A u \in Units :
    units[u].correlation \notin reused /\ u \notin revived
      => (found[units[u].correlation] = u <=> ~units[u].completed)
=============================================================================
