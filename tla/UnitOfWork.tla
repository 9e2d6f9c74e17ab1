----------------------------- MODULE UnitOfWork -----------------------------
(***************************************************************************)
(* A unit of work (transactions/UnitOfWork.ts): it buffers events and      *)
(* their concurrency scopes, and commits one append for each sequence, in  *)
(* the order of their first events.  What a single append does, and what   *)
(* the kernel checks, is in EventSequence; here an append is refused by    *)
(* the client, or the kernel accepts or rejects it, or it fails.           *)
(***************************************************************************)
EXTENDS Naturals, Sequences, FiniteSets

CONSTANTS
  Callers,     \* concurrent calls of commit
  Enrolments,  \* what may be given to addEvent
  SequenceIds, \* event sequences
  Sources,     \* event source ids
  Scopes,      \* concurrency scopes
  Guards,      \* what a registered definition guards
  NoScope,     \* no scope is given
  NoGuard,     \* the event has no registered event source
  Overlap,     \* whether the unit of work is used while a commit is in flight
  MaxEvents,   \* bound: events
  MaxCommits,  \* bound: calls of commit
  MaxFaults    \* bound: appends that fail

Enrolment == [sequence : SequenceIds, source : Sources, scope : Scopes \cup {NoScope},
              guard : Guards \cup {NoGuard}, named : BOOLEAN]

ASSUME UnitOfWorkAssumption ==
  /\ Enrolments \subseteq Enrolment
  /\ NoScope \notin Scopes /\ NoGuard \notin Guards
  /\ Overlap \in BOOLEAN
  /\ MaxEvents \in Nat /\ MaxCommits \in Nat /\ MaxFaults \in Nat

VARIABLES
  events,      \* _events
  scopes,      \* _concurrencyScopes
  results,     \* _appendResults, each with the event it is for
  committed,   \* _isCommitted
  rolledBack,  \* _isRolledBack
  call,        \* the calls of commit
  written,     \* what the kernel accepted
  commits,     \* calls of commit so far
  faults       \* appends that may still fail

vars == <<events, scopes, results, committed, rolledBack, call, written, commits, faults>>

Result == [event : Nat, success : BOOLEAN]

\* A commit: its number, its copy of the events, the sequences it still has to
\* append to, the one it awaits and the scopes it sent with it, and its results.
CallState == [state : {"idle", "awaiting", "done", "refused", "failed"}, number : Nat,
              batch : Seq(Enrolments), todo : SUBSET SequenceIds,
              at : SequenceIds \cup {"none"},
              sent : [Sources -> Scopes \cup {NoScope}], answers : SUBSET Result]

Written == [commit : Nat, event : Nat, enrolled : Enrolments, scope : Scopes \cup {NoScope}]

NoScopes == [source \in Sources |-> NoScope]

Init ==
  /\ events = <<>>
  /\ scopes = [q \in SequenceIds |-> NoScopes]
  /\ results = <<>>
  /\ committed = FALSE /\ rolledBack = FALSE
  /\ call = [c \in Callers |-> [state |-> "idle", number |-> 0, batch |-> <<>>, todo |-> {},
                                at |-> "none", sent |-> NoScopes, answers |-> {}]]
  /\ written = {}
  /\ commits = 0 /\ faults = MaxFaults

-----------------------------------------------------------------------------

Completed == committed \/ rolledBack
InFlight == \E c \in Callers : call[c].state = "awaiting"
MayBeCalled == ~Completed /\ (Overlap \/ ~InFlight)

\* Whether a scope may join the one its source already has.  Mutant: the later wins.
LaterWins(enrolled, scope) == TRUE
Compatible(enrolled, scope) == NoScope \in {enrolled, scope} \/ enrolled = scope

\* addEvent.  An option it does not take, or a scope in conflict, adds nothing.
AddEvent(e) ==
  /\ MayBeCalled
  /\ Len(events) < MaxEvents
  /\ Compatible(scopes[e.sequence][e.source], e.scope)
  /\ events' = Append(events, e)
  /\ scopes' = IF e.scope = NoScope THEN scopes
               ELSE [scopes EXCEPT ![e.sequence][e.source] = e.scope]
  /\ UNCHANGED <<results, committed, rolledBack, call, written, commits, faults>>

GroupOf(batch, q) == {i \in DOMAIN batch : batch[i].sequence = q}

\* planDerivedGuards: one guard for each source that has no scope of its own.
NeedsGuard(e, known) == e.guard # NoGuard /\ known[e.source] = NoScope
GuardsConflict(batch, group, known) ==
  \E i, j \in group :
    /\ batch[i].source = batch[j].source
    /\ NeedsGuard(batch[i], known) /\ NeedsGuard(batch[j], known)
    /\ batch[i].guard # batch[j].guard

\* ensureNamedTagBatchIsSupported.
TagsConflict(batch, group) ==
  /\ \E i \in group : batch[i].named
  /\ \E i \in group : batch[i].guard # NoGuard

\* What appendMany refuses.
Refused(batch, group, known) ==
  TagsConflict(batch, group) \/ GuardsConflict(batch, group, known)

\* What commit refuses before it writes: "a rejection must not follow a written
\* group".  Mutant: each append is left to refuse its own.
LeftToTheAppends(batch, known) == FALSE
RefusedUpFront(batch, known) ==
  \/ TagsConflict(batch, DOMAIN batch)
  \/ \E q \in SequenceIds : GuardsConflict(batch, GroupOf(batch, q), known[q])

FirstOf(batch, todo) ==
  CHOOSE q \in todo : \E i \in GroupOf(batch, q) :
    \A j \in 1..(i - 1) : batch[j].sequence \notin todo

\* The next append of a commit, with the scopes as they are by then.
Continued(commit) ==
  IF commit.todo = {} THEN [commit EXCEPT !.state = "done", !.at = "none"]
  ELSE LET q == FirstOf(commit.batch, commit.todo)
       IN IF Refused(commit.batch, GroupOf(commit.batch, q), scopes[q])
          THEN [commit EXCEPT !.state = "refused", !.at = "none"]
          ELSE [commit EXCEPT !.state = "awaiting", !.at = q, !.sent = scopes[q],
                              !.todo = @ \ {q}]

\* The results, in the order of the events.  Mutant: in the order of the appends.
Ordered(answers, Rank(_)) ==
  CHOOSE s \in [1..Cardinality(answers) -> answers] :
    \A i, j \in DOMAIN s : i < j => Rank(s[i]) < Rank(s[j])
InOrderOfAppends(batch, answers) ==
  Ordered(answers, LAMBDA r :
    LET place(i) == CHOOSE k \in GroupOf(batch, batch[i].sequence) :
                      \A j \in GroupOf(batch, batch[i].sequence) : k <= j
    IN place(r.event) * Len(batch) + r.event)
Sorted(batch, answers) == Ordered(answers, LAMBDA r : r.event)

\* The commit goes on, and completes the unit of work when it has no append left.
GoOn(c, commit) ==
  LET next == Continued(commit)
  IN /\ call' = [call EXCEPT ![c] = next]
     /\ committed' = (committed \/ next.state = "done")
     /\ results' = IF next.state = "done" THEN Sorted(next.batch, next.answers) ELSE results

\* commit, up to its first await.
Commit(c) ==
  /\ MayBeCalled
  /\ call[c].state # "awaiting"
  /\ commits < MaxCommits
  /\ commits' = commits + 1
  /\ LET begun == [call[c] EXCEPT !.number = commits + 1, !.batch = events,
                                  !.todo = {events[i].sequence : i \in DOMAIN events},
                                  !.at = "none", !.answers = {}]
     IN IF RefusedUpFront(events, scopes)
        THEN /\ call' = [call EXCEPT ![c] = [begun EXCEPT !.state = "refused"]]
             /\ UNCHANGED <<committed, results>>
        ELSE GoOn(c, begun)
  /\ UNCHANGED <<events, scopes, rolledBack, written, faults>>

\* What the kernel has written when it accepts the append a commit awaits.
Writes(c) ==
  {[commit |-> call[c].number, event |-> i, enrolled |-> call[c].batch[i],
    scope |-> call[c].sent[call[c].batch[i].source]] :
     i \in GroupOf(call[c].batch, call[c].at)}

\* The append is accepted, or rejected; a rejection is a result like another.
Answered(c) ==
  /\ call[c].state = "awaiting"
  /\ \E success \in BOOLEAN :
       /\ written' = IF success THEN written \cup Writes(c) ELSE written
       /\ GoOn(c, [call[c] EXCEPT !.answers = @ \cup
            {[event |-> i, success |-> success] : i \in GroupOf(call[c].batch, call[c].at)}])
  /\ UNCHANGED <<events, scopes, rolledBack, commits, faults>>

\* The append fails, before or after the kernel accepted it: commit() throws.
AppendFails(c) ==
  /\ call[c].state = "awaiting"
  /\ faults > 0 /\ faults' = faults - 1
  /\ written' \in {written, written \cup Writes(c)}
  /\ call' = [call EXCEPT ![c].state = "failed", ![c].at = "none"]
  /\ UNCHANGED <<events, scopes, results, committed, rolledBack, commits>>

Rollback ==
  /\ MayBeCalled
  /\ rolledBack' = TRUE
  /\ events' = <<>>
  /\ scopes' = [q \in SequenceIds |-> NoScopes]
  /\ results' = <<>>
  /\ UNCHANGED <<committed, call, written, commits, faults>>

Next ==
  \/ \E e \in Enrolments : AddEvent(e)
  \/ \E c \in Callers : Commit(c) \/ Answered(c) \/ AppendFails(c)
  \/ Rollback

Spec == Init /\ [][Next]_vars

-----------------------------------------------------------------------------
(* Properties. *)

TypeOK ==
  /\ events \in Seq(Enrolments)
  /\ scopes \in [SequenceIds -> [Sources -> Scopes \cup {NoScope}]]
  /\ results \in Seq(Result)
  /\ committed \in BOOLEAN /\ rolledBack \in BOOLEAN
  /\ call \in [Callers -> CallState]
  /\ written \subseteq Written
  /\ commits \in Nat /\ faults \in Nat

\* "a rejection must not follow a written group" (UnitOfWork.ts:126): a commit
\* that the client refuses, for named tags or for guards in conflict, has written
\* to no sequence, though each append makes the same checks by itself.
RejectedWritesNothing ==
  \A c \in Callers : call[c].state = "refused" =>
    \A w \in written : w.commit # call[c].number

\* An event enrolled with a concurrency scope is written under that scope only,
\* however many events share its source and however often a commit is retried.
ScopesAreEnforced ==
  \A w \in written : w.enrolled.scope # NoScope => w.scope = w.enrolled.scope

\* After a commit there is one result for each event, at the place of the event,
\* and it is a success exactly when that commit has written the event.
ResultsMatchEvents ==
  committed =>
    /\ Len(results) = Len(events)
    /\ \A i \in DOMAIN results :
         /\ results[i].event = i
         /\ results[i].success <=>
              \E w \in written : w.event = i /\ w.commit = commits

\* "Rolls back all buffered events." (IUnitOfWork.ts:75): none is written later.
RollbackWritesNothing == [][rolledBack => written' = written]_vars
=============================================================================
