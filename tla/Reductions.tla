----------------------------- MODULE Reductions -----------------------------
(***************************************************************************)
(* How the pages of one event sequence become the read models of one       *)
(* reducer: the loop over the stream of reducers/Reducers.ts, which        *)
(* reduces the partitions of a page beside each other, and the outcome of  *)
(* each partition (reducers/ReductionOutcome.ts) that the kernel is told.  *)
(*                                                                         *)
(* An event is its sequence number, and a read model the events that were  *)
(* reduced into it since it was last removed; <<>> is no read model.  The  *)
(* kernel keeps a read model and a position for each partition.  An answer *)
(* carries the last event that was reduced, whether the partition failed   *)
(* or not, and the position moves to it, as in ReactorDelivery; but it     *)
(* carries a state to write only if the partition succeeded.               *)
(***************************************************************************)
EXTENDS ObserverPages, Sequences, FiniteSetsExt

CONSTANTS
  ReducerLog,     \* the events: a sequence of [partition, type]
  MaxConcurrency  \* getMaxConcurrency: partitions reduced beside each other

\* "reduce": the handler returns a new state; "remove": it returns undefined;
\* "unhandled": no handler takes it.  A reducer with a batch method subscribes to
\* what the method observes, and is sent nothing else.
ReducerEventTypes == {"reduce", "remove", "unhandled"}

ASSUME ReducerLogAssumption ==
  /\ Len(ReducerLog) \in Nat /\ DOMAIN ReducerLog = 1..Len(ReducerLog)
  /\ \A e \in DOMAIN ReducerLog : ReducerLog[e].type \in ReducerEventTypes

ReducerEvents == DOMAIN ReducerLog
ReducerPartitions == {ReducerLog[e].partition : e \in ReducerEvents}
KindOf(e) == ReducerLog[e].type

VARIABLES
  batchMethod,       \* the reducer has one batch method, and no handlers; never changes
  stored,            \* the kernel: the read model of each partition
  reducedTo,         \* the kernel: the last event of each partition it takes as observed
  unwritten,         \* history: the events a position passed with an answer that carried no state
  reducerStream,     \* the streams opened so far; the last one may be open
  reducerStreamOpen, \* it is: its queue takes answers
  page,              \* the page that the loop of each stream reduces
  mishapsLeft

\* What the reducer subscribes to.
SentOf(p) == {e \in ReducerEvents : ReducerLog[e].partition = p /\ (batchMethod => KindOf(e) # "unhandled")}

reductionVars == <<batchMethod, stored, reducedTo, unwritten, reducerStream, reducerStreamOpen, page, mishapsLeft>>

\* ReductionOutcome, with what its worker has still to do ("todo").
Outcomes == [pc : {"waiting", "running", "done"}, state : {"success", "failed", "deferred"},
             last : Nat, current : Seq(ReducerEvents), todo : SUBSET ReducerEvents]

ReductionTypeOK ==
  /\ batchMethod \in BOOLEAN
  /\ stored \in [ReducerPartitions -> Seq(ReducerEvents)] /\ reducedTo \in [ReducerPartitions -> Nat]
  /\ unwritten \in [ReducerPartitions -> SUBSET ReducerEvents]
  /\ reducerStream \in Streams /\ reducerStreamOpen \in BOOLEAN
  /\ \A s \in Streams : DOMAIN page[s] \subseteq ReducerPartitions
                        /\ \A p \in DOMAIN page[s] : page[s][p] \in Outcomes
  /\ mishapsLeft \in Nat

NoPage == [p \in {} |-> {}]

ReductionInit ==
  /\ batchMethod \in BOOLEAN
  /\ stored = [p \in ReducerPartitions |-> <<>>]
  /\ reducedTo = [p \in ReducerPartitions |-> 0]
  /\ unwritten = [p \in ReducerPartitions |-> {}]
  /\ reducerStream = 1 /\ reducerStreamOpen = TRUE
  /\ page = [s \in Streams |-> NoPage]
  /\ mishapsLeft = MaxProblems

-----------------------------------------------------------------------------
(* The kernel. *)

Unreduced(p) == {e \in SentOf(p) : e > reducedTo[p]}

\* SEQUENCE_NUMBER_UNAVAILABLE is 0 here: no event has it.
Unavailable == 0
NewOutcome(p) == [pc |-> "waiting", state |-> "success", last |-> Unavailable,
                  current |-> stored[p], todo |-> Leading(Unreduced(p), MaxPage)]

\* A page, or a single partition in the legacy fields, to an open stream that
\* has answered everything.  A page may announce a replay, whose notification
\* may fail: then nothing of the page is reduced.
DeliverPage(ps, failing) ==
  /\ reducerStreamOpen /\ page[reducerStream] = NoPage
  /\ \A p \in ps : Unreduced(p) # {}
  /\ failing => mishapsLeft > 0
  /\ page' = [page EXCEPT ![reducerStream] =
       [p \in ps |-> IF failing THEN [NewOutcome(p) EXCEPT !.pc = "done", !.state = "failed"]
                                ELSE NewOutcome(p)]]
  /\ mishapsLeft' = IF failing THEN mishapsLeft - 1 ELSE mishapsLeft
  /\ UNCHANGED <<batchMethod, stored, reducedTo, unwritten, reducerStream, reducerStreamOpen>>

-----------------------------------------------------------------------------
(* The reduction of a partition. *)

Mishap == mishapsLeft > 0 /\ mishapsLeft' = mishapsLeft - 1

Outcome(s, p, outcome) ==
  /\ page' = [page EXCEPT ![s][p] = outcome]
  /\ UNCHANGED <<batchMethod, stored, reducedTo, unwritten, reducerStream, reducerStreamOpen>>

Reducing(s) == {p \in DOMAIN page[s] : page[s][p].pc = "running"}

\* runConcurrently: a worker takes the next partition.
TakeNext(s, p) ==
  /\ p \in DOMAIN page[s] /\ page[s][p].pc = "waiting"
  /\ Cardinality(Reducing(s)) < MaxConcurrency
  /\ Outcome(s, p, [page[s][p] EXCEPT !.pc = "running"])
  /\ UNCHANGED mishapsLeft

\* What a handler makes of a state.
Reduced(state, e) == CASE KindOf(e) = "reduce" -> Append(state, e)
                       [] KindOf(e) = "remove" -> <<>>
                       [] OTHER -> state

InHand(s, p) == p \in DOMAIN page[s] /\ page[s][p].pc = "running" /\ page[s][p].todo # {}

\* processEvent: the handler of the next event returns, or there is none.
EventReduced(s, p) ==
  /\ InHand(s, p) /\ ~batchMethod
  /\ LET e == Min(page[s][p].todo)
     IN Outcome(s, p, [page[s][p] EXCEPT !.current = Reduced(@, e), !.last = e, !.todo = @ \ {e}])
  /\ UNCHANGED mishapsLeft

\* The state after each of these events, reduced in their order.
StatesOver(state, events) ==
  LET after[e \in 0..Len(ReducerLog)] ==
        IF e = 0 THEN state ELSE IF e \in events THEN Reduced(after[e - 1], e) ELSE after[e - 1]
  IN after

\* processBatch: the batch method returns the next state.
BatchReduced(s, p) ==
  /\ InHand(s, p) /\ batchMethod
  /\ LET outcome == page[s][p]
     IN Outcome(s, p, [outcome EXCEPT !.current = StatesOver(@, outcome.todo)[Len(ReducerLog)],
                                      !.last = Max(outcome.todo), !.todo = {}])
  /\ UNCHANGED mishapsLeft

\* recordFailure: the handler throws, or the batch is failed; what was reduced
\* before stays the outcome's last successful observation.
\* Mutant: a handler that throws is skipped.
AsFailed(outcome) == [outcome EXCEPT !.state = "failed", !.todo = {}]
AsSkipped(outcome) == [outcome EXCEPT !.last = Min(outcome.todo), !.todo = @ \ {Min(outcome.todo)}]
WithFailure(outcome) == AsFailed(outcome)

ReductionFails(s, p) ==
  /\ InHand(s, p) /\ KindOf(Min(page[s][p].todo)) # "unhandled"
  /\ Mishap
  /\ Outcome(s, p, WithFailure(page[s][p]))

\* recordDeferral, of a batch method.
ReductionDefers(s, p) ==
  /\ InHand(s, p) /\ batchMethod
  /\ Mishap
  /\ Outcome(s, p, [page[s][p] EXCEPT !.state = "deferred", !.last = Unavailable, !.todo = {}])

\* The lease is completed when its events are done, failed or not.  When that
\* fails, so does the partition, and nothing of it counts as observed.
LeaseCompletes(s, p) ==
  /\ p \in Reducing(s) /\ page[s][p].todo = {}
  /\ Outcome(s, p, [page[s][p] EXCEPT !.pc = "done"])
  /\ UNCHANGED mishapsLeft

LeaseFails(s, p) ==
  /\ p \in Reducing(s) /\ page[s][p].todo = {}
  /\ Mishap
  /\ Outcome(s, p, [page[s][p] EXCEPT !.pc = "done", !.state = "failed", !.last = Unavailable])

-----------------------------------------------------------------------------
(* The answer and the stream. *)

\* The queue of a stream that has ended is complete and takes nothing.
\* Mutant: it takes what its loop still sends.
AnyQueue(s) == TRUE
OpenQueue(s) == s = reducerStream /\ reducerStreamOpen
Takes(s) == OpenQueue(s)

\* toPartitionResult, and what the kernel makes of it.  The position moves to the
\* last event that the outcome names, also when it failed; an outcome that names
\* none leaves the partition alone.  readModelState: an empty state removes the
\* read model, and that of a partition that failed is no state at all.
Observing(outcome) == outcome.last # Unavailable
Writing(outcome) == Observing(outcome) /\ outcome.state = "success"

\* Mutant: a deferred partition keeps its page open.
SettledWithoutDeferrals(s) == \A p \in DOMAIN page[s] : page[s][p].pc = "done" /\ page[s][p].state # "deferred"
SettledAll(s) == \A p \in DOMAIN page[s] : page[s][p].pc = "done"
Settled(s) == SettledAll(s)

Answer(s) ==
  /\ page[s] # NoPage
  /\ Settled(s)
  /\ page' = [page EXCEPT ![s] = NoPage]
  /\ LET moved == {p \in DOMAIN page[s] : Takes(s) /\ Observing(page[s][p])}
         written == {p \in moved : Writing(page[s][p])}
     IN /\ stored' = [p \in ReducerPartitions |-> IF p \in written THEN page[s][p].current ELSE stored[p]]
        /\ reducedTo' = [p \in ReducerPartitions |-> IF p \in moved THEN page[s][p].last ELSE reducedTo[p]]
        /\ unwritten' = [p \in ReducerPartitions |->
             IF p \in moved \ written
             THEN unwritten[p] \cup {e \in Unreduced(p) : e <= page[s][p].last}
             ELSE unwritten[p]]
  /\ UNCHANGED <<batchMethod, reducerStream, reducerStreamOpen, mishapsLeft>>

ReducerStreamEnds ==
  /\ reducerStreamOpen /\ reducerStream < MaxStreams
  /\ reducerStreamOpen' = FALSE
  /\ UNCHANGED <<batchMethod, stored, reducedTo, unwritten, reducerStream, page, mishapsLeft>>

ReobserveReducer ==
  /\ ~reducerStreamOpen
  /\ reducerStream' = reducerStream + 1 /\ reducerStreamOpen' = TRUE
  /\ UNCHANGED <<batchMethod, stored, reducedTo, unwritten, page, mishapsLeft>>

-----------------------------------------------------------------------------

ReducerStep(s) ==
  \/ \E p \in ReducerPartitions :
       \/ TakeNext(s, p) \/ EventReduced(s, p) \/ BatchReduced(s, p)
       \/ ReductionFails(s, p) \/ ReductionDefers(s, p)
       \/ LeaseCompletes(s, p) \/ LeaseFails(s, p)
  \/ Answer(s)

KernelDeliversPages == \E ps \in SUBSET ReducerPartitions \ {{}}, failing \in BOOLEAN : DeliverPage(ps, failing)

\* What goes on by itself, as in ReactorDelivery.
ReductionProgress == KernelDeliversPages \/ ReobserveReducer \/ \E s \in Streams : ReducerStep(s)

ReductionNext == ReductionProgress \/ ReducerStreamEnds

ReductionSpec == ReductionInit /\ [][ReductionNext]_reductionVars

-----------------------------------------------------------------------------
(* Properties. *)

\* What the reducer makes of these events, one after the other from nothing: those
\* after the last removal, each once and in order.
IsReduction(state, events) ==
  /\ \A i, j \in DOMAIN state : i < j => state[i] < state[j]
  /\ {state[i] : i \in DOMAIN state} =
       {e \in events : KindOf(e) = "reduce" /\ \A r \in events : KindOf(r) = "remove" => r < e}

\* What of a partition has reached its read model, if the answers were taken so.
WrittenEvents(p) == {e \in SentOf(p) : e <= reducedTo[p]} \ unwritten[p]

\* The read model that the kernel holds is the reduction of the events up to its
\* position, each of them once and in order, whatever failed, was deferred or was
\* delivered again on the way: all of them for a batch method, which succeeds with
\* its events or names none; for handlers, all but those that an answer with a
\* failed handler named as observed, whose state it left empty.
StateIsReduction ==
  \A p \in ReducerPartitions :
    IsReduction(stored[p], WrittenEvents(p)) /\ (batchMethod => unwritten[p] = {})

\* Reducers "fold [events] into a read model" (reducer.ts:37): no event that counts
\* as observed is missing from it.  The code breaks this with a failing handler,
\* for a kernel that moves to the last observation of a failed partition.
StateIsWhole ==
  \A p \in ReducerPartitions : IsReduction(stored[p], {e \in SentOf(p) : e <= reducedTo[p]})

\* A read model never goes back to an earlier state: the answer to a page that an
\* ended stream carried is not taken after a later stream's.
ReductionsAdvance == [][\A p \in ReducerPartitions : reducedTo'[p] >= reducedTo[p]]_reductionVars

\* Every event counts as observed in the end when handlers fail only so often.
EverythingIsReduced == <>[](\A p \in ReducerPartitions : Unreduced(p) = {})
=============================================================================
