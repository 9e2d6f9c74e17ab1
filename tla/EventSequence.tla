---------------------------- MODULE EventSequence ----------------------------
(***************************************************************************)
(* Appending to one event sequence: the concurrency guards that registered *)
(* event sources ask for, the append itself, and the operations announced  *)
(* to whoever iterates appendOperations (eventSequences/EventSequence.ts,  *)
(* resolveEventSourceRouting.ts, prepareBatchAppend.ts,                    *)
(* AppendOperationsBroadcaster.ts).                                        *)
(*                                                                         *)
(* An append of one event is a batch of one.  Of an event are kept the     *)
(* source and the stream it goes to and the dimensions its definition      *)
(* guards; the other two dimensions behave like these.  The kernel numbers *)
(* events from 0; here the n-th event has number n.                        *)
(***************************************************************************)
EXTENDS Naturals, Sequences

CONSTANTS
  Clients,       \* concurrent calls of append and appendMany
  Subscribers,   \* iterations of appendOperations
  Sources,       \* event source ids
  Streams,       \* event stream ids
  Whatever,      \* of a predicate: this dimension is not looked at
  BeforeFirst,   \* EventSequenceNumber.beforeFirst: no event is expected
  Batches,       \* what may be appended
  MaxAppends,    \* bound: calls
  MaxFaults      \* bound: calls to the kernel that fail

Dimensions == {"eventSourceId", "eventStreamId"}

\* What a caller appends: events, and the sources it gives its own scope for.
Entry == [source : Sources, stream : Streams, guard : SUBSET Dimensions]
Batch == [entries : Seq(Entry), explicit : SUBSET Sources]

ASSUME EventSequenceAssumption ==
  /\ Whatever \notin Sources \cup Streams
  /\ BeforeFirst \notin Nat
  /\ \A b \in Batches : b \in Batch
  /\ MaxAppends \in Nat /\ MaxFaults \in Nat

VARIABLES
  log,        \* the events of the sequence, in the kernel
  pc,         \* where each call stands
  batch,      \* the batch of each call
  scopes,     \* the concurrency scopes that each call has derived so far
  accepted,   \* whether the kernel accepted the batch of each call
  appends,    \* calls made
  faults,     \* faults that may still happen
  published,  \* what was published to appendOperations
  phase,      \* where each iteration stands
  queue,      \* _queue: numbers of publications
  received,   \* what next() has yielded to each iteration
  joined      \* how much had been published when each iteration began

callVars == <<pc, batch, scopes, accepted, appends>>
subscriberVars == <<phase, queue, received, joined>>
vars == <<log, callVars, faults, published, subscriberVars>>

Unset == 0            \* EventSequenceNumber.unset: nothing is expected
Predicate == [source : Sources \cup {Whatever}, stream : Streams \cup {Whatever}]
Scope == [source : Sources, predicate : Predicate,
          expected : Nat \cup {BeforeFirst}, seen : Nat]

\* "seen" is of the model alone: how much of the log the guard of an event knew,
\* and "first" is the number of the first event of its batch.
Event == [source : Sources, stream : Streams, predicate : Predicate,
          guarded : BOOLEAN, seen : Nat, first : Nat]

TypeOK ==
  /\ log \in Seq(Event)
  /\ pc \in [Clients -> {"idle", "reading", "sending", "answered"}]
  /\ batch \in [Clients -> Batches \cup {<<>>}]
  /\ scopes \in [Clients -> SUBSET Scope]
  /\ accepted \in [Clients -> BOOLEAN]
  /\ appends \in Nat /\ faults \in Nat
  /\ published \in Seq([by : Clients, accepted : BOOLEAN])
  /\ phase \in [Subscribers -> {"none", "body", "next", "left"}]
  /\ queue \in [Subscribers -> Seq(Nat)]
  /\ received \in [Subscribers -> Seq(Nat)]
  /\ joined \in [Subscribers -> Nat]

Init ==
  /\ log = <<>>
  /\ pc = [c \in Clients |-> "idle"]
  /\ batch = [c \in Clients |-> <<>>]
  /\ scopes = [c \in Clients |-> {}]
  /\ accepted = [c \in Clients |-> FALSE]
  /\ appends = 0 /\ faults = MaxFaults
  /\ published = <<>>
  /\ phase = [s \in Subscribers |-> "none"]
  /\ queue = [s \in Subscribers |-> <<>>]
  /\ received = [s \in Subscribers |-> <<>>]
  /\ joined = [s \in Subscribers |-> 0]

-----------------------------------------------------------------------------
(* Guards: planDerivedGuards and deriveConcurrencyScope. *)

EntriesOf(b) == {b.entries[i] : i \in DOMAIN b.entries}

\* guardPredicate: the values of the guarded dimensions only.
PredicateOf(e) ==
  [source |-> IF "eventSourceId" \in e.guard THEN e.source ELSE Whatever,
   stream |-> IF "eventStreamId" \in e.guard THEN e.stream ELSE Whatever]

Matches(p, e) == p.source \in {Whatever, e.source} /\ p.stream \in {Whatever, e.stream}

NeedsGuard(b, e) == e.guard # {} /\ e.source \notin b.explicit

\* One guard for each source.
Guards(b) == {e \in EntriesOf(b) : NeedsGuard(b, e)}

\* "Chronicle accepts one concurrency scope per event source id".
Conflicting(b) ==
  \E e, f \in Guards(b) : e.source = f.source /\ PredicateOf(e) # PredicateOf(f)

\* What is still to be derived: guards of sources that have no scope yet.
Underived(c) ==
  {e \in Guards(batch[c]) : \A scope \in scopes[c] : scope.source # e.source}

\* The kernel's answer to tailSequenceNumber: the last event that matches.
IsTail(p, tail) ==
  /\ tail # Unset => Matches(p, log[tail])
  /\ \A i \in (tail + 1)..Len(log) : ~Matches(p, log[i])

\* An empty scope expects that there is no matching event.  Mutant: it expects
\* the tail it was given, which is no expectation at all.
TailAsGiven(tail) == tail
Expected(tail) == IF tail = Unset THEN BeforeFirst ELSE tail

\* The kernel's check of a scope, as toContractConcurrencyScope puts it.
Holds(scope) ==
  IF scope.expected = BeforeFirst THEN IsTail(scope.predicate, Unset)
  ELSE scope.expected = Unset \/ IsTail(scope.predicate, scope.expected)

-----------------------------------------------------------------------------
(* Appends. *)

\* append and appendMany, up to their first await.  A batch whose guards are in
\* conflict is refused before anything is sent.
AppendMany(c, b) ==
  /\ pc[c] = "idle"
  /\ appends < MaxAppends
  /\ ~Conflicting(b)
  /\ appends' = appends + 1
  /\ batch' = [batch EXCEPT ![c] = b]
  /\ scopes' = [scopes EXCEPT ![c] = {}]
  /\ pc' = [pc EXCEPT ![c] = IF Guards(b) = {} THEN "sending" ELSE "reading"]
  /\ UNCHANGED <<log, accepted, faults, published, subscriberVars>>

\* deriveConcurrencyScope: the tail of one guard has been read.
ReadTail(c) ==
  /\ pc[c] = "reading"
  /\ \E e \in Underived(c), tail \in 0..Len(log) :
       /\ IsTail(PredicateOf(e), tail)
       /\ scopes' = [scopes EXCEPT ![c] = @ \cup
            {[source |-> e.source, predicate |-> PredicateOf(e),
              expected |-> Expected(tail), seen |-> Len(log)]}]
       /\ pc' = [pc EXCEPT ![c] =
            IF \A f \in Underived(c) : f.source = e.source THEN "sending" ELSE "reading"]
  /\ UNCHANGED <<log, batch, accepted, appends, faults, published, subscriberVars>>

\* How much of the log the scope of a source knew: nothing without a scope.
Seen(c, source) ==
  IF \E scope \in scopes[c] : scope.source = source
  THEN (CHOOSE scope \in scopes[c] : scope.source = source).seen
  ELSE 0

EventsOf(c) ==
  [i \in DOMAIN batch[c].entries |->
    LET e == batch[c].entries[i]
    IN [source |-> e.source, stream |-> e.stream, predicate |-> PredicateOf(e),
        guarded |-> NeedsGuard(batch[c], e), seen |-> Seen(c, e.source),
        first |-> Len(log) + 1]]

\* The kernel accepts a batch, all of it, when every scope holds.
Accept(c) ==
  /\ pc[c] = "sending"
  /\ \A scope \in scopes[c] : Holds(scope)
  /\ log' = log \o EventsOf(c)
  /\ accepted' = [accepted EXCEPT ![c] = TRUE]
  /\ pc' = [pc EXCEPT ![c] = "answered"]
  /\ UNCHANGED <<batch, scopes, appends, faults, published, subscriberVars>>

\* It rejects it for a scope that does not hold, or for a constraint or an error.
Reject(c) ==
  /\ pc[c] = "sending"
  /\ accepted' = [accepted EXCEPT ![c] = FALSE]
  /\ pc' = [pc EXCEPT ![c] = "answered"]
  /\ UNCHANGED <<log, batch, scopes, appends, faults, published, subscriberVars>>

\* A call to the kernel fails, before or after the kernel has done its part.
\* The caller gets the error; nothing is published.
CallFails(c) ==
  /\ pc[c] # "idle"
  /\ faults > 0 /\ faults' = faults - 1
  /\ pc' = [pc EXCEPT ![c] = "idle"]
  /\ UNCHANGED <<log, batch, scopes, accepted, appends, published, subscriberVars>>

-----------------------------------------------------------------------------
(* appendOperations. *)

HasSubscribers == \E s \in Subscribers : phase[s] \in {"body", "next"}

\* publish(): who awaits next() has it, and every other subscriber has it queued.
Publish(operation) ==
  LET number == Len(published) + 1
  IN /\ published' = Append(published, operation)
     /\ phase' = [s \in Subscribers |-> IF phase[s] = "next" THEN "body" ELSE phase[s]]
     /\ received' = [s \in Subscribers |->
          IF phase[s] = "next" THEN Append(received[s], number) ELSE received[s]]
     /\ queue' = [s \in Subscribers |->
          IF phase[s] = "body" THEN Append(queue[s], number) ELSE queue[s]]
     /\ UNCHANGED joined

\* The answer of the kernel, a rejection too, is mapped, published and returned.
Answered(c) ==
  /\ pc[c] = "answered"
  /\ pc' = [pc EXCEPT ![c] = "idle"]
  /\ IF HasSubscribers
     THEN Publish([by |-> c, accepted |-> accepted[c]])
     ELSE UNCHANGED <<published, subscriberVars>>
  /\ UNCHANGED <<log, batch, scopes, accepted, appends, faults>>

\* The iteration begins: from now on everything that is published is for it.
Subscribe(s) ==
  /\ phase[s] = "none"
  /\ phase' = [phase EXCEPT ![s] = "body"]
  /\ joined' = [joined EXCEPT ![s] = Len(published)]
  /\ UNCHANGED <<log, callVars, faults, published, queue, received>>

\* What next() takes from the queue.  Mutant: the latest.
Latest(q) == [value |-> q[Len(q)], rest |-> SubSeq(q, 1, Len(q) - 1)]
Taken(q) == [value |-> Head(q), rest |-> Tail(q)]

\* next(): from the queue, or a promise for the next publication.
TakeNext(s) ==
  /\ phase[s] = "body"
  /\ IF queue[s] # <<>>
     THEN /\ received' = [received EXCEPT ![s] = Append(@, Taken(queue[s]).value)]
          /\ queue' = [queue EXCEPT ![s] = Taken(@).rest]
          /\ UNCHANGED phase
     ELSE /\ phase' = [phase EXCEPT ![s] = "next"]
          /\ UNCHANGED <<queue, received>>
  /\ UNCHANGED <<log, callVars, faults, published, joined>>

\* return(): the loop is left, or an iterator abandoned.
Leave(s) ==
  /\ phase[s] \in {"body", "next"}
  /\ phase' = [phase EXCEPT ![s] = "left"]
  /\ UNCHANGED <<log, callVars, faults, published, queue, received, joined>>

-----------------------------------------------------------------------------

Next ==
  \/ \E c \in Clients, b \in Batches : AppendMany(c, b)
  \/ \E c \in Clients : ReadTail(c) \/ Accept(c) \/ Reject(c) \/ Answered(c) \/ CallFails(c)
  \/ \E s \in Subscribers : Subscribe(s) \/ TakeNext(s) \/ Leave(s)

Spec == Init /\ [][Next]_vars

-----------------------------------------------------------------------------
(* Properties. *)

\* Optimistic concurrency: an event that its definition guards is only in the
\* sequence when nothing that matches the guard came between the tail that the
\* client had read for it and the batch it is in, whatever other clients append
\* meanwhile and however the events of a batch are guarded.
NothingInBetween ==
  \A i \in DOMAIN log : log[i].guarded =>
    \A j \in (log[i].seen + 1)..(log[i].first - 1) : ~Matches(log[i].predicate, log[j])

\* "every concurrent iterator receives every value published from the moment it
\* starts iterating" (AppendOperationsBroadcaster.ts:48-49), once and in order.
EveryOperationIsReceived ==
  \A s \in Subscribers : phase[s] \in {"body", "next"} =>
    received[s] \o queue[s] = [n \in 1..(Len(published) - joined[s]) |-> joined[s] + n]
=============================================================================
