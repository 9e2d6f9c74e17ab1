--------------------------- MODULE ServerSelection ---------------------------
(***************************************************************************)
(* Which of the servers of a connection string a channel goes to: the      *)
(* strategies least-connections and round-robin (connection/               *)
(* LeastConnectionsLoadBalancerStrategy.ts, RoundRobinLoadBalancerStrategy *)
(* .ts), for clients that arrive while others are still selecting.  A      *)
(* random selection promises nothing.  Every connection has a strategy of  *)
(* its own (ChronicleConnection.ts), which for the round robin is all that *)
(* it knows: its own turns.                                                *)
(*                                                                         *)
(* A server counts a connection when it is reserved, or else when it is    *)
(* made; none is closed here, as nothing could be said of the spread then. *)
(***************************************************************************)
EXTENDS Naturals, FiniteSets

CONSTANTS
  Selectors,      \* selections that may be under way at a time
  RoundRobins,    \* round-robin strategies, one of each connection
  CandidateCount, \* servers of the connection string
  MaxSelections,  \* bound: selections
  MaxProbeFaults  \* bound: requests to servers that fail

ASSUME SelectionAssumption ==
  CandidateCount \in Nat \ {0} /\ MaxSelections \in Nat /\ MaxProbeFaults \in Nat

VARIABLES
  balancer,     \* the strategy
  selection,    \* of each selector: where it stands, counts probed, what it selected
  robin,        \* of each round robin: _startOffset, once it is chosen, _callCount, and
                \* as history how often it took each server
  load,         \* connections that each server counts
  selections,   \* selections so far
  probeFaults   \* requests that may still fail

selectionVars == <<balancer, selection, robin, load, selections, probeFaults>>

Candidates == 0..(CandidateCount - 1)
Unreachable == MaxSelections + 1   \* Number.MAX_SAFE_INTEGER
NotProbed == MaxSelections + 2
NoOffset == CandidateCount

NoCounts == [i \in Candidates |-> NotProbed]
Idle == [state |-> "idle", counts |-> NoCounts, selected |-> 0]

Robins == [startOffset : 0..NoOffset, callCount : Nat, taken : [Candidates -> Nat]]
NewRobin == [startOffset |-> NoOffset, callCount |-> 0, taken |-> [i \in Candidates |-> 0]]

SelectionTypeOK ==
  /\ balancer \in {"leastConnections", "roundRobin"}
  /\ selection \in [Selectors -> [state : {"idle", "probing", "reserving", "connecting"},
                                  counts : [Candidates -> 0..NotProbed], selected : Candidates]]
  /\ robin \in [RoundRobins -> Robins]
  /\ load \in [Candidates -> Nat]
  /\ selections \in 0..MaxSelections /\ probeFaults \in 0..MaxProbeFaults

SelectionInit ==
  /\ balancer \in {"leastConnections", "roundRobin"}
  /\ selection = [c \in Selectors |-> Idle]
  /\ robin = [r \in RoundRobins |-> NewRobin]
  /\ load = [i \in Candidates |-> 0]
  /\ selections = 0 /\ probeFaults = MaxProbeFaults

-----------------------------------------------------------------------------
(* Round robin. *)

\* The offset is chosen once.  Mutant: anew at every selection.
OffsetsAnew(b) == Candidates
OffsetsOnce(b) == IF b.startOffset = NoOffset THEN Candidates ELSE {b.startOffset}
Offsets(b) == OffsetsOnce(b)

\* select: the server at the offset and the count, which goes up.
Turned(b, offset) ==
  [startOffset |-> offset, callCount |-> b.callCount + 1,
   taken |-> [b.taken EXCEPT ![(offset + b.callCount) % CandidateCount] = @ + 1]]

\* A connection connects, or connects again; no await comes in between.
TakesNext(r) ==
  /\ balancer = "roundRobin" /\ selections < MaxSelections
  /\ selections' = selections + 1
  /\ \E offset \in Offsets(robin[r]) : robin' = [robin EXCEPT ![r] = Turned(@, offset)]
  /\ UNCHANGED <<balancer, selection, load, probeFaults>>

-----------------------------------------------------------------------------
(* Least connections. *)

\* A selection probes every server.  Mutant: it joins the probes of one under way.
JoinedProbes(c) ==
  IF \E d \in Selectors : selection[d].state = "probing"
  THEN selection[CHOOSE d \in Selectors : selection[d].state = "probing"].counts
  ELSE NoCounts
OwnProbes(c) == NoCounts

\* select, up to its probes.  There is nothing to choose from a single candidate.
Select(c) ==
  /\ balancer = "leastConnections" /\ selections < MaxSelections
  /\ selection[c].state = "idle"
  /\ selections' = selections + 1
  /\ selection' = [selection EXCEPT ![c] =
       [state |-> IF CandidateCount = 1 THEN "connecting" ELSE "probing",
        counts |-> OwnProbes(c), selected |-> 0]]
  /\ UNCHANGED <<balancer, robin, load, probeFaults>>

LeastLoaded(counts) ==
  {i \in Candidates : \A j \in Candidates : counts[i] <= counts[j]}

\* The last of the probes is in: one of the least loaded is to be reserved.
Chosen(counts) ==
  IF NotProbed \in {counts[i] : i \in Candidates}
  THEN {[state |-> "probing", counts |-> counts, selected |-> 0]}
  ELSE {[state |-> "reserving", counts |-> NoCounts, selected |-> i] : i \in LeastLoaded(counts)}

\* probeConnectionCount: a server that does not answer is not preferred.
Probed(c, i) ==
  /\ selection[c].state = "probing" /\ selection[c].counts[i] = NotProbed
  /\ \E count \in {load[i], Unreachable} :
       /\ count = Unreachable => probeFaults > 0
       /\ probeFaults' = IF count = Unreachable THEN probeFaults - 1 ELSE probeFaults
       /\ \E next \in Chosen([selection[c].counts EXCEPT ![i] = count]) :
            selection' = [selection EXCEPT ![c] = next]
  /\ UNCHANGED <<balancer, robin, load, selections>>

\* reserve: it may fail before or after the server has counted it, and is only an
\* attempt: the server is used anyway.
Reserve(c) ==
  /\ selection[c].state = "reserving"
  /\ \/ /\ load' = [load EXCEPT ![selection[c].selected] = @ + 1]
        /\ selection' = [selection EXCEPT ![c] = Idle]
        /\ UNCHANGED probeFaults
     \/ /\ probeFaults > 0 /\ probeFaults' = probeFaults - 1
        /\ selection' = [selection EXCEPT ![c].state = "connecting"]
        /\ UNCHANGED load
  /\ UNCHANGED <<balancer, robin, selections>>

\* The channel connects, and the server counts what was not reserved.
Connects(c) ==
  /\ selection[c].state = "connecting"
  /\ load' = [load EXCEPT ![selection[c].selected] = @ + 1]
  /\ selection' = [selection EXCEPT ![c] = Idle]
  /\ UNCHANGED <<balancer, robin, selections, probeFaults>>

-----------------------------------------------------------------------------

SelectionNext ==
  \/ \E r \in RoundRobins : TakesNext(r)
  \/ \E c \in Selectors : Select(c) \/ Reserve(c) \/ Connects(c)
  \/ \E c \in Selectors, i \in Candidates : Probed(c, i)

SelectionSpec == SelectionInit /\ [][SelectionNext]_selectionVars

-----------------------------------------------------------------------------
(* Properties. *)

\* With the least connections, clients spread over the servers, though each goes by
\* counts that it has probed one by one and that others change before it reserves: with
\* the same servers throughout, a server has at most as many connections more than
\* another as there are selections under way at a time, and probes that failed.  The
\* round robin spreads those of each client alone, which differ by one.
ConnectionsSpread ==
  \A i, j \in Candidates :
    /\ load[i] <= load[j] + Cardinality(Selectors) + (MaxProbeFaults - probeFaults)
    /\ \A r \in RoundRobins : robin[r].taken[i] <= robin[r].taken[j] + 1
=============================================================================
