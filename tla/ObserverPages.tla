---------------------------- MODULE ObserverPages ----------------------------
(***************************************************************************)
(* What the kernel sends to an observer, be it a reactor or a reducer:     *)
(* pages, on one stream after the other, of the first events that each     *)
(* partition has pending.                                                  *)
(***************************************************************************)
EXTENDS Naturals, FiniteSets

CONSTANTS
  MaxPage,     \* the events of one partition in one page (BatchSizeOptions)
  MaxStreams,  \* bound: streams opened one after the other
  MaxProblems  \* bound: what fails or defers, in methods, handlers and appends

ASSUME PagesAssumption == MaxPage \in Nat /\ MaxStreams \in Nat \ {0} /\ MaxProblems \in Nat

Streams == 1..MaxStreams

\* The first n members of a set of events.
Leading(events, n) == {e \in events : Cardinality({f \in events : f <= e}) <= n}
=============================================================================
