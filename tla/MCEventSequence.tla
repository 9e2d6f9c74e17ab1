-------------------------- MODULE MCEventSequence --------------------------
(* EventSequence on three calls, two sources and two streams. *)
EXTENDS EventSequence, TLC

CONSTANTS a, b, s, t

Legacy(source) == [source |-> source, stream |-> s, guard |-> {}]
BySource(source) == [source |-> source, stream |-> s, guard |-> {"eventSourceId"}]
ByStream(source, stream) ==
  [source |-> source, stream |-> stream, guard |-> {"eventSourceId", "eventStreamId"}]

\* An unguarded event, guards of two sources, a narrower guard, one behind an
\* unguarded event of its source, guards in conflict, an explicit scope.
MCBatches ==
  {[entries |-> entries, explicit |-> {}] : entries \in
     {<<Legacy(a)>>, <<BySource(a), BySource(b)>>, <<ByStream(a, s)>>,
      <<Legacy(a), ByStream(a, t)>>, <<BySource(a), ByStream(a, s)>>}}
  \cup {[entries |-> <<BySource(b), ByStream(b, s)>>, explicit |-> {b}]}

Symmetry == Permutations(Clients) \cup Permutations(Subscribers)
=============================================================================
