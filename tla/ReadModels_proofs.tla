------------------------- MODULE ReadModels_proofs --------------------------
(***************************************************************************)
(* What a reader of read models is given: the watcher of a read model, for *)
(* any number of changes, losses and disconnects; the replay of a scenario,*)
(* for any history; and the variants of a projection, for any declarations *)
(* and events.                                                             *)
(***************************************************************************)
EXTENDS ReadModelWatcher, ScenarioProjection, ProjectionVariants, Orders, SequenceTheorems

-----------------------------------------------------------------------------
(* The watcher of a read model: the inductive invariant. *)

Task == [kind : {"change", "callback", "nothing"}, change : Nat, ahead : BOOLEAN, by : Nat]
OnWire == [kind : {"change", "subscribed", "ended", "lost", "refused"}, change : Nat]

Sequences ==
  /\ chain \in Seq(Task) /\ buffered \in Seq(Task) /\ consumed \in Seq(Task)
  /\ wire \in Seq(OnWire) /\ received \in Seq(Nat)
  /\ emitted \in Nat /\ informedTo \in Nat /\ informedTo <= emitted
  /\ opened \in Nat /\ controller \in Nat

\* What is on the wire was emitted after everything that was received.
WireInOrder ==
  /\ \A k \in DOMAIN received : received[k] <= emitted
  /\ \A i \in DOMAIN wire : wire[i].kind = "change" =>
       wire[i].change <= emitted /\ \A k \in DOMAIN received : received[k] < wire[i].change
  /\ \A i, j \in DOMAIN wire : i < j /\ wire[i].kind = "change" /\ wire[j].kind = "change" =>
       wire[i].change < wire[j].change

\* Whoever has a change knows of the emission: it is there or before it in the
\* chain, or the application queries after it.
WithConsumer(n) == n <= informedTo \/ \E j \in DOMAIN Got : Got[j].change = n
InChain(n, i) == \E j \in 1..i : chain[j].kind = "callback" \/ (chain[j].kind = "change" /\ chain[j].change = n)
InWire(n, i) == \E j \in 1..i : wire[j].kind = "change" /\ wire[j].change = n

ChainAnnounced ==
  \A i \in DOMAIN chain : chain[i].kind = "change" /\ ~chain[i].ahead =>
    \A n \in 1..chain[i].change : WithConsumer(n) \/ InChain(n, i)

WireAnnounced ==
  acknowledged => \A i \in DOMAIN wire : wire[i].kind = "change" =>
    \A n \in 1..wire[i].change : WithConsumer(n) \/ InChain(n, Len(chain)) \/ InWire(n, i)

EmissionsAnnounced ==
  attached /\ acknowledged => \A n \in 1..emitted : WithConsumer(n) \/ InChain(n, Len(chain)) \/ InWire(n, Len(wire))

Announced == callback => GapIsAnnounced /\ ChainAnnounced /\ WireAnnounced /\ EmissionsAnnounced

\* A stream that is not attached any more has an end on the wire, or nothing.
EndOnWire == \E i \in DOMAIN wire : wire[i].kind \in {"ended", "lost", "refused"}
StreamState ==
  /\ ~stopped /\ controller = 0 => ~acknowledged /\ ~attached /\ wire = <<>>
  /\ controller # 0 /\ ~attached /\ (acknowledged \/ wire # <<>>) => EndOnWire

WatcherInv ==
  /\ Sequences /\ WireInOrder /\ Rising(received)
  /\ (stopped => ~callback /\ controller = 0) /\ StreamState
  /\ NobodyWaitsInVain /\ EveryChangeInOrder /\ Announced

LEMMA WatcherStart == WatcherInit => WatcherInv
<1> SUFFICES ASSUME WatcherInit PROVE WatcherInv
  OBVIOUS
<1>1. /\ chain = <<>> /\ buffered = <<>> /\ consumed = <<>> /\ wire = <<>> /\ received = <<>>
      /\ emitted = 0 /\ informedTo = 0 /\ opened \in Nat /\ controller \in Nat /\ acknowledged = FALSE
      /\ stopped = FALSE /\ waiting = FALSE
  BY DEF WatcherInit
<1>2. Got = <<>> /\ Converting = {} /\ BeingConverted = {} /\ NotGot = {}
  BY <1>1 DEF Got, Converting, BeingConverted, NotGot
<1>3. Sequences /\ WireInOrder /\ Rising(received) /\ NobodyWaitsInVain
  BY <1>1 DEF Sequences, WireInOrder, Rising, NobodyWaitsInVain
<1>4. EveryChangeInOrder
  BY <1>1, <1>2, <1>3, WatcherAssumption DEF EveryChangeInOrder
<1>5. Announced
  BY <1>1, <1>2 DEF Announced, GapIsAnnounced, ChainAnnounced, WireAnnounced, EmissionsAnnounced
<1>6. StreamState
  BY <1>1 DEF StreamState, WatcherInit
<1> QED BY <1>1, <1>3, <1>4, <1>5, <1>6 DEF WatcherInv

\* The members of the sequences, by their types.
LEMMA ItemsAre ==
  ASSUME Sequences
  PROVE  /\ DOMAIN wire = 1..Len(wire) /\ Len(wire) \in Nat
         /\ \A i \in DOMAIN wire : wire[i] \in OnWire /\ wire[i].change \in Nat
         /\ DOMAIN chain = 1..Len(chain) /\ Len(chain) \in Nat
         /\ \A i \in DOMAIN chain : chain[i] \in Task /\ chain[i].change \in Nat
         /\ DOMAIN received = 1..Len(received) /\ Len(received) \in Nat
         /\ \A k \in DOMAIN received : received[k] \in Nat
<1>1. DOMAIN wire = 1..Len(wire) /\ Len(wire) \in Nat /\ \A i \in DOMAIN wire : wire[i] \in OnWire
  BY DEF Sequences
<1>2. DOMAIN chain = 1..Len(chain) /\ Len(chain) \in Nat /\ \A i \in DOMAIN chain : chain[i] \in Task
  BY DEF Sequences
<1>3. DOMAIN received = 1..Len(received) /\ Len(received) \in Nat /\ \A k \in DOMAIN received : received[k] \in Nat
  BY DEF Sequences
<1> QED BY <1>1, <1>2, <1>3 DEF OnWire, Task

\* What the consumer has or finds in the buffer.
LEMMA GotIs ==
  ASSUME Sequences
  PROVE  /\ Got \in Seq(Task) /\ Len(Got) = Len(consumed) + Len(buffered)
         /\ \A i \in DOMAIN Got : Got[i] = IF i <= Len(consumed) THEN consumed[i] ELSE buffered[i - Len(consumed)]
BY DEF Got, Sequences

-----------------------------------------------------------------------------
(* The parts of the invariant that a step leaves alone. *)

\* The watcher is finished.
LEMMA FinishStep ==
  ASSUME WatcherInv, NEW preserve \in BOOLEAN, Finish(preserve), chain' \in Seq(Task),
         UNCHANGED <<historyVars, emitted, opened>>
  PROVE  WatcherInv'
<1>1. /\ stopped' = TRUE /\ controller' = 0 /\ wire' = <<>> /\ callback' = FALSE /\ waiting' = FALSE
      /\ buffered' \in {buffered, <<>>}
  BY DEF Finish, Cancel, LeftWaiting, AllSettled
<1>2. Sequences'
  <2>1. /\ buffered' \in Seq(Task) /\ wire' \in Seq(OnWire)
        /\ consumed' = consumed /\ received' = received /\ informedTo' = informedTo
        /\ emitted' = emitted /\ opened' = opened
    <3>1. buffered \in Seq(Task) /\ <<>> \in Seq(Task) /\ <<>> \in Seq(OnWire)
      BY DEF WatcherInv, Sequences
    <3> QED BY <1>1, <3>1 DEF historyVars
  <2> QED BY <1>1, <2>1 DEF WatcherInv, Sequences
<1>3. WireInOrder' /\ Rising(received)'
  BY <1>1 DEF WatcherInv, WireInOrder, Rising, historyVars
<1> QED BY <1>1, <1>2, <1>3 DEF WatcherInv, StreamState, NobodyWaitsInVain, EveryChangeInOrder, Announced

\* The wire, and what the loop knows of its stream, changes; nothing is delivered.
LEMMA WireStep ==
  ASSUME WatcherInv, UNCHANGED <<chain, buffered, waiting, stopped, historyVars>>,
         callback' => callback,
         opened' \in Nat, controller' \in Nat, stopped => controller' = 0,
         emitted' \in Nat, emitted <= emitted', wire' \in Seq(OnWire),
         WireInOrder', StreamState', callback => WireAnnounced' /\ EmissionsAnnounced'
  PROVE  WatcherInv'
<1>1. Sequences'
  BY DEF WatcherInv, Sequences, historyVars
<1>2. Got' = Got /\ Converting' = Converting
  BY DEF Got, Converting, historyVars
<1>3. EveryChangeInOrder' /\ NobodyWaitsInVain' /\ Rising(received)'
  <2>1. received' = received /\ chain' = chain /\ buffered' = buffered /\ stopped' = stopped /\ waiting' = waiting
    BY DEF historyVars
  <2>2. Rising(received)' /\ NobodyWaitsInVain'
    BY <2>1 DEF WatcherInv, Rising, NobodyWaitsInVain
  <2>3. BeingConverted' = BeingConverted /\ NotGot' = NotGot
    BY <1>2, <2>1 DEF BeingConverted, NotGot
  <2> QED BY <1>2, <2>1, <2>2, <2>3 DEF WatcherInv, EveryChangeInOrder
<1>4. callback => ChainAnnounced'
  BY <1>2 DEF WatcherInv, Announced, ChainAnnounced, WithConsumer, InChain, historyVars
<1>5. callback => GapIsAnnounced'
  BY <1>2 DEF WatcherInv, Announced, GapIsAnnounced, historyVars
<1> QED BY <1>1, <1>3, <1>4, <1>5 DEF WatcherInv, Announced

\* The wire is cut, or it and the emissions stay as they are.
LEMMA StillInOrder ==
  ASSUME WatcherInv, UNCHANGED received, wire' \in {wire, <<>>}, emitted' = emitted
  PROVE  WireInOrder' /\ wire' \in Seq(OnWire)
<1>1. CASE wire' = wire
  BY <1>1 DEF WatcherInv, WireInOrder, Sequences
<1>2. CASE wire' = <<>>
  BY <1>2 DEF WatcherInv, WireInOrder
<1> QED BY <1>1, <1>2

\* A step that leaves the wire and the deliveries alone leaves what was announced.
LEMMA StillAnnounced ==
  ASSUME WatcherInv, callback, UNCHANGED <<chain, buffered, historyVars, emitted>>,
         \/ wire' = wire /\ (acknowledged' => acknowledged) /\ (attached' => attached)
         \/ wire' = <<>> /\ ~attached'
  PROVE  WireAnnounced' /\ EmissionsAnnounced'
<1>1. Got' = Got
  BY DEF Got, historyVars
<1> QED BY <1>1 DEF WatcherInv, Announced, WireAnnounced, EmissionsAnnounced, WithConsumer, InChain, InWire, historyVars

\* Something that is no change is put on the wire.
LEMMA ArrivesStep ==
  ASSUME WatcherInv, NEW kind \in {"subscribed", "ended", "lost", "refused"}, Arrives(kind), UNCHANGED <<received, emitted>>
  PROVE  /\ WireInOrder' /\ wire' \in Seq(OnWire)
         /\ \A i \in DOMAIN wire : wire'[i] = wire[i] /\ \A n : InWire(n, i) => InWire(n, i)'
         /\ Len(wire') = Len(wire) + 1 /\ wire'[Len(wire')].kind = kind
         /\ \A n : InWire(n, Len(wire)) => InWire(n, Len(wire))'
<1>1. wire \in Seq(OnWire) /\ [kind |-> kind, change |-> 0] \in OnWire
  BY DEF WatcherInv, Sequences, OnWire
<1>2. /\ wire' \in Seq(OnWire) /\ Len(wire') = Len(wire) + 1 /\ wire'[Len(wire) + 1] = [kind |-> kind, change |-> 0]
      /\ \A i \in 1..Len(wire) : wire'[i] = wire[i]
  BY <1>1 DEF Arrives
<1>3. DOMAIN wire = 1..Len(wire) /\ DOMAIN wire' = 1..(Len(wire) + 1) /\ Len(wire) \in Nat
  BY <1>1, <1>2
<1>4. WireInOrder'
  BY <1>2, <1>3 DEF WatcherInv, WireInOrder
<1> QED BY <1>2, <1>3, <1>4 DEF InWire

-----------------------------------------------------------------------------
(* The steps of the kernel and of the transport. *)

\* The kernel emits a change, to a stream that is subscribed or to none.
LEMMA EmitStep ==
  ASSUME WatcherInv, Emit
  PROVE  WatcherInv'
<1>1. /\ emitted' = emitted + 1 /\ wire \in Seq(OnWire) /\ emitted \in Nat
      /\ UNCHANGED <<chain, buffered, waiting, stopped, historyVars, callback, opened, controller,
           attached, acknowledged, received, consumed, informedTo>>
  BY DEF Emit, WatcherInv, Sequences, consumerVars, historyVars
<1>4. ~stopped /\ (stopped' <=> stopped)
  BY DEF Emit, consumerVars
<1>2. CASE ~attached
  <2>1. wire' = wire
    BY <1>2 DEF Emit
  <2>2. WireInOrder'
    <3>1. \A i \in DOMAIN wire : wire[i].change \in Nat
      BY ItemsAre DEF WatcherInv
    <3>2. \A k \in DOMAIN received : received[k] \in Nat
      BY ItemsAre DEF WatcherInv
    <3> QED BY <1>1, <2>1, <3>1, <3>2 DEF WatcherInv, WireInOrder
  <2>3. Got' = Got
    BY <1>1 DEF Got
  <2>4. callback => WireAnnounced' /\ EmissionsAnnounced'
    BY <1>1, <1>2, <2>1, <2>3 DEF WatcherInv, Announced, WireAnnounced, EmissionsAnnounced, WithConsumer, InChain, InWire
  <2>5. StreamState'
    BY <1>1, <2>1 DEF WatcherInv, StreamState, EndOnWire
  <2> QED BY <1>1, <2>1, <2>2, <2>4, <2>5, WireStep DEF WatcherInv, Sequences
<1>3. CASE attached
  <2>14. PICK e \in Nat : e = emitted
    BY <1>1
  <2>15. PICK n \in Nat : n = Len(wire) + 1
    BY <1>1
  <2> DEFINE item == [kind |-> "change", change |-> e + 1]
  <2>1. wire' = Append(wire, item) /\ item \in OnWire /\ emitted' = e + 1
    BY <1>1, <1>3, <2>14 DEF Emit, OnWire
  <2>2. /\ wire' \in Seq(OnWire) /\ Len(wire') = n /\ wire'[n] = item /\ Len(wire) \in Nat
        /\ DOMAIN wire = 1..Len(wire) /\ DOMAIN wire' = 1..n
        /\ \A i \in 1..Len(wire) : wire'[i] = wire[i]
    BY <1>1, <2>1, <2>15
  <2>3. \A i \in DOMAIN wire : wire[i].change \in Nat
    BY ItemsAre DEF WatcherInv
  <2>4. \A k \in DOMAIN received : received[k] \in Nat /\ received[k] <= e
    BY <2>14, ItemsAre DEF WatcherInv, WireInOrder
  <2>5. WireInOrder'
    <3>1. \A i \in 1..Len(wire) : wire[i].kind = "change" =>
            wire[i].change <= e /\ \A k \in DOMAIN received : received[k] < wire[i].change
      BY <2>2, <2>14 DEF WatcherInv, WireInOrder
    <3>2. \A i, j \in 1..Len(wire) : i < j /\ wire[i].kind = "change" /\ wire[j].kind = "change" =>
            wire[i].change < wire[j].change
      BY <2>2 DEF WatcherInv, WireInOrder
    <3>3. \A i \in 1..n : i \in 1..Len(wire) \/ (i = n /\ wire'[i].change = e + 1)
      BY <2>2, <2>15
    <3>4. /\ \A k \in DOMAIN received : received[k] <= e + 1
          /\ \A i \in 1..n : wire'[i].kind = "change" =>
               wire'[i].change <= e + 1 /\ \A k \in DOMAIN received : received[k] < wire'[i].change
      <4>1. \A k \in DOMAIN received : received[k] \in Nat /\ received[k] <= e + 1 /\ received[k] < e + 1
        BY <2>4
      <4>2. ASSUME NEW i \in 1..n, wire'[i].kind = "change"
            PROVE  wire'[i].change <= e + 1 /\ \A k \in DOMAIN received : received[k] < wire'[i].change
        <5>1. CASE i \in 1..Len(wire)
          <6>1. wire'[i] = wire[i] /\ wire[i].change \in Nat /\ wire[i].change <= e
            BY <2>2, <2>3, <3>1, <4>2, <5>1
          <6>2. \A k \in DOMAIN received : received[k] < wire[i].change
            BY <3>1, <4>2, <5>1, <6>1
          <6> QED BY <6>1, <6>2
        <5>2. CASE i = n /\ wire'[i].change = e + 1
          BY <4>1, <5>2
        <5> QED BY <3>3, <5>1, <5>2
      <4> QED BY <4>1, <4>2
    <3>5. \A i, j \in 1..n : i < j /\ wire'[i].kind = "change" /\ wire'[j].kind = "change" =>
            wire'[i].change < wire'[j].change
      BY <2>2, <2>3, <2>15, <3>1, <3>2, <3>3
    <3> QED BY <1>1, <2>1, <2>2, <3>4, <3>5 DEF WireInOrder
  <2>6. Got' = Got
    BY <1>1 DEF Got
  <2>7. \A m, k : WithConsumer(m)' = WithConsumer(m) /\ InChain(m, k)' = InChain(m, k)
    BY <1>1, <2>6 DEF WithConsumer, InChain
  <2>8. ASSUME NEW m, NEW k \in 1..Len(wire), InWire(m, k) PROVE InWire(m, k)' /\ InWire(m, n)'
    BY <2>2, <2>8, <2>15 DEF InWire
  <2>9. InWire(e + 1, n)'
    BY <2>2, <2>15 DEF InWire
  <2>10. ASSUME callback, acknowledged, NEW m \in 1..(e + 1)
         PROVE  (WithConsumer(m) \/ InChain(m, Len(chain)) \/ InWire(m, n))'
    <3>1. CASE m = e + 1
      BY <2>9, <3>1
    <3>2. CASE m \in 1..e
      <4>1. WithConsumer(m) \/ InChain(m, Len(chain)) \/ InWire(m, Len(wire))
        BY <1>3, <2>10, <2>14, <3>2 DEF WatcherInv, Announced, EmissionsAnnounced
      <4>2. InWire(m, Len(wire)) => Len(wire) \in 1..Len(wire)
        BY <2>2 DEF InWire
      <4> QED BY <1>1, <2>7, <2>8, <4>1, <4>2
    <3> QED BY <3>1, <3>2
  <2>11. callback => EmissionsAnnounced'
    BY <1>1, <2>1, <2>2, <2>10 DEF EmissionsAnnounced
  <2>12. callback => WireAnnounced'
    <3> SUFFICES ASSUME callback, acknowledged, NEW i \in 1..n, wire'[i].kind = "change", NEW m \in 1..wire'[i].change
                 PROVE  (WithConsumer(m) \/ InChain(m, Len(chain)) \/ InWire(m, i))'
      BY <1>1, <2>2 DEF WireAnnounced
    <3>1. CASE i = n
      BY <2>2, <2>10, <3>1
    <3>2. CASE i \in 1..Len(wire)
      <4>1. WithConsumer(m) \/ InChain(m, Len(chain)) \/ InWire(m, i)
        BY <2>2, <3>2 DEF WatcherInv, Announced, WireAnnounced
      <4> QED BY <1>1, <2>7, <2>8, <3>2, <4>1
    <3> QED BY <2>2, <2>15, <3>1, <3>2
  <2>13. StreamState'
    BY <1>1, <1>3 DEF WatcherInv, StreamState
  <2> QED BY <1>1, <2>2, <2>5, <2>11, <2>12, <2>13, WireStep DEF WatcherInv, Sequences
<1> QED BY <1>2, <1>3

\* A marker, or the end of the stream.
LEMMA MarkerOrEndStep ==
  ASSUME WatcherInv, NEW kind \in {"subscribed", "ended", "lost", "refused"}, Arrives(kind),
         UNCHANGED <<chain, buffered, waiting, stopped, historyVars, callback, opened, controller, acknowledged, emitted>>,
         attached' => attached, attached \/ controller # 0, kind = "subscribed" => attached'
  PROVE  WatcherInv'
<1>1. /\ WireInOrder' /\ wire' \in Seq(OnWire)
      /\ \A i \in DOMAIN wire : wire'[i] = wire[i] /\ \A n : InWire(n, i) => InWire(n, i)'
      /\ Len(wire') = Len(wire) + 1 /\ wire'[Len(wire')].kind = kind
      /\ \A n : InWire(n, Len(wire)) => InWire(n, Len(wire))'
  BY ArrivesStep DEF historyVars
<1>2. PICK l \in Nat : l = Len(wire)
  BY ItemsAre DEF WatcherInv
<1>3. DOMAIN wire = 1..l /\ DOMAIN wire' = 1..(l + 1) /\ wire'[l + 1].kind # "change" /\ Len(wire') = l + 1
  BY <1>1, <1>2 DEF WatcherInv, Sequences
<1>4. Got' = Got
  BY DEF Got, historyVars
<1>5. \A m, k : WithConsumer(m)' = WithConsumer(m) /\ InChain(m, k)' = InChain(m, k)
  BY <1>4 DEF WithConsumer, InChain, historyVars
<1>6. callback => WireAnnounced'
  <2> SUFFICES ASSUME callback, acknowledged, NEW i \in 1..(l + 1), wire'[i].kind = "change", NEW m \in 1..wire'[i].change
               PROVE  (WithConsumer(m) \/ InChain(m, Len(chain)) \/ InWire(m, i))'
    BY <1>3 DEF WireAnnounced
  <2>1. i \in 1..l
    BY <1>3
  <2>2. WithConsumer(m) \/ InChain(m, Len(chain)) \/ InWire(m, i)
    BY <1>1, <1>3, <2>1 DEF WatcherInv, Announced, WireAnnounced
  <2> QED BY <1>1, <1>3, <1>5, <2>1, <2>2
<1>7. callback => EmissionsAnnounced'
  <2> SUFFICES ASSUME callback, attached, acknowledged, NEW m \in 1..emitted
               PROVE  (WithConsumer(m) \/ InChain(m, Len(chain)) \/ InWire(m, Len(wire)))'
    BY DEF EmissionsAnnounced
  <2>1. WithConsumer(m) \/ InChain(m, Len(chain)) \/ InWire(m, Len(wire))
    BY DEF WatcherInv, Announced, EmissionsAnnounced
  <2> QED BY <1>1, <1>5, <2>1
<1>8. opened' \in Nat /\ controller' \in Nat /\ (stopped => controller' = 0) /\ emitted' \in Nat /\ emitted <= emitted'
  BY DEF WatcherInv, Sequences
<1>9. StreamState'
  <2>1. stopped \/ controller # 0
    BY DEF WatcherInv, StreamState
  <2>2. kind # "subscribed" => EndOnWire'
    BY <1>1, <1>3 DEF EndOnWire
  <2> QED BY <2>1, <2>2 DEF WatcherInv, StreamState
<1> QED BY <1>1, <1>6, <1>7, <1>8, <1>9, WireStep

\* What the kernel and the transport do otherwise.
LEMMA KernelSteps ==
  ASSUME WatcherInv, Subscribes \/ SendsMarker \/ \E how \in {"ended", "lost", "refused"} : StreamLost(how)
  PROVE  WatcherInv'
<1>1. CASE Subscribes
  <2>1. UNCHANGED <<chain, buffered, waiting, stopped, historyVars, callback, opened, controller, emitted, wire, acknowledged>>
    BY <1>1 DEF Subscribes, consumerVars, kernelVars
  <2>2. ~acknowledged /\ attached' = TRUE
    BY <1>1 DEF Subscribes, WatcherInv, StreamState, EndOnWire
  <2>3. WireInOrder' /\ wire' \in Seq(OnWire)
    BY <2>1, StillInOrder DEF historyVars
  <2>4. WireAnnounced' /\ EmissionsAnnounced'
    BY <2>1, <2>2 DEF WireAnnounced, EmissionsAnnounced
  <2>5. StreamState'
    BY <1>1, <2>1, <2>2 DEF Subscribes, StreamState
  <2> QED BY <2>1, <2>3, <2>4, <2>5, WireStep DEF WatcherInv, Sequences
<1>2. CASE SendsMarker
  BY <1>2, MarkerOrEndStep DEF SendsMarker, consumerVars, kernelVars
<1>3. ASSUME NEW how \in {"ended", "lost", "refused"}, StreamLost(how) PROVE WatcherInv'
  BY <1>3, MarkerOrEndStep DEF StreamLost, consumerVars
<1> QED BY <1>1, <1>2, <1>3

-----------------------------------------------------------------------------
(* The steps of the loop. *)

\* What the loop hands over joins the chain, and leaves the wire.
LEMMA HandOverIs ==
  ASSUME WatcherInv, wire # <<>>, NEW task \in Task, chain' = Append(chain, task), wire' = Tail(wire),
         NEW l, l = Len(chain), NEW w, w = Len(wire)
  PROVE  /\ l \in Nat /\ w \in Nat \ {0} /\ chain' \in Seq(Task) /\ wire' \in Seq(OnWire)
         /\ DOMAIN chain' = 1..(l + 1) /\ Len(chain') = l + 1 /\ \A i \in 1..l : chain'[i] = chain[i]
         /\ chain'[l + 1] = task
         /\ DOMAIN wire' = 1..(w - 1) /\ Len(wire') = w - 1 /\ \A i \in 1..(w - 1) : wire'[i] = wire[i + 1]
         /\ Head(wire) = wire[1]
         /\ \A n : \A i \in 1..l : InChain(n, i) => InChain(n, i)' /\ InChain(n, l + 1)'
         /\ \A n : \A i \in 1..(w - 1) : InWire(n, i + 1) =>
               (wire[1].kind = "change" /\ wire[1].change = n) \/ InWire(n, i)'
<1>1. chain \in Seq(Task) /\ wire \in Seq(OnWire)
  BY DEF WatcherInv, Sequences
<1>2. chain' = Append(chain, task) /\ wire' = Tail(wire)
  OBVIOUS
<1>3. /\ l \in Nat /\ chain' \in Seq(Task) /\ DOMAIN chain' = 1..(l + 1) /\ Len(chain') = l + 1
      /\ chain'[l + 1] = task /\ \A i \in 1..l : chain'[i] = chain[i]
  BY <1>1, <1>2
<1>4. /\ w \in Nat \ {0} /\ wire' \in Seq(OnWire) /\ DOMAIN wire' = 1..(w - 1) /\ Len(wire') = w - 1
      /\ Head(wire) = wire[1] /\ \A i \in 1..(w - 1) : wire'[i] = wire[i + 1]
  BY <1>1, <1>2
<1>5. ASSUME NEW n, NEW i \in 1..l, InChain(n, i) PROVE InChain(n, i)' /\ InChain(n, l + 1)'
  <2>1. PICK j \in 1..i : chain[j].kind = "callback" \/ (chain[j].kind = "change" /\ chain[j].change = n)
    BY <1>5 DEF InChain
  <2>2. j \in 1..l /\ j \in 1..(l + 1)
    BY <1>3
  <2> QED BY <1>3, <2>1, <2>2 DEF InChain
<1>6. ASSUME NEW n, NEW i \in 1..(w - 1), InWire(n, i + 1), ~(wire[1].kind = "change" /\ wire[1].change = n)
      PROVE  InWire(n, i)'
  <2>1. PICK j \in 1..(i + 1) : wire[j].kind = "change" /\ wire[j].change = n
    BY <1>6 DEF InWire
  <2>2. j - 1 \in 1..i /\ j - 1 \in 1..(w - 1)
    BY <1>4, <1>6, <2>1
  <2>3. wire'[j - 1] = wire[j]
    BY <1>4, <2>2
  <2> QED BY <2>1, <2>2, <2>3 DEF InWire
<1> QED BY <1>1, <1>3, <1>4, <1>5, <1>6

\* A marker leaves the wire: what is behind it keeps its order.
LEMMA MarkerTaken ==
  ASSUME WatcherInv, wire # <<>>, Head(wire).kind = "subscribed", wire' = Tail(wire), controller # 0,
         UNCHANGED <<received, emitted, controller, attached, stopped>>, NEW w \in Nat, w = Len(wire)
  PROVE  /\ wire' \in Seq(OnWire) /\ DOMAIN wire' = 1..(w - 1)
         /\ \A i \in 1..(w - 1) : wire'[i] = wire[i + 1]
         /\ WireInOrder' /\ StreamState'
<1>1. DOMAIN wire = 1..w
  BY ItemsAre DEF WatcherInv
<1>2. /\ w \in Nat \ {0} /\ wire' \in Seq(OnWire) /\ DOMAIN wire' = 1..(w - 1)
      /\ \A i \in 1..(w - 1) : wire'[i] = wire[i + 1]
      /\ Head(wire) = wire[1]
  <2>1. wire \in Seq(OnWire)
    BY DEF WatcherInv, Sequences
  <2> QED BY <2>1
<1>3. WireInOrder'
  <2>1. \A i \in 1..(w - 1) : i + 1 \in 1..w
    BY <1>2
  <2>2. \A i \in 1..(w - 1) : wire'[i].kind = "change" =>
          wire'[i].change <= emitted /\ \A k \in DOMAIN received : received[k] < wire'[i].change
    <3> SUFFICES ASSUME NEW i \in 1..(w - 1), wire'[i].kind = "change"
                 PROVE  wire'[i].change <= emitted /\ \A k \in DOMAIN received : received[k] < wire'[i].change
      OBVIOUS
    <3>1. wire'[i] = wire[i + 1] /\ i + 1 \in DOMAIN wire
      BY <1>2, <1>1, <2>1
    <3> QED BY <3>1 DEF WatcherInv, WireInOrder
  <2>3. \A i, j \in 1..(w - 1) : i < j /\ wire'[i].kind = "change" /\ wire'[j].kind = "change" =>
          wire'[i].change < wire'[j].change
    <3> SUFFICES ASSUME NEW i \in 1..(w - 1), NEW j \in 1..(w - 1), i < j,
                        wire'[i].kind = "change", wire'[j].kind = "change"
                 PROVE  wire'[i].change < wire'[j].change
      OBVIOUS
    <3>1. i + 1 < j + 1 /\ wire'[i] = wire[i + 1] /\ wire'[j] = wire[j + 1] /\ i + 1 \in 1..w /\ j + 1 \in 1..w
      BY <1>2
    <3> QED BY <1>1, <3>1 DEF WatcherInv, WireInOrder
  <2>4. \A k \in DOMAIN received : received[k] <= emitted
    BY DEF WatcherInv, WireInOrder
  <2> QED BY <1>2, <2>2, <2>3, <2>4 DEF WireInOrder
<1>4. StreamState'
  <2>1. ~attached => EndOnWire
    BY DEF WatcherInv, StreamState
  <2>2. EndOnWire => EndOnWire'
    <3> SUFFICES ASSUME NEW i \in 1..w, wire[i].kind \in {"ended", "lost", "refused"} PROVE EndOnWire'
      BY <1>1 DEF EndOnWire
    <3>1. i # 1 /\ i - 1 \in 1..(w - 1)
      BY <1>2
    <3>2. wire'[i - 1] = wire[(i - 1) + 1] /\ (i - 1) + 1 = i
      BY <1>2, <3>1
    <3> QED BY <1>2, <3>1, <3>2 DEF EndOnWire
  <2> QED BY <2>1, <2>2 DEF StreamState
<1> QED BY <1>2, <1>3, <1>4

\* The loop takes the marker of the first subscription, upon which the application queries.
LEMMA FirstMarkerStep ==
  ASSUME WatcherInv, TakeMarker, ~hasSubscribed
  PROVE  WatcherInv'
<1>1. PICK w \in Nat : w = Len(wire)
  BY ItemsAre DEF WatcherInv
<1>2. /\ controller # 0 /\ wire # <<>> /\ Head(wire).kind = "subscribed"
      /\ wire' = Tail(wire) /\ acknowledged' = TRUE /\ informedTo' = emitted
      /\ UNCHANGED <<chain, opened, controller, attached, callback, buffered, waiting, stopped, received,
           consumed, emitted>>
  BY DEF TakeMarker, Next1, consumerVars, kernelVars
<1>3. /\ wire' \in Seq(OnWire) /\ DOMAIN wire' = 1..(w - 1) /\ WireInOrder' /\ StreamState'
  BY <1>1, <1>2, MarkerTaken
<1>4. Got' = Got /\ Converting' = Converting
  BY <1>2 DEF Got, Converting
<1>5. EveryChangeInOrder' /\ NobodyWaitsInVain' /\ Rising(received)'
  <2>1. Rising(received)' /\ NobodyWaitsInVain'
    BY <1>2 DEF WatcherInv, Rising, NobodyWaitsInVain
  <2>2. BeingConverted' = BeingConverted /\ NotGot' = NotGot
    BY <1>2, <1>4 DEF BeingConverted, NotGot
  <2> QED BY <1>2, <1>4, <2>1, <2>2 DEF WatcherInv, EveryChangeInOrder
<1>6. Sequences'
  BY <1>2, <1>3 DEF WatcherInv, Sequences
<1>7. /\ \A n \in 1..emitted : WithConsumer(n)'
      /\ \A n \in Nat : WithConsumer(n) => WithConsumer(n)'
  <2>1. emitted \in Nat /\ informedTo \in Nat /\ informedTo <= emitted
    BY DEF WatcherInv, Sequences
  <2> QED BY <1>2, <1>4, <2>1 DEF WithConsumer
<1>8. EmissionsAnnounced'
  BY <1>2, <1>7 DEF EmissionsAnnounced
<1>9. WireAnnounced'
  <2> SUFFICES ASSUME NEW i \in DOMAIN wire', wire'[i].kind = "change", NEW n \in 1..wire'[i].change
               PROVE  WithConsumer(n)'
    BY DEF WireAnnounced
  <2>1. wire'[i].change <= emitted /\ wire'[i].change \in Nat /\ emitted \in Nat
    <3>1. wire'[i].change <= emitted' /\ emitted \in Nat
      BY <1>3 DEF WireInOrder, WatcherInv, Sequences
    <3>2. wire'[i] \in OnWire
      BY <1>3
    <3> QED BY <1>2, <3>1, <3>2 DEF OnWire
  <2> QED BY <1>7, <2>1
<1>10. callback => ChainAnnounced'
  <2> SUFFICES ASSUME callback, NEW i \in DOMAIN chain, chain[i].kind = "change", ~chain[i].ahead,
                      NEW n \in 1..chain[i].change
               PROVE  WithConsumer(n)' \/ InChain(n, i)'
    BY <1>2 DEF ChainAnnounced
  <2>1. (WithConsumer(n) \/ InChain(n, i)) /\ n \in Nat
    BY DEF WatcherInv, Announced, ChainAnnounced
  <2> QED BY <1>2, <1>7, <2>1 DEF InChain
<1>11. callback => GapIsAnnounced'
  <2>1. informedTo <= informedTo' /\ informedTo \in Nat /\ informedTo' \in Nat
    BY <1>2 DEF WatcherInv, Sequences
  <2> QED BY <1>2, <1>4, <2>1 DEF WatcherInv, Announced, GapIsAnnounced
<1> QED BY <1>2, <1>3, <1>5, <1>6, <1>8, <1>9, <1>10, <1>11 DEF WatcherInv, Announced

\* The loop takes the marker of a later subscription, and hands the callback over.
LEMMA LaterMarkerStep ==
  ASSUME WatcherInv, TakeMarker, hasSubscribed
  PROVE  WatcherInv'
<1> DEFINE kind == IF Told THEN "callback" ELSE "nothing"
<1>1. PICK l \in Nat, w \in Nat : l = Len(chain) /\ w = Len(wire)
  BY ItemsAre DEF WatcherInv
<1>2. /\ controller # 0 /\ wire # <<>> /\ Head(wire).kind = "subscribed" /\ kind \in {"change", "callback", "nothing"}
      /\ HandOver(kind, 0, FALSE) /\ acknowledged' = TRUE
      /\ UNCHANGED <<opened, controller, attached, callback, buffered, waiting, stopped, received, consumed,
           informedTo, emitted>>
  BY DEF TakeMarker, Next1, consumerVars, kernelVars
<1>3. kind # "change" /\ (callback => kind = "callback")
  BY DEF Told, ToldAfterAny
<1> HIDE DEF kind
<1>4. /\ l \in Nat /\ w \in Nat \ {0} /\ chain' \in Seq(Task) /\ wire' \in Seq(OnWire)
      /\ DOMAIN chain' = 1..(l + 1) /\ Len(chain') = l + 1 /\ \A i \in 1..l : chain'[i] = chain[i]
      /\ chain'[l + 1].kind = kind
      /\ DOMAIN wire' = 1..(w - 1) /\ Len(wire') = w - 1 /\ \A i \in 1..(w - 1) : wire'[i] = wire[i + 1]
      /\ Head(wire) = wire[1]
      /\ \A n : \A i \in 1..l : InChain(n, i) => InChain(n, i)' /\ InChain(n, l + 1)'
  <2> DEFINE task == [kind |-> kind, change |-> 0, ahead |-> FALSE, by |-> controller]
  <2>1. task \in Task /\ task.kind = kind
    BY <1>2 DEF Task, WatcherInv, Sequences
  <2>2. chain' = Append(chain, task) /\ wire' = Tail(wire)
    BY <1>2 DEF HandOver
  <2> HIDE DEF task
  <2> QED BY <1>1, <1>2, <2>1, <2>2, HandOverIs
<1>5. DOMAIN chain = 1..l /\ DOMAIN wire = 1..w
  BY <1>1, ItemsAre DEF WatcherInv
<1>6. Got' = Got /\ Converting' = Converting
  BY <1>2, <1>3, <1>4, <1>5 DEF Got, Converting
<1>7. BeingConverted' = BeingConverted /\ NotGot' = NotGot
  <2>1. \A i \in Converting : chain'[i] = chain[i]
    BY <1>4, <1>5 DEF Converting
  <2> QED BY <1>2, <1>6, <2>1 DEF BeingConverted, NotGot
<1>8. Sequences'
  BY <1>2, <1>4 DEF WatcherInv, Sequences
<1>9. Rising(received)' /\ NobodyWaitsInVain'
  BY <1>2 DEF WatcherInv, Rising, NobodyWaitsInVain
<1>10. EveryChangeInOrder'
  <2>1. \A i \in Converting : chain'[i] = chain[i]
    BY <1>4, <1>5 DEF Converting
  <2> QED BY <1>2, <1>6, <1>7, <1>9, <2>1 DEF WatcherInv, EveryChangeInOrder
<1>11. WireInOrder' /\ StreamState'
  <2>1. wire' = Tail(wire)
    BY <1>2 DEF HandOver
  <2> QED BY <1>1, <1>2, <2>1, MarkerTaken
<1>13. ASSUME callback, NEW n \in 1..emitted PROVE InChain(n, l + 1)'
  <2>1. l + 1 \in 1..(l + 1) /\ chain'[l + 1].kind = "callback"
    BY <1>3, <1>4, <1>13
  <2> QED BY <2>1 DEF InChain
<1>14. \A n \in Nat : WithConsumer(n) => WithConsumer(n)'
  BY <1>2, <1>6 DEF WithConsumer, WatcherInv, Sequences
<1>15. callback => WireAnnounced' /\ EmissionsAnnounced'
  <2> SUFFICES ASSUME callback PROVE WireAnnounced' /\ EmissionsAnnounced'
    OBVIOUS
  <2>1. EmissionsAnnounced'
    BY <1>2, <1>4, <1>13 DEF EmissionsAnnounced
  <2>2. ASSUME NEW i \in 1..(w - 1), wire'[i].kind = "change", NEW n \in 1..wire'[i].change PROVE n \in 1..emitted
    <3>1. wire'[i].change <= emitted /\ wire'[i].change \in Nat /\ emitted \in Nat
      <4>1. wire'[i].change <= emitted' /\ emitted \in Nat
        BY <1>4, <2>2, <1>11 DEF WireInOrder, WatcherInv, Sequences
      <4>2. wire'[i] \in OnWire
        BY <1>4
      <4> QED BY <1>2, <4>1, <4>2 DEF OnWire
    <3> QED BY <3>1
  <2>3. WireAnnounced'
    BY <1>4, <1>13, <2>2 DEF WireAnnounced
  <2> QED BY <2>1, <2>3
<1>16. callback => ChainAnnounced'
  <2> SUFFICES ASSUME callback, NEW i \in 1..(l + 1), chain'[i].kind = "change", ~chain'[i].ahead,
                      NEW n \in 1..chain'[i].change
               PROVE  WithConsumer(n)' \/ InChain(n, i)'
    BY <1>4 DEF ChainAnnounced
  <2>1. i \in 1..l /\ chain'[i] = chain[i]
    BY <1>3, <1>4
  <2>2. (WithConsumer(n) \/ InChain(n, i)) /\ n \in Nat
    BY <1>5, <2>1 DEF WatcherInv, Announced, ChainAnnounced
  <2> QED BY <1>4, <1>14, <2>1, <2>2
<1>17. callback => GapIsAnnounced'
  <2>1. informedTo <= informedTo' /\ informedTo \in Nat /\ informedTo' \in Nat
    BY <1>2 DEF WatcherInv, Sequences
  <2> QED BY <1>2, <1>6, <2>1 DEF WatcherInv, Announced, GapIsAnnounced
<1> QED BY <1>2, <1>8, <1>9, <1>10, <1>11, <1>15, <1>16, <1>17 DEF WatcherInv, Announced

\* The loop takes a change, and hands its conversion over.
LEMMA TakeChangeStep ==
  ASSUME WatcherInv, TakeChange
  PROVE  WatcherInv'
<1>1. PICK l \in Nat, w \in Nat, r \in Nat, c \in Nat :
        l = Len(chain) /\ w = Len(wire) /\ r = Len(received) /\ (wire # <<>> => c = wire[1].change)
  <2>1. wire # <<>> => 1 \in DOMAIN wire
    BY DEF WatcherInv, Sequences
  <2> QED BY <2>1, ItemsAre DEF WatcherInv
<1> DEFINE task == [kind |-> "change", change |-> c, ahead |-> ~acknowledged, by |-> controller]
<1>2. /\ controller # 0 /\ wire # <<>> /\ wire[1].kind = "change" /\ c = wire[1].change
      /\ received' = Append(received, c) /\ chain' = Append(chain, task) /\ wire' = Tail(wire)
      /\ UNCHANGED <<opened, controller, attached, acknowledged, callback, buffered, waiting, stopped,
           consumed, informedTo, emitted>>
  BY <1>1 DEF TakeChange, Next1, HandOver, consumerVars, kernelVars
<1>3. task \in Task /\ task.kind = "change" /\ task.change = c /\ task.ahead = ~acknowledged
  BY DEF Task, WatcherInv, Sequences
<1> HIDE DEF task
<1>4. /\ l \in Nat /\ w \in Nat \ {0} /\ chain' \in Seq(Task) /\ wire' \in Seq(OnWire)
      /\ DOMAIN chain' = 1..(l + 1) /\ Len(chain') = l + 1 /\ \A i \in 1..l : chain'[i] = chain[i]
      /\ chain'[l + 1] = task
      /\ DOMAIN wire' = 1..(w - 1) /\ Len(wire') = w - 1 /\ \A i \in 1..(w - 1) : wire'[i] = wire[i + 1]
      /\ \A n : \A i \in 1..l : InChain(n, i) => InChain(n, i)' /\ InChain(n, l + 1)'
      /\ \A n : \A i \in 1..(w - 1) : InWire(n, i + 1) =>
            (wire[1].kind = "change" /\ wire[1].change = n) \/ InWire(n, i)'
  BY <1>1, <1>2, <1>3, HandOverIs
<1>5. DOMAIN chain = 1..l /\ DOMAIN wire = 1..w /\ DOMAIN received = 1..r
  BY <1>1, ItemsAre DEF WatcherInv
<1>6. /\ received' \in Seq(Nat) /\ Len(received') = r + 1 /\ DOMAIN received' = 1..(r + 1)
      /\ received'[r + 1] = c /\ \A k \in 1..r : received'[k] = received[k]
  BY <1>1, <1>2 DEF WatcherInv, Sequences
<1>7. ~stopped /\ Got' = Got
  BY <1>2 DEF Got, WatcherInv
<1>8. /\ c <= emitted /\ \A k \in 1..r : received[k] < c /\ received[k] <= emitted
      /\ \A i \in 2..w : wire[i].kind = "change" => c < wire[i].change /\ wire[i].change <= emitted
  <2>1. 1 \in 1..w /\ \A i \in 2..w : i \in 1..w /\ 1 < i
    BY <1>4
  <2> QED BY <1>2, <1>5, <2>1 DEF WatcherInv, WireInOrder
<1>9. \A k \in 1..r : received[k] \in Nat
  BY <1>5, ItemsAre DEF WatcherInv
<1>10. Sequences' /\ NobodyWaitsInVain'
  BY <1>2, <1>4, <1>6 DEF WatcherInv, Sequences, NobodyWaitsInVain
<1>11. Rising(received)'
  <2>1. \A i, j \in 1..r : i < j => received[i] < received[j]
    BY <1>5 DEF WatcherInv, Rising
  <2> QED BY <1>6, <1>8, <2>1, SMTT(30) DEF Rising
<1>12. WireInOrder'
  <2>1. \A i \in 1..(w - 1) : i + 1 \in 1..w /\ i + 1 \in 2..w
    BY <1>4
  <2>2. ASSUME NEW i \in 1..(w - 1), wire'[i].kind = "change"
        PROVE  wire'[i].change <= emitted /\ \A k \in 1..(r + 1) : received'[k] < wire'[i].change
    <3>1. wire'[i] = wire[i + 1] /\ i + 1 \in 1..w /\ wire[i + 1].kind = "change" /\ c < wire[i + 1].change
      BY <1>4, <1>8, <2>1, <2>2
    <3>2. wire[i + 1].change <= emitted /\ \A k \in 1..r : received[k] < wire[i + 1].change
      BY <1>5, <3>1 DEF WatcherInv, WireInOrder
    <3>3. \A k \in 1..(r + 1) : k \in 1..r \/ k = r + 1
      OBVIOUS
    <3>4. \A k \in 1..(r + 1) : received'[k] < wire'[i].change
      BY <1>6, <3>1, <3>2, <3>3
    <3> QED BY <3>1, <3>2, <3>4
  <2>3. \A i, j \in 1..(w - 1) : i < j /\ wire'[i].kind = "change" /\ wire'[j].kind = "change" =>
          wire'[i].change < wire'[j].change
    <3> SUFFICES ASSUME NEW i \in 1..(w - 1), NEW j \in 1..(w - 1), i < j,
                        wire'[i].kind = "change", wire'[j].kind = "change"
                 PROVE  wire'[i].change < wire'[j].change
      OBVIOUS
    <3>1. i + 1 < j + 1 /\ wire'[i] = wire[i + 1] /\ wire'[j] = wire[j + 1] /\ i + 1 \in 1..w /\ j + 1 \in 1..w
      BY <1>4
    <3> QED BY <1>5, <3>1 DEF WatcherInv, WireInOrder
  <2>4. \A k \in 1..(r + 1) : received'[k] <= emitted
    BY <1>6, <1>8
  <2> QED BY <1>2, <1>4, <1>6, <2>2, <2>3, <2>4 DEF WireInOrder
<1>13. StreamState'
  <2>1. ~attached => EndOnWire
    BY <1>2 DEF WatcherInv, StreamState
  <2>2. EndOnWire => EndOnWire'
    <3> SUFFICES ASSUME NEW i \in 1..w, wire[i].kind \in {"ended", "lost", "refused"} PROVE EndOnWire'
      BY <1>5 DEF EndOnWire
    <3>1. i # 1 /\ i - 1 \in 1..(w - 1)
      BY <1>2, <1>4
    <3>2. wire'[i - 1] = wire[(i - 1) + 1] /\ (i - 1) + 1 = i
      BY <1>4, <3>1
    <3> QED BY <1>4, <3>1, <3>2 DEF EndOnWire
  <2> QED BY <1>2, <2>1, <2>2 DEF StreamState
<1>14. Converting' = Converting \cup {l + 1} /\ Converting \subseteq 1..l
  BY <1>3, <1>4, <1>5 DEF Converting
<1>15. EveryChangeInOrder'
  <2>1. /\ Len(Got) <= r /\ \A i \in DOMAIN Got : Got[i].change = received[i]
        /\ BeingConverted = NotGot /\ Len(buffered) <= BufferLimit
        /\ \A i, j \in Converting : i < j => chain[i].change < chain[j].change
    BY <1>1, <1>7 DEF WatcherInv, EveryChangeInOrder
  <2>2. Len(Got) \in Nat /\ DOMAIN Got = 1..Len(Got)
    BY GotIs DEF WatcherInv
  <2>3. \A x : x \in NotGot' <=> x \in NotGot \/ x = c
    <3>1. PICK g \in Nat : g = Len(Got) /\ g <= r
      BY <2>1, <2>2
    <3>2. NotGot = {received[i] : i \in (g + 1)..r} /\ NotGot' = {received'[i] : i \in (g + 1)..(r + 1)}
      BY <1>1, <1>6, <1>7, <3>1 DEF NotGot
    <3>3. \A i \in (g + 1)..(r + 1) : (i \in (g + 1)..r /\ i \in 1..r) \/ i = r + 1
      OBVIOUS
    <3>4. \A i \in (g + 1)..r : i \in 1..r /\ i \in (g + 1)..(r + 1)
      OBVIOUS
    <3>5. r + 1 \in (g + 1)..(r + 1)
      BY <3>1
    <3> QED BY <1>6, <3>2, <3>3, <3>4, <3>5
  <2>4. \A x : x \in BeingConverted' <=> x \in BeingConverted \/ x = c
    <3>1. \A i \in Converting : chain'[i] = chain[i]
      BY <1>4, <1>14
    <3> QED BY <1>3, <1>4, <1>14, <3>1 DEF BeingConverted
  <2>5. BeingConverted' = NotGot'
    BY <2>1, <2>3, <2>4
  <2>6. \A i \in Converting : chain[i].change < c
    <3>1. \A i \in Converting : chain[i].change \in NotGot
      BY <2>1 DEF BeingConverted
    <3>2. \A x \in NotGot : x < c
      BY <1>1, <1>8, <2>2 DEF NotGot
    <3> QED BY <3>1, <3>2
  <2>7. \A i, j \in Converting' : i < j => chain'[i].change < chain'[j].change
    <3> SUFFICES ASSUME NEW i \in Converting', NEW j \in Converting', i < j
                 PROVE  chain'[i].change < chain'[j].change
      OBVIOUS
    <3>1. i \in Converting /\ i \in 1..l
      BY <1>4, <1>14
    <3>2. CASE j = l + 1
      BY <1>3, <1>4, <2>6, <3>1, <3>2
    <3>3. CASE j \in Converting
      BY <1>4, <1>14, <2>1, <3>1, <3>3
    <3> QED BY <1>14, <3>2, <3>3
  <2>8. \A i \in DOMAIN Got : Got[i].change = received'[i]
    BY <1>6, <2>1, <2>2
  <2>9. Len(Got') <= Len(received')
    BY <1>6, <1>7, <2>1, <2>2
  <2>10. \A i \in DOMAIN Got' : Got'[i].change = received'[i]
    BY <1>7, <2>8
  <2>11. Len(buffered)' <= BufferLimit
    BY <1>2, <2>1
  <2> QED BY <1>11, <2>5, <2>7, <2>9, <2>10, <2>11 DEF EveryChangeInOrder
<1>16. \A n : WithConsumer(n) <=> WithConsumer(n)'
  BY <1>2, <1>7 DEF WithConsumer
<1>17. InChain(c, l + 1)'
  <2>1. l + 1 \in 1..(l + 1)
    BY <1>4
  <2> QED BY <1>3, <1>4, <2>1 DEF InChain
<1>18. \A n : InChain(n, l) => InChain(n, l + 1)'
  <2>1. ASSUME NEW n, InChain(n, l) PROVE l \in 1..l
    BY <2>1 DEF InChain
  <2> QED BY <1>4, <2>1
<1>19. callback => WireAnnounced'
  <2> SUFFICES ASSUME callback, acknowledged, NEW i \in 1..(w - 1), wire'[i].kind = "change", NEW n \in 1..wire'[i].change
               PROVE  WithConsumer(n)' \/ InChain(n, l + 1)' \/ InWire(n, i)'
    BY <1>2, <1>4 DEF WireAnnounced
  <2>1. wire'[i] = wire[i + 1] /\ i + 1 \in 1..w
    BY <1>4
  <2>2. WithConsumer(n) \/ InChain(n, l) \/ InWire(n, i + 1)
    BY <1>1, <1>5, <2>1 DEF WatcherInv, Announced, WireAnnounced
  <2>3. InWire(n, i + 1) => n = c \/ InWire(n, i)'
    BY <1>2, <1>4
  <2> QED BY <1>16, <1>17, <1>18, <2>2, <2>3
<1>20. callback => EmissionsAnnounced'
  <2> SUFFICES ASSUME callback, attached, acknowledged, NEW n \in 1..emitted
               PROVE  WithConsumer(n)' \/ InChain(n, l + 1)' \/ InWire(n, w - 1)'
    BY <1>2, <1>4 DEF EmissionsAnnounced
  <2>1. WithConsumer(n) \/ InChain(n, l) \/ InWire(n, w)
    BY <1>1 DEF WatcherInv, Announced, EmissionsAnnounced
  <2>2. InWire(n, w) => n = c \/ InWire(n, w - 1)'
    <3>1. CASE w = 1
      BY <1>2, <3>1 DEF InWire
    <3>2. CASE w # 1
      <4>1. w - 1 \in 1..(w - 1) /\ (w - 1) + 1 = w
        BY <1>4, <3>2
      <4> QED BY <1>2, <1>4, <4>1
    <3> QED BY <3>1, <3>2
  <2> QED BY <1>16, <1>17, <1>18, <2>1, <2>2
<1>21. callback => ChainAnnounced'
  <2> SUFFICES ASSUME callback, NEW i \in 1..(l + 1), chain'[i].kind = "change", ~chain'[i].ahead,
                      NEW n \in 1..chain'[i].change
               PROVE  WithConsumer(n)' \/ InChain(n, i)'
    BY <1>4 DEF ChainAnnounced
  <2>1. CASE i \in 1..l
    <3>1. WithConsumer(n) \/ InChain(n, i)
      BY <1>4, <1>5, <2>1 DEF WatcherInv, Announced, ChainAnnounced
    <3> QED BY <1>4, <1>16, <2>1, <3>1
  <2>2. CASE i = l + 1
    <3>1. acknowledged /\ n \in 1..c
      BY <1>3, <1>4, <2>2
    <3>2. 1 \in 1..w
      BY <1>4
    <3>3. WithConsumer(n) \/ InChain(n, l) \/ InWire(n, 1)
      BY <1>1, <1>2, <1>5, <3>1, <3>2 DEF WatcherInv, Announced, WireAnnounced
    <3>4. InWire(n, 1) => n = c
      BY <1>2 DEF InWire
    <3> QED BY <1>16, <1>17, <1>18, <2>2, <3>3, <3>4
  <2> QED BY <2>1, <2>2
<1>22. callback => GapIsAnnounced'
  BY <1>2, <1>7 DEF WatcherInv, Announced, GapIsAnnounced
<1> QED BY <1>2, <1>7, <1>10, <1>11, <1>12, <1>13, <1>15, <1>19, <1>20, <1>21, <1>22 DEF WatcherInv, Announced

\* The loop takes the end of its stream.
LEMMA TakeEndStep ==
  ASSUME WatcherInv, TakeEnd
  PROVE  WatcherInv'
<1>1. UNCHANGED <<opened, chain, historyVars, emitted>> /\ chain \in Seq(Task)
  BY DEF TakeEnd, kernelVars, WatcherInv, Sequences
<1>2. CASE Finish(TRUE)
  BY <1>1, <1>2, FinishStep
<1>3. CASE Disconnect /\ UNCHANGED consumerVars
  <2>1. /\ UNCHANGED <<buffered, waiting, stopped, callback>>
        /\ controller' = 0 /\ attached' = FALSE /\ wire' = <<>> /\ acknowledged' = FALSE
    BY <1>3 DEF Disconnect, Cancel, consumerVars
  <2>2. WireInOrder' /\ wire' \in Seq(OnWire)
    BY <1>1, <2>1, StillInOrder DEF historyVars
  <2>3. WireAnnounced' /\ EmissionsAnnounced' /\ StreamState'
    BY <2>1 DEF WireAnnounced, EmissionsAnnounced, StreamState
  <2> QED BY <1>1, <2>1, <2>2, <2>3, WireStep DEF WatcherInv, Sequences
<1> QED BY <1>2, <1>3 DEF TakeEnd

-----------------------------------------------------------------------------
(* The deliveries. *)

\* The first delivery leaves the chain.
LEMMA ChainDrops ==
  ASSUME WatcherInv, NEW i, Delivered(i), NEW l, l = Len(chain)
  PROVE  /\ i = 1 /\ l \in Nat \ {0} /\ DOMAIN chain = 1..l /\ chain[1] \in Task
         /\ chain' \in Seq(Task) /\ DOMAIN chain' = 1..(l - 1) /\ Len(chain') = l - 1
         /\ \A j \in 1..(l - 1) : chain'[j] = chain[j + 1]
         /\ \A n : \A j \in 1..(l - 1) : InChain(n, j + 1) => InChain(n, 1) \/ InChain(n, j)'
<1>1. chain \in Seq(Task) /\ i = 1 /\ i \in DOMAIN chain
  BY DEF WatcherInv, Sequences, Delivered, Due, FirstOfAll
<1>2. l \in Nat \ {0} /\ DOMAIN chain = 1..l /\ chain[1] \in Task
  BY <1>1
<1>3. chain' = Tail(chain)
  <2>1. SubSeq(chain, 1, 0) = <<>> /\ SubSeq(chain, 2, l) = Tail(chain) /\ Tail(chain) \in Seq(Task)
    BY <1>1, <1>2
  <2>2. chain' = SubSeq(chain, 1, 0) \o SubSeq(chain, 2, l)
    BY <1>1, <1>2 DEF Delivered, RemoveAt
  <2> QED BY <2>1, <2>2
<1>4. /\ chain' \in Seq(Task) /\ DOMAIN chain' = 1..(l - 1) /\ Len(chain') = l - 1
      /\ \A j \in 1..(l - 1) : chain'[j] = chain[j + 1]
  BY <1>1, <1>2, <1>3
<1>5. ASSUME NEW n, NEW j \in 1..(l - 1), InChain(n, j + 1), ~InChain(n, 1) PROVE InChain(n, j)'
  <2>1. PICK k \in 1..(j + 1) : chain[k].kind = "callback" \/ (chain[k].kind = "change" /\ chain[k].change = n)
    BY <1>5 DEF InChain
  <2>2. k # 1
    BY <1>5, <2>1 DEF InChain
  <2>3. k - 1 \in 1..j /\ k - 1 \in 1..(l - 1) /\ (k - 1) + 1 = k
    BY <1>2, <2>1, <2>2
  <2>4. chain'[k - 1] = chain[k]
    BY <1>4, <2>3
  <2> QED BY <2>1, <2>3, <2>4 DEF InChain
<1> QED BY <1>1, <1>2, <1>4, <1>5

\* A change reaches the consumer, or the buffer.
LEMMA GotGrows ==
  ASSUME WatcherInv, Delivered(1), chain[1].kind = "change", ~stopped,
         buffered' \in Seq(Task), consumed' \in Seq(Task), Len(buffered') <= BufferLimit,
         Len(Got') = Len(Got) + 1, Got'[Len(Got) + 1] = chain[1], \A i \in 1..Len(Got) : Got'[i] = Got[i],
         NobodyWaitsInVain',
         UNCHANGED <<controller, opened, attached, wire, acknowledged, callback, stopped, received, informedTo, emitted>>
  PROVE  WatcherInv'
<1>1. PICK l \in Nat, g \in Nat, r \in Nat : l = Len(chain) /\ g = Len(Got) /\ r = Len(received)
  <2>1. Len(chain) \in Nat /\ Len(received) \in Nat /\ Len(Got) \in Nat
    BY ItemsAre, GotIs DEF WatcherInv
  <2> QED BY <2>1
<1>2. /\ l \in Nat \ {0} /\ DOMAIN chain = 1..l /\ chain[1] \in Task
      /\ chain' \in Seq(Task) /\ DOMAIN chain' = 1..(l - 1) /\ Len(chain') = l - 1
      /\ \A j \in 1..(l - 1) : chain'[j] = chain[j + 1]
      /\ \A n : \A j \in 1..(l - 1) : InChain(n, j + 1) => InChain(n, 1) \/ InChain(n, j)'
  BY <1>1, ChainDrops
<1>3. Sequences'
  BY <1>2 DEF WatcherInv, Sequences
<1>4. /\ DOMAIN Got = 1..g /\ DOMAIN Got' = 1..(g + 1) /\ Len(Got') = g + 1 /\ Got'[g + 1] = chain[1]
      /\ \A i \in 1..g : Got'[i] = Got[i]
  <2>1. Got \in Seq(Task) /\ Got' \in Seq(Task)
    BY <1>3, GotIs DEF WatcherInv, Got, Sequences
  <2> QED BY <1>1, <2>1
<1>5. DOMAIN received = 1..r /\ \A k \in 1..r : received[k] \in Nat
  BY <1>1, ItemsAre DEF WatcherInv
<1>6. /\ Rising(received) /\ g <= r /\ \A i \in 1..g : Got[i].change = received[i]
      /\ BeingConverted = NotGot /\ \A i, j \in Converting : i < j => chain[i].change < chain[j].change
  BY <1>1, <1>4 DEF WatcherInv, EveryChangeInOrder
<1>7. \A i \in Converting : chain[i].change \in Nat /\ i \in 1..l
  BY <1>2, ItemsAre DEF WatcherInv, Converting
<1>8. 1 \in Converting
  BY <1>2 DEF Converting
<1>9. g + 1 \in 1..r /\ received[g + 1] = chain[1].change
  <2>1. chain[1].change \in NotGot
    BY <1>6, <1>8 DEF BeingConverted
  <2>2. PICK k \in (g + 1)..r : received[k] = chain[1].change
    BY <1>1, <2>1 DEF NotGot
  <2>3. g + 1 \in (g + 1)..r /\ g + 1 \in 1..r /\ k \in 1..r
    BY <2>2
  <2>4. received[g + 1] \in NotGot
    BY <1>1, <2>3 DEF NotGot
  <2>5. PICK i \in Converting : received[g + 1] = chain[i].change
    BY <1>6, <2>4 DEF BeingConverted
  <2>6. CASE i = 1
    BY <2>3, <2>5, <2>6
  <2>7. CASE i # 1
    <3>1. chain[1].change < chain[i].change
      BY <1>6, <1>7, <1>8, <2>7
    <3>2. k = g + 1 \/ received[g + 1] < received[k]
      <4>1. k = g + 1 \/ g + 1 < k
        BY <2>2
      <4> QED BY <1>5, <1>6, <2>3, <4>1 DEF Rising
    <3> QED BY <1>5, <1>7, <1>8, <2>2, <2>3, <2>5, <3>1, <3>2
  <2> QED BY <2>6, <2>7
<1>10. ASSUME NEW i \in Converting' PROVE i \in 1..(l - 1) /\ i + 1 \in Converting /\ chain'[i] = chain[i + 1]
  BY <1>2, <1>10 DEF Converting
<1>11. ASSUME NEW i \in Converting, i # 1 PROVE i - 1 \in Converting' /\ chain'[i - 1] = chain[i]
  <2>1. i - 1 \in 1..(l - 1) /\ (i - 1) + 1 = i
    BY <1>7, <1>11
  <2> QED BY <1>2, <1>11, <2>1 DEF Converting
<1>12. BeingConverted' = NotGot'
  <2>1. NotGot' = {received[k] : k \in (g + 2)..r} /\ NotGot = {received[k] : k \in (g + 1)..r}
    <3>1. (g + 1) + 1 = g + 2
      OBVIOUS
    <3> QED BY <1>1, <1>4, <3>1 DEF NotGot
  <2>2. ASSUME NEW x \in BeingConverted' PROVE x \in NotGot'
    <3>1. PICK i \in Converting' : x = chain'[i].change
      BY <2>2 DEF BeingConverted
    <3>2. i \in Nat /\ i + 1 \in Converting /\ x = chain[i + 1].change /\ 1 < i + 1
      BY <1>10, <3>1
    <3>3. chain[1].change < x /\ x \in NotGot
      BY <1>6, <1>8, <3>2 DEF BeingConverted
    <3>4. PICK k \in (g + 1)..r : x = received[k]
      BY <2>1, <3>3
    <3>5. k # g + 1
      BY <1>7, <1>8, <1>9, <3>3, <3>4
    <3>6. k \in (g + 2)..r
      BY <3>4, <3>5
    <3> QED BY <2>1, <3>4, <3>6
  <2>3. ASSUME NEW x \in NotGot' PROVE x \in BeingConverted'
    <3>1. PICK k \in (g + 2)..r : x = received[k]
      BY <2>1, <2>3
    <3>2. k \in (g + 1)..r /\ k \in 1..r /\ g + 1 < k
      BY <3>1
    <3>3. received[g + 1] < received[k]
      BY <1>5, <1>6, <1>9, <3>2 DEF Rising
    <3>4. PICK i \in Converting : x = chain[i].change
      <4>1. x \in NotGot
        BY <2>1, <3>1, <3>2
      <4> QED BY <1>6, <4>1 DEF BeingConverted
    <3>5. i # 1
      BY <1>5, <1>9, <3>1, <3>2, <3>3, <3>4
    <3>6. i - 1 \in Converting' /\ x = chain'[i - 1].change
      BY <1>11, <3>4, <3>5
    <3> QED BY <3>6 DEF BeingConverted
  <2> QED BY <2>2, <2>3
<1>13. \A i, j \in Converting' : i < j => chain'[i].change < chain'[j].change
  <2> SUFFICES ASSUME NEW i \in Converting', NEW j \in Converting', i < j
               PROVE  chain'[i].change < chain'[j].change
    OBVIOUS
  <2>1. i + 1 < j + 1
    BY <1>10
  <2> QED BY <1>6, <1>10, <2>1
<1>14. EveryChangeInOrder'
  <2>1. \A i \in 1..(g + 1) : Got'[i].change = received[i]
    <3>1. \A i \in 1..(g + 1) : i \in 1..g \/ i = g + 1
      OBVIOUS
    <3> QED BY <1>4, <1>6, <1>9, <3>1
  <2>2. Len(Got') <= Len(received') /\ \A i \in DOMAIN Got' : Got'[i].change = received'[i]
    BY <1>1, <1>4, <1>9, <2>1
  <2>3. Rising(received)' /\ Len(buffered)' <= BufferLimit
    BY <1>6 DEF Rising
  <2> QED BY <1>12, <1>13, <2>2, <2>3 DEF EveryChangeInOrder
<1>15. \A n : WithConsumer(n) => WithConsumer(n)'
  <2>1. \A i \in 1..g : i \in 1..(g + 1)
    OBVIOUS
  <2> QED BY <1>4, <2>1 DEF WithConsumer
<1>16. \A n : InChain(n, 1) => n = chain[1].change /\ WithConsumer(n)'
  <2>1. g + 1 \in 1..(g + 1)
    OBVIOUS
  <2> QED BY <1>4, <2>1 DEF InChain, WithConsumer
<1>17. \A n : InChain(n, l) => WithConsumer(n)' \/ InChain(n, l - 1)'
  <2>1. CASE l = 1
    BY <1>16, <2>1
  <2>2. CASE l # 1
    <3>1. l - 1 \in 1..(l - 1) /\ (l - 1) + 1 = l
      BY <1>2, <2>2
    <3> QED BY <1>2, <1>16, <3>1
  <2> QED BY <2>1, <2>2
<1>18. \A n, k : InWire(n, k)' <=> InWire(n, k)
  BY DEF InWire
<1>19. callback => WireAnnounced' /\ EmissionsAnnounced'
  BY <1>1, <1>2, <1>15, <1>17, <1>18 DEF WatcherInv, Announced, WireAnnounced, EmissionsAnnounced
<1>20. callback => ChainAnnounced'
  <2> SUFFICES ASSUME callback, NEW i \in 1..(l - 1), chain'[i].kind = "change", ~chain'[i].ahead,
                      NEW n \in 1..chain'[i].change
               PROVE  WithConsumer(n)' \/ InChain(n, i)'
    BY <1>2 DEF ChainAnnounced
  <2>1. i + 1 \in 1..l /\ chain'[i] = chain[i + 1]
    BY <1>2
  <2>2. WithConsumer(n) \/ InChain(n, i + 1)
    BY <1>2, <2>1 DEF WatcherInv, Announced, ChainAnnounced
  <2> QED BY <1>2, <1>15, <1>16, <2>2
<1>21. callback => GapIsAnnounced'
  <2> SUFFICES ASSUME callback, NEW i \in 1..(g + 1), ~Got'[i].ahead, NEW n \in 1..Got'[i].change
               PROVE  n <= informedTo \/ \E j \in 1..i : Got'[j].change = n
    BY <1>4 DEF GapIsAnnounced
  <2>1. CASE i \in 1..g
    <3>1. n <= informedTo \/ \E j \in 1..i : Got[j].change = n
      BY <1>4, <2>1 DEF WatcherInv, Announced, GapIsAnnounced
    <3>2. \A j \in 1..i : j \in 1..g
      BY <2>1
    <3> QED BY <1>4, <3>1, <3>2
  <2>2. CASE i = g + 1
    <3>1. ~chain[1].ahead /\ n \in 1..chain[1].change /\ 1 \in 1..l
      BY <1>2, <1>4, <2>2
    <3>2. WithConsumer(n) \/ InChain(n, 1)
      BY <1>2, <3>1 DEF WatcherInv, Announced, ChainAnnounced
    <3>3. WithConsumer(n)'
      BY <1>15, <1>16, <3>2
    <3> QED BY <1>4, <2>2, <3>3 DEF WithConsumer
  <2>3. i \in 1..g \/ i = g + 1
    OBVIOUS
  <2> QED BY <2>1, <2>2, <2>3
<1>22. WireInOrder' /\ Rising(received)' /\ StreamState'
  BY DEF WatcherInv, WireInOrder, Rising, StreamState, EndOnWire
<1> QED BY <1>3, <1>14, <1>19, <1>20, <1>21, <1>22 DEF WatcherInv, Announced

\* A conversion ends: its change reaches the consumer, the buffer, or stops the watcher.
LEMMA ConvertedStep ==
  ASSUME WatcherInv, NEW i, Converted(i)
  PROVE  WatcherInv'
<1>1. PICK l \in Nat, g \in Nat, b \in Nat, c \in Nat :
        l = Len(chain) /\ g = Len(Got) /\ b = Len(buffered) /\ c = Len(consumed)
  <2>1. Len(chain) \in Nat /\ Len(Got) \in Nat /\ Len(buffered) \in Nat /\ Len(consumed) \in Nat
    BY ItemsAre, GotIs DEF WatcherInv, Sequences
  <2> QED BY <2>1
<1>2. i = 1 /\ Delivered(1) /\ chain[1].kind = "change" /\ chain[1] \in Task /\ chain' \in Seq(Task)
  BY <1>1, ChainDrops DEF Converted
<1>3. UNCHANGED <<received, informedTo, emitted>>
  BY DEF Converted, kernelVars
<1>4. /\ g = c + b /\ buffered \in Seq(Task) /\ consumed \in Seq(Task)
      /\ \A j \in 1..g : Got[j] = IF j <= c THEN consumed[j] ELSE buffered[j - c]
  <2>1. buffered \in Seq(Task) /\ consumed \in Seq(Task)
    BY DEF WatcherInv, Sequences
  <2>2. g = c + b /\ DOMAIN Got = 1..g
    BY <1>1, GotIs DEF WatcherInv
  <2> QED BY <1>1, <2>1, <2>2, GotIs DEF WatcherInv
<1>5. CASE stopped /\ UNCHANGED <<streamVars, consumerVars, consumed>>
  <2>1. UNCHANGED <<controller, opened, attached, wire, acknowledged, callback, buffered, waiting, stopped, consumed>>
    BY <1>5 DEF streamVars, consumerVars
  <2>2. Sequences'
    BY <1>2, <1>3, <2>1 DEF WatcherInv, Sequences
  <2>3. stopped' /\ ~callback' /\ controller' = 0
    BY <1>5, <2>1 DEF WatcherInv
  <2>4. WireInOrder' /\ Rising(received)' /\ StreamState' /\ NobodyWaitsInVain'
    BY <1>3, <2>1 DEF WatcherInv, WireInOrder, Rising, StreamState, EndOnWire, NobodyWaitsInVain
  <2> QED BY <2>2, <2>3, <2>4 DEF WatcherInv, EveryChangeInOrder, Announced
<1>6. CASE ~stopped /\ waiting /\ consumed' = Append(consumed, chain[1]) /\ waiting' = FALSE
           /\ UNCHANGED <<controller, opened, attached, wire, acknowledged, callback, buffered, stopped>>
  <2>1. buffered = <<>> /\ b = 0 /\ g = c
    BY <1>1, <1>4, <1>6 DEF WatcherInv, NobodyWaitsInVain
  <2>2. consumed' \in Seq(Task) /\ Len(consumed') = c + 1 /\ consumed'[c + 1] = chain[1] /\ \A j \in 1..c : consumed'[j] = consumed[j]
    BY <1>1, <1>2, <1>4, <1>6
  <2>3. Got' = consumed'
    BY <1>6, <2>1, <2>2 DEF Got
  <2>4. \A j \in 1..g : Got'[j] = Got[j]
    BY <1>4, <2>1, <2>2, <2>3
  <2>5. Len(buffered') <= BufferLimit
    BY <1>6 DEF WatcherInv, EveryChangeInOrder
  <2>6. NobodyWaitsInVain'
    BY <1>6 DEF NobodyWaitsInVain
  <2> QED BY <1>1, <1>2, <1>3, <1>4, <1>6, <2>1, <2>2, <2>3, <2>4, <2>5, <2>6, GotGrows
<1>7. CASE ~stopped /\ ~waiting /\ Len(buffered) < BufferLimit /\ buffered' = Append(buffered, chain[1])
           /\ UNCHANGED <<controller, opened, attached, wire, acknowledged, callback, waiting, stopped, consumed>>
  <2>1. buffered' \in Seq(Task) /\ Len(buffered') = b + 1 /\ buffered'[b + 1] = chain[1] /\ \A j \in 1..b : buffered'[j] = buffered[j]
    BY <1>1, <1>2, <1>4, <1>7
  <2>2. Got' = consumed \o buffered' /\ Len(Got') = c + (b + 1)
        /\ \A j \in 1..(c + b + 1) : Got'[j] = IF j <= c THEN consumed[j] ELSE buffered'[j - c]
    BY <1>1, <1>4, <1>7, <2>1 DEF Got
  <2>3. Got'[g + 1] = chain[1]
    <3>1. g + 1 \in 1..(c + b + 1) /\ ~(g + 1 <= c) /\ g + 1 - c = b + 1
      BY <1>4
    <3> QED BY <2>1, <2>2, <3>1, SMTT(30)
  <2>4. ASSUME NEW j \in 1..g PROVE Got'[j] = Got[j]
    <3>1. j \in 1..(c + b + 1) /\ (~(j <= c) => j - c \in 1..b)
      BY <1>4
    <3> QED BY <1>4, <2>1, <2>2, <3>1
  <2>5. Len(buffered') <= BufferLimit
    BY <1>1, <1>7, <2>1, WatcherAssumption
  <2>6. NobodyWaitsInVain'
    BY <1>7 DEF NobodyWaitsInVain
  <2> QED BY <1>1, <1>2, <1>3, <1>4, <1>7, <2>1, <2>2, <2>3, <2>4, <2>5, <2>6, GotGrows
<1>8. CASE Finish(FALSE) /\ UNCHANGED <<opened, consumed>>
  BY <1>2, <1>3, <1>8, FinishStep DEF historyVars
<1>9. \/ stopped /\ UNCHANGED <<streamVars, consumerVars, consumed>>
      \/ ~stopped /\ waiting /\ consumed' = Append(consumed, chain[1]) /\ waiting' = FALSE
           /\ UNCHANGED <<controller, opened, attached, wire, acknowledged, callback, buffered, stopped>>
      \/ ~stopped /\ ~waiting /\ Len(buffered) < BufferLimit /\ buffered' = Append(buffered, chain[1])
           /\ UNCHANGED <<controller, opened, attached, wire, acknowledged, callback, waiting, stopped, consumed>>
      \/ Finish(FALSE) /\ UNCHANGED <<opened, consumed>>
  BY <1>2 DEF Converted
<1> QED BY <1>5, <1>6, <1>7, <1>8, <1>9

\* A callback ends: the consumer has queried again.
LEMMA NotifiedStep ==
  ASSUME WatcherInv, NEW i, Notified(i)
  PROVE  WatcherInv'
<1>1. PICK l \in Nat : l = Len(chain)
  BY ItemsAre DEF WatcherInv
<1>2. /\ i = 1 /\ chain[1].kind # "change"
      /\ l \in Nat \ {0} /\ DOMAIN chain = 1..l /\ chain[1] \in Task
      /\ chain' \in Seq(Task) /\ DOMAIN chain' = 1..(l - 1) /\ Len(chain') = l - 1
      /\ \A j \in 1..(l - 1) : chain'[j] = chain[j + 1]
      /\ \A n : \A j \in 1..(l - 1) : InChain(n, j + 1) => InChain(n, 1) \/ InChain(n, j)'
  BY <1>1, ChainDrops DEF Notified
<1>3. /\ UNCHANGED <<controller, opened, attached, wire, acknowledged, callback, buffered, waiting, stopped,
           received, consumed, emitted>>
      /\ informedTo' = IF chain[1].kind = "callback" /\ callback THEN emitted ELSE informedTo
  BY <1>2 DEF Notified, consumerVars, kernelVars
<1>4. Sequences' /\ informedTo <= informedTo' /\ informedTo \in Nat /\ emitted \in Nat
  BY <1>2, <1>3 DEF WatcherInv, Sequences
<1>5. Got' = Got
  BY <1>3 DEF Got
<1>6. ASSUME NEW j \in Converting' PROVE j \in 1..(l - 1) /\ j + 1 \in Converting /\ chain'[j] = chain[j + 1]
  BY <1>2, <1>6 DEF Converting
<1>7. ASSUME NEW j \in Converting PROVE j - 1 \in Converting' /\ chain'[j - 1] = chain[j]
  <2>1. j # 1 /\ j \in 1..l
    BY <1>2, <1>7 DEF Converting
  <2>2. j - 1 \in 1..(l - 1) /\ (j - 1) + 1 = j
    BY <2>1
  <2> QED BY <1>2, <1>7, <2>2 DEF Converting
<1>8. BeingConverted' = BeingConverted /\ NotGot' = NotGot
  <2>1. BeingConverted' \subseteq BeingConverted
    BY <1>6 DEF BeingConverted
  <2>2. BeingConverted \subseteq BeingConverted'
    BY <1>7 DEF BeingConverted
  <2> QED BY <1>3, <1>5, <2>1, <2>2 DEF NotGot
<1>9. Rising(received)' /\ NobodyWaitsInVain' /\ WireInOrder' /\ StreamState'
  BY <1>3 DEF WatcherInv, Rising, NobodyWaitsInVain, WireInOrder, StreamState, EndOnWire
<1>10. EveryChangeInOrder'
  <2>1. ~stopped => \A j, k \in Converting' : j < k => chain'[j].change < chain'[k].change
    <3> SUFFICES ASSUME ~stopped, NEW j \in Converting', NEW k \in Converting', j < k
                 PROVE  chain'[j].change < chain'[k].change
      OBVIOUS
    <3>1. j + 1 < k + 1
      BY <1>6
    <3> QED BY <1>6, <3>1 DEF WatcherInv, EveryChangeInOrder
  <2> QED BY <1>3, <1>5, <1>8, <1>9, <2>1 DEF WatcherInv, EveryChangeInOrder
<1>11. \A n \in Nat : WithConsumer(n) => WithConsumer(n)'
  BY <1>3, <1>4, <1>5 DEF WithConsumer
<1>12. callback => \A n \in Nat : InChain(n, 1) /\ n <= emitted => WithConsumer(n)'
  BY <1>2, <1>3 DEF InChain, WithConsumer
<1>13. callback => \A n \in Nat : InChain(n, l) /\ n <= emitted => WithConsumer(n)' \/ InChain(n, l - 1)'
  <2>1. CASE l = 1
    BY <1>12, <2>1
  <2>2. CASE l # 1
    <3>1. l - 1 \in 1..(l - 1) /\ (l - 1) + 1 = l
      BY <1>2, <2>2
    <3> QED BY <1>2, <1>12, <3>1
  <2> QED BY <2>1, <2>2
<1>14. \A n, k : InWire(n, k)' <=> InWire(n, k)
  BY <1>3 DEF InWire
<1>15. callback => EmissionsAnnounced'
  <2> SUFFICES ASSUME callback, attached, acknowledged, NEW n \in 1..emitted
               PROVE  WithConsumer(n)' \/ InChain(n, l - 1)' \/ InWire(n, Len(wire))'
    BY <1>2, <1>3 DEF EmissionsAnnounced
  <2>1. WithConsumer(n) \/ InChain(n, l) \/ InWire(n, Len(wire))
    BY <1>1 DEF WatcherInv, Announced, EmissionsAnnounced
  <2> QED BY <1>3, <1>4, <1>11, <1>13, <1>14, <2>1
<1>16. callback => WireAnnounced'
  <2> SUFFICES ASSUME callback, acknowledged, NEW j \in DOMAIN wire, wire[j].kind = "change", NEW n \in 1..wire[j].change
               PROVE  WithConsumer(n)' \/ InChain(n, l - 1)' \/ InWire(n, j)'
    BY <1>2, <1>3 DEF WireAnnounced
  <2>1. WithConsumer(n) \/ InChain(n, l) \/ InWire(n, j)
    BY <1>1 DEF WatcherInv, Announced, WireAnnounced
  <2>2. wire[j].change <= emitted /\ wire[j].change \in Nat
    BY ItemsAre DEF WatcherInv, WireInOrder
  <2>3. n \in Nat /\ n <= emitted
    BY <1>4, <2>2
  <2> QED BY <1>11, <1>13, <1>14, <2>1, <2>3
<1>17. callback => ChainAnnounced'
  <2> SUFFICES ASSUME callback, NEW j \in 1..(l - 1), chain'[j].kind = "change", ~chain'[j].ahead,
                      NEW n \in 1..chain'[j].change
               PROVE  WithConsumer(n)' \/ InChain(n, j)'
    BY <1>2 DEF ChainAnnounced
  <2>1. j + 1 \in 1..l /\ chain'[j] = chain[j + 1]
    BY <1>2
  <2>2. WithConsumer(n) \/ InChain(n, j + 1)
    BY <1>2, <2>1 DEF WatcherInv, Announced, ChainAnnounced
  <2>3. j + 1 \in Converting /\ ~stopped
    BY <1>2, <2>1 DEF Converting, WatcherInv
  <2>4. chain[j + 1].change \in NotGot
    BY <2>3 DEF WatcherInv, EveryChangeInOrder, BeingConverted
  <2>5. PICK k \in (Len(Got) + 1)..Len(received) : chain[j + 1].change = received[k]
    BY <2>4 DEF NotGot
  <2>6. k \in DOMAIN received
    BY <2>5, GotIs, ItemsAre DEF WatcherInv
  <2>7. received[k] <= emitted /\ received[k] \in Nat
    BY <2>6, ItemsAre DEF WatcherInv, WireInOrder
  <2>8. n \in Nat /\ n <= emitted
    BY <1>4, <2>1, <2>5, <2>7
  <2> QED BY <1>2, <1>11, <1>12, <2>2, <2>8
<1>18. callback => GapIsAnnounced'
  BY <1>3, <1>4, <1>5 DEF WatcherInv, Announced, GapIsAnnounced
<1> QED BY <1>3, <1>4, <1>9, <1>10, <1>15, <1>16, <1>17, <1>18 DEF WatcherInv, Announced

-----------------------------------------------------------------------------
(* The steps of the consumer and of the connection. *)

\* The consumer takes a change from the buffer.
LEMMA TakeBufferedStep ==
  ASSUME WatcherInv, TakeBuffered
  PROVE  WatcherInv'
<1>1. PICK b \in Nat, c \in Nat : b = Len(buffered) /\ c = Len(consumed)
  BY DEF WatcherInv, Sequences
<1>2. /\ buffered # <<>> /\ ~waiting /\ consumed' = Append(consumed, Head(buffered)) /\ buffered' = Tail(buffered)
      /\ UNCHANGED <<controller, opened, attached, wire, acknowledged, chain, callback, waiting, stopped,
           received, informedTo, emitted>>
  BY DEF TakeBuffered, kernelVars
<1>3. buffered \in Seq(Task) /\ consumed \in Seq(Task)
  BY DEF WatcherInv, Sequences
<1>4. /\ buffered' \in Seq(Task) /\ Len(buffered') = b - 1 /\ b > 0
      /\ \A j \in 1..(b - 1) : buffered'[j] = buffered[j + 1]
      /\ consumed' \in Seq(Task) /\ Len(consumed') = c + 1 /\ consumed'[c + 1] = buffered[1]
      /\ \A j \in 1..c : consumed'[j] = consumed[j]
  BY <1>1, <1>2, <1>3
<1>5. Sequences'
  BY <1>2, <1>4 DEF WatcherInv, Sequences
<1>6. Got' = Got
  <2>1. Got \in Seq(Task) /\ Got' \in Seq(Task) /\ Len(Got) = c + b /\ Len(Got') = (c + 1) + (b - 1)
    <3>1. Got \in Seq(Task) /\ Len(Got) = c + b
      BY <1>1, <1>3, ConcatProperties DEF Got
    <3>2. Got' \in Seq(Task) /\ Len(Got') = (c + 1) + (b - 1)
      <4>1. Got' = consumed' \o buffered' /\ consumed' \in Seq(Task) /\ buffered' \in Seq(Task)
        BY <1>4 DEF Got
      <4>2. Got' \in Seq(Task) /\ Len(Got') = Len(consumed') + Len(buffered')
        BY <4>1, ConcatProperties
      <4> QED BY <1>4, <4>2
    <3> QED BY <3>1, <3>2
  <2>2. /\ \A j \in 1..(c + b) : Got[j] = IF j <= c THEN consumed[j] ELSE buffered[j - c]
        /\ \A j \in 1..(c + b) : Got'[j] = IF j <= c + 1 THEN consumed'[j] ELSE buffered'[j - (c + 1)]
    BY <1>1, <1>3, <1>4 DEF Got
  <2>3. ASSUME NEW j \in 1..(c + b) PROVE Got'[j] = Got[j]
    <3>1. CASE j <= c
      BY <1>4, <2>2, <3>1
    <3>2. CASE j = c + 1
      <4>1. ~(j <= c) /\ j - c = 1
        BY <3>2
      <4> QED BY <1>4, <2>2, <3>2, <4>1
    <3>3. CASE j > c + 1
      <4>1. ~(j <= c) /\ ~(j <= c + 1) /\ j - (c + 1) \in 1..(b - 1) /\ (j - (c + 1)) + 1 = j - c
        BY <3>3
      <4> QED BY <1>4, <2>2, <4>1
    <3> QED BY <3>1, <3>2, <3>3
  <2>4. Len(Got) = Len(Got') /\ Len(Got) = c + b
    BY <2>1
  <2> QED BY <2>1, <2>3, <2>4, SeqEqual
<1>7. Converting' = Converting /\ BeingConverted' = BeingConverted /\ NotGot' = NotGot
  BY <1>2, <1>6 DEF Converting, BeingConverted, NotGot
<1>8. Len(buffered') <= Len(buffered) /\ Len(buffered') \in Nat /\ Len(buffered) \in Nat
  BY <1>1, <1>4
<1>9. Rising(received)' /\ NobodyWaitsInVain' /\ WireInOrder' /\ StreamState'
  BY <1>2 DEF WatcherInv, Rising, NobodyWaitsInVain, WireInOrder, StreamState, EndOnWire
<1>10. EveryChangeInOrder'
  <2>1. ~stopped => Len(buffered') <= BufferLimit
    BY <1>8, WatcherAssumption DEF WatcherInv, EveryChangeInOrder
  <2> QED BY <1>2, <1>6, <1>7, <1>9, <2>1 DEF WatcherInv, EveryChangeInOrder
<1>11. Announced'
  BY <1>2, <1>6 DEF WatcherInv, Announced, GapIsAnnounced, ChainAnnounced, WireAnnounced, EmissionsAnnounced,
       WithConsumer, InChain, InWire
<1> QED BY <1>2, <1>5, <1>9, <1>10, <1>11 DEF WatcherInv

\* A step that leaves the wire and the deliveries alone.
LEMMA ConnectionStep ==
  ASSUME WatcherInv, RestartTimer \/ Connected \/ Disconnected \/ Unregister
  PROVE  WatcherInv'
<1>1. UNCHANGED <<chain, buffered, waiting, stopped, historyVars, emitted>> /\ (callback' => callback)
  BY DEF RestartTimer, Connected, Disconnected, Unregister, consumerVars, kernelVars
<1>2. CASE Disconnected /\ Disconnect
  <2>1. controller' = 0 /\ attached' = FALSE /\ wire' = <<>> /\ acknowledged' = FALSE
    BY <1>2 DEF Disconnect, Cancel
  <2>2. WireInOrder' /\ wire' \in Seq(OnWire)
    BY <1>1, <2>1, StillInOrder DEF historyVars
  <2>3. WireAnnounced' /\ EmissionsAnnounced' /\ StreamState'
    BY <2>1 DEF WireAnnounced, EmissionsAnnounced, StreamState
  <2>4. opened' = opened
    BY <1>2 DEF Disconnected
  <2> QED BY <1>1, <2>1, <2>2, <2>3, <2>4, WireStep DEF WatcherInv, Sequences
<1>3. CASE UNCHANGED <<attached, wire, acknowledged>> /\ (Start \/ UNCHANGED <<opened, controller>>)
  <2>1. WireInOrder' /\ wire' \in Seq(OnWire)
    BY <1>1, <1>3, StillInOrder DEF historyVars
  <2>2. callback => WireAnnounced' /\ EmissionsAnnounced'
    BY <1>1, <1>3, StillAnnounced
  <2>3. /\ opened' \in Nat /\ controller' \in Nat /\ (stopped => controller' = 0)
        /\ (~stopped /\ controller' = 0 => controller = 0)
        /\ (controller' # 0 => controller # 0 \/ (~stopped /\ controller = 0))
    BY <1>3 DEF Start, WatcherInv, Sequences
  <2>4. StreamState'
    BY <1>1, <1>3, <2>3 DEF WatcherInv, StreamState, EndOnWire
  <2> QED BY <1>1, <1>3, <2>1, <2>2, <2>3, <2>4, WireStep DEF WatcherInv, Sequences
<1> QED BY <1>2, <1>3 DEF RestartTimer, Connected, Disconnected, Unregister, streamVars

LEMMA WatcherStep ==
  ASSUME WatcherInv, [WatcherNext]_watcherVars
  PROVE  WatcherInv'
<1>1. CASE Emit \/ \E how \in {"ended", "lost", "refused"} : StreamLost(how)
  BY <1>1, EmitStep, KernelSteps
<1>2. CASE WatcherProgress
  BY <1>2, KernelSteps, FirstMarkerStep, LaterMarkerStep, TakeChangeStep, TakeEndStep, ConvertedStep, NotifiedStep, ConnectionStep
     DEF WatcherProgress
<1>3. ASSUME NEW i \in DOMAIN chain, DeliveryFails(i) PROVE WatcherInv'
  <2>1. chain' \in Seq(Task)
    BY <1>3, ChainDrops DEF DeliveryFails
  <2> QED BY <1>3, <2>1, FinishStep DEF DeliveryFails
<1>4. CASE TakeBuffered
  BY <1>4, TakeBufferedStep
<1>5. CASE Wait
  <2>1. /\ UNCHANGED <<controller, opened, attached, wire, acknowledged, chain, callback, buffered, stopped,
             received, consumed, informedTo, emitted>>
        /\ buffered = <<>> /\ ~stopped
    BY <1>5 DEF Wait, streamVars, historyVars, kernelVars
  <2>2. Got' = Got
    BY <2>1 DEF Got
  <2>3. Converting' = Converting /\ BeingConverted' = BeingConverted /\ NotGot' = NotGot
    BY <2>1, <2>2 DEF Converting, BeingConverted, NotGot
  <2>4. EveryChangeInOrder'
    BY <2>1, <2>2, <2>3 DEF WatcherInv, EveryChangeInOrder, Rising
  <2>5. Announced'
    BY <2>1, <2>2 DEF WatcherInv, Announced, GapIsAnnounced, ChainAnnounced, WireAnnounced, EmissionsAnnounced,
         WithConsumer, InChain, InWire
  <2>6. Sequences' /\ WireInOrder' /\ Rising(received)' /\ StreamState' /\ NobodyWaitsInVain'
    BY <2>1 DEF WatcherInv, Sequences, WireInOrder, Rising, StreamState, EndOnWire, NobodyWaitsInVain
  <2> QED BY <2>1, <2>4, <2>5, <2>6 DEF WatcherInv
<1>6. CASE Dispose \/ ConnectionFailed
  BY <1>6, FinishStep DEF Dispose, ConnectionFailed, WatcherInv, Sequences, kernelVars
<1>7. CASE Unregister \/ Disconnected \/ Connected
  BY <1>7, ConnectionStep
<1>8. CASE UNCHANGED watcherVars
  <2>1. UNCHANGED <<controller, opened, attached, wire, acknowledged, chain, callback, buffered, waiting, stopped,
             received, consumed, informedTo, emitted>>
    BY <1>8 DEF watcherVars, streamVars, consumerVars, historyVars, kernelVars
  <2>2. Got' = Got
    BY <2>1 DEF Got
  <2>3. Converting' = Converting /\ BeingConverted' = BeingConverted /\ NotGot' = NotGot
    BY <2>1, <2>2 DEF Converting, BeingConverted, NotGot
  <2>4. EveryChangeInOrder'
    BY <2>1, <2>2, <2>3 DEF WatcherInv, EveryChangeInOrder, Rising
  <2>5. Announced'
    BY <2>1, <2>2 DEF WatcherInv, Announced, GapIsAnnounced, ChainAnnounced, WireAnnounced, EmissionsAnnounced,
         WithConsumer, InChain, InWire
  <2>6. Sequences' /\ WireInOrder' /\ Rising(received)' /\ StreamState' /\ NobodyWaitsInVain'
    BY <2>1 DEF WatcherInv, Sequences, WireInOrder, Rising, StreamState, EndOnWire, NobodyWaitsInVain
  <2> QED BY <2>1, <2>4, <2>5, <2>6 DEF WatcherInv
<1> QED BY <1>1, <1>2, <1>3, <1>4, <1>5, <1>6, <1>7, <1>8 DEF WatcherNext

\* However changes, losses, disconnects and stops alternate: no consumer waits in next()
\* beside a buffered change, or after the watcher has stopped (ReadModelWatcher.ts).
THEOREM NobodyIsLeftWaiting == WatcherSpec => []NobodyWaitsInVain
<1>1. WatcherInv => NobodyWaitsInVain
  BY DEF WatcherInv
<1> QED BY WatcherStart, WatcherStep, <1>1, PTL DEF WatcherSpec

\* And until it stops every change that a loop has taken from its stream is delivered,
\* buffered or being converted, once and in order, over any number of streams
\* (the chain of deliveries of ReadModelWatcher.ts).
THEOREM ChangesKeepTheirOrder == WatcherSpec => []EveryChangeInOrder
<1>1. WatcherInv => EveryChangeInOrder
  BY DEF WatcherInv
<1> QED BY WatcherStart, WatcherStep, <1>1, PTL DEF WatcherSpec

\* And of the changes behind the marker of a subscription the consumer gets none of which it
\* missed an earlier one without having been told to query again after that one
\* (notifyResubscribed, which the chain awaits).
THEOREM GapsAreAnnounced == WatcherSpec => []GapIsAnnounced
<1>1. WatcherInv => GapIsAnnounced
  BY DEF WatcherInv, Announced, GapIsAnnounced
<1> QED BY WatcherStart, WatcherStep, <1>1, PTL DEF WatcherSpec

-----------------------------------------------------------------------------
(* The replay of a scenario: the places of a history. *)

AllEvents == JoinEvents \cup ChildEvents \cup CommonEvents
RowKinds == FromKinds \cup ChildKinds

\* The last of these places, or 0.
LastPlace(T) == Max({0} \cup T)

LEMMA LastIs ==
  ASSUME NEW m \in Nat, NEW T, T \subseteq 1..m
  PROVE  /\ LastPlace(T) \in 0..m
         /\ \A n \in T : n <= LastPlace(T)
         /\ LastPlace(T) = 0 \/ LastPlace(T) \in T
         /\ LastPlace(T \cup {m + 1}) = m + 1
<1>1. LastPlace(T) \in {0} \cup T /\ \A n \in {0} \cup T : n <= LastPlace(T)
  <2> DEFINE U == {0} \cup T
  <2>1. U \subseteq Nat /\ U # {} /\ \A n \in U : n <= m
    OBVIOUS
  <2> HIDE DEF U
  <2>2. Max(U) \in U /\ \A n \in U : n <= Max(U)
    BY <2>1, MaxOf
  <2> QED BY <2>2 DEF LastPlace, U
<1>2. LastPlace(T \cup {m + 1}) = m + 1
  <2> DEFINE U == {0} \cup (T \cup {m + 1})
  <2>1. U \subseteq Nat /\ U # {} /\ \A n \in U : n <= m + 1
    OBVIOUS
  <2>2. m + 1 \in U /\ m + 1 \in Nat
    OBVIOUS
  <2> HIDE DEF U
  <2>3. Max(U) \in U /\ \A n \in U : n <= Max(U)
    BY <2>1, <2>2, MaxOf
  <2>4. Max(U) \in Nat /\ m + 1 <= Max(U) /\ Max(U) <= m + 1
    BY <2>1, <2>2, <2>3
  <2>5. \A k \in Nat : m + 1 <= k /\ k <= m + 1 => k = m + 1
    OBVIOUS
  <2>6. Max(U) = m + 1
    BY <2>4, <2>5
  <2> QED BY <2>6 DEF LastPlace, U
<1>3. LastPlace(T) = 0 \/ LastPlace(T) \in T
  BY <1>1
<1>4. LastPlace(T) \in 0..m
  <2>1. 1..m \subseteq 0..m /\ 0 \in 0..m
    OBVIOUS
  <2> QED BY <1>3, <2>1
<1>5. \A n \in T : n <= LastPlace(T)
  BY <1>1
<1> QED BY <1>2, <1>3, <1>4, <1>5, Zenon

\* The places of the events of these kinds of a source, and of one child of its row.
At(h, kinds, s) == {n \in DOMAIN h : h[n].kind \in kinds /\ h[n].source = s}
AtChild(h, kinds, s, child) == {n \in At(h, kinds, s) : h[n].child = child}

LEMMA AtGrows ==
  ASSUME NEW h \in Seq(AllEvents), NEW e \in AllEvents, NEW kinds, NEW s
  PROVE  /\ LastPlace(At(h, kinds, s)) \in 0..Len(h)
         /\ LastPlace(At(Append(h, e), kinds, s))
              = IF e.kind \in kinds /\ e.source = s THEN Len(h) + 1 ELSE LastPlace(At(h, kinds, s))
<1>1. PICK m \in Nat : m = Len(h) /\ DOMAIN h = 1..m
  OBVIOUS
<1>2. PICK g : g = Append(h, e) /\ DOMAIN g = 1..(m + 1) /\ g[m + 1] = e /\ \A n \in 1..m : g[n] = h[n]
  <2>1. /\ DOMAIN Append(h, e) = 1..(m + 1) /\ Append(h, e)[m + 1] = e
        /\ \A n \in 1..m : Append(h, e)[n] = h[n]
    BY <1>1
  <2> QED BY <2>1
<1>3. At(h, kinds, s) \subseteq 1..m
  BY <1>1 DEF At
<1>4. \A n \in 1..m : n \in At(g, kinds, s) <=> n \in At(h, kinds, s)
  BY <1>1, <1>2 DEF At
<1>5. m + 1 \in At(g, kinds, s) <=> e.kind \in kinds /\ e.source = s
  BY <1>2 DEF At
<1>6. At(g, kinds, s) \subseteq 1..(m + 1)
  BY <1>2 DEF At
<1>7. CASE e.kind \in kinds /\ e.source = s
  <2>1. At(g, kinds, s) = At(h, kinds, s) \cup {m + 1}
    <3>1. \A n \in 1..(m + 1) : n \in 1..m \/ n = m + 1
      OBVIOUS
    <3>2. 1..m \subseteq 1..(m + 1)
      OBVIOUS
    <3> QED BY <1>3, <1>4, <1>5, <1>6, <1>7, <3>1, <3>2
  <2> QED BY <1>1, <1>2, <1>3, <1>7, <2>1, LastIs
<1>8. CASE ~(e.kind \in kinds /\ e.source = s)
  <2>1. \A n : n \in At(g, kinds, s) <=> n \in At(h, kinds, s)
    <3>1. \A n \in 1..(m + 1) : n \in 1..m \/ n = m + 1
      OBVIOUS
    <3>2. 1..m \subseteq 1..(m + 1) /\ m + 1 \notin 1..m
      OBVIOUS
    <3> QED BY <1>3, <1>4, <1>5, <1>6, <1>8, <3>1, <3>2
  <2>2. At(g, kinds, s) = At(h, kinds, s)
    BY <2>1
  <2> QED BY <1>1, <1>2, <1>3, <1>8, <2>2, LastIs
<1> QED BY <1>7, <1>8

LEMMA AtChildGrows ==
  ASSUME NEW h \in Seq(AllEvents), NEW e \in AllEvents, NEW kinds, NEW s, NEW child
  PROVE  /\ LastPlace(AtChild(h, kinds, s, child)) \in 0..Len(h)
         /\ LastPlace(AtChild(Append(h, e), kinds, s, child))
              = IF e.kind \in kinds /\ e.source = s /\ e.child = child THEN Len(h) + 1
                ELSE LastPlace(AtChild(h, kinds, s, child))
<1>1. PICK m \in Nat : m = Len(h) /\ DOMAIN h = 1..m
  OBVIOUS
<1>2. PICK g : g = Append(h, e) /\ DOMAIN g = 1..(m + 1) /\ g[m + 1] = e /\ \A n \in 1..m : g[n] = h[n]
  <2>1. /\ DOMAIN Append(h, e) = 1..(m + 1) /\ Append(h, e)[m + 1] = e
        /\ \A n \in 1..m : Append(h, e)[n] = h[n]
    BY <1>1
  <2> QED BY <2>1
<1>3. AtChild(h, kinds, s, child) \subseteq 1..m
  BY <1>1 DEF At, AtChild
<1>4. \A n \in 1..m : n \in AtChild(g, kinds, s, child) <=> n \in AtChild(h, kinds, s, child)
  BY <1>1, <1>2 DEF At, AtChild
<1>5. m + 1 \in AtChild(g, kinds, s, child) <=> e.kind \in kinds /\ e.source = s /\ e.child = child
  BY <1>2 DEF At, AtChild
<1>6. AtChild(g, kinds, s, child) \subseteq 1..(m + 1)
  BY <1>2 DEF At, AtChild
<1>7. CASE e.kind \in kinds /\ e.source = s /\ e.child = child
  <2>1. AtChild(g, kinds, s, child) = AtChild(h, kinds, s, child) \cup {m + 1}
    <3>1. \A n \in 1..(m + 1) : n \in 1..m \/ n = m + 1
      OBVIOUS
    <3>2. 1..m \subseteq 1..(m + 1)
      OBVIOUS
    <3> QED BY <1>3, <1>4, <1>5, <1>6, <1>7, <3>1, <3>2
  <2> QED BY <1>1, <1>2, <1>3, <1>7, <2>1, LastIs
<1>8. CASE ~(e.kind \in kinds /\ e.source = s /\ e.child = child)
  <2>1. \A n : n \in AtChild(g, kinds, s, child) <=> n \in AtChild(h, kinds, s, child)
    <3>1. \A n \in 1..(m + 1) : n \in 1..m \/ n = m + 1
      OBVIOUS
    <3>2. 1..m \subseteq 1..(m + 1) /\ m + 1 \notin 1..m
      OBVIOUS
    <3> QED BY <1>3, <1>4, <1>5, <1>6, <1>8, <3>1, <3>2
  <2>2. AtChild(g, kinds, s, child) = AtChild(h, kinds, s, child)
    BY <2>1
  <2> QED BY <1>1, <1>2, <1>3, <1>8, <2>2, LastIs
<1> QED BY <1>7, <1>8

\* An item of a child was added to a row, or replaced, after anything that takes it.
Added(h, s, child) == LastPlace(AtChild(h, {"added", "addedWith"}, s, child))
Dropped(h, s, child) == LastPlace(AtChild(h, {"dropped"}, s, child))
Removed(h, s) == LastPlace(At(h, {"removed"}, s))
Touched(h, s) == LastPlace(At(h, RowKinds, s))
Joined(h, s) == LastPlace(At(h, {"joined"}, s))
Holds(h, s, child) == Added(h, s, child) > Dropped(h, s, child) /\ Added(h, s, child) > Removed(h, s)

LEMMA EventIs ==
  ASSUME NEW e \in AllEvents
  PROVE  /\ e.kind \in {"opened", "joined", "added", "dropped", "addedWith", "changed", "removed"}
         /\ e.source \in RowSources
         /\ e.kind = "opened" => e.on \in RowSources \cup {Null}
         /\ e.kind = "joined" => e.content \in Contents \cup {Null}
         /\ e.kind \in ChildKinds => e.child \in Children
<1>1. CASE e \in JoinEvents
  BY <1>1 DEF JoinEvents, EventOf, ChildKinds
<1>2. CASE e \in ChildEvents
  BY <1>2 DEF ChildEvents, EventOf
<1>3. CASE e \in CommonEvents
  BY <1>3 DEF CommonEvents, EventOf, ChildKinds
<1> QED BY <1>1, <1>2, <1>3 DEF AllEvents

\* The places that the properties speak of.
LEMMA PlacesAre ==
  /\ \A s : LastRemoved(s) = Removed(replayed, s)
  /\ \A s : LastJoined(s) = Joined(replayed, s)
  /\ \A s : LastOf(LAMBDA e : e.source = s /\ e.kind \in FromKinds \cup ChildKinds) = Touched(replayed, s)
<1>1. \A s : LastRemoved(s) = Removed(replayed, s)
  <2> TAKE s
  <2>1. {n \in DOMAIN replayed : replayed[n].kind = "removed" /\ replayed[n].source = s} = At(replayed, {"removed"}, s)
    BY DEF At
  <2> QED BY <2>1 DEF LastRemoved, LastOf, Removed, LastPlace
<1>2. \A s : LastJoined(s) = Joined(replayed, s)
  <2> TAKE s
  <2>1. {n \in DOMAIN replayed : replayed[n].kind = "joined" /\ replayed[n].source = s} = At(replayed, {"joined"}, s)
    BY DEF At
  <2> QED BY <2>1 DEF LastJoined, LastOf, Joined, LastPlace
<1>3. \A s : LastOf(LAMBDA e : e.source = s /\ e.kind \in FromKinds \cup ChildKinds) = Touched(replayed, s)
  <2> TAKE s
  <2>1. {n \in DOMAIN replayed : replayed[n].source = s /\ replayed[n].kind \in FromKinds \cup ChildKinds} = At(replayed, RowKinds, s)
    BY DEF At, RowKinds
  <2> QED BY <2>1 DEF LastOf, Touched, LastPlace
<1> QED BY <1>1, <1>2, <1>3
-----------------------------------------------------------------------------
(* The replay of a scenario: its rows. *)

Item == [id : Children, by : Nat]

\* The children of a row are those that the history h added to it.
ChildrenFollow(h, s, children) ==
  /\ \A i \in DOMAIN children : Holds(h, s, children[i].id) /\ children[i].by = Added(h, s, children[i].id)
  /\ \A child \in Children : Holds(h, s, child) => \E i \in DOMAIN children : children[i].id = child
  /\ \A i, j \in DOMAIN children : children[i].id = children[j].id => i = j

\* What is known of a source, after the history h: whether it has a row, and what is in it.
RowFollows(h, s, row, report, known) ==
  /\ row # Undefined <=> Touched(h, s) > Removed(h, s)
  /\ IF row # Undefined THEN report = row ELSE report \in {Undefined, Deleted}
  /\ row # Undefined => ChildrenFollow(h, s, row.children)
  /\ row # Undefined /\ row.on \in RowSources /\ known[row.on] \notin {Null, Undefined} => row.joined = known[row.on]

LookupFollows(h, s, content) ==
  content = IF Joined(h, s) = 0 THEN Undefined ELSE h[Joined(h, s)].content

ScenarioInv ==
  /\ replayed \in Seq(AllEvents)
  /\ engine \in [RowSources -> Row \cup {Undefined}]
  /\ lookup \in [RowSources -> Contents \cup {Null, Undefined}]
  /\ reported \in [RowSources -> Row \cup {Undefined, Deleted}]
  /\ \A s \in RowSources : RowFollows(replayed, s, engine[s], reported[s], lookup)
  /\ \A s \in RowSources : LookupFollows(replayed, s, lookup[s])

\* Where the places of a source are, and that no child was added without a touch.
LEMMA PlacesOf ==
  ASSUME NEW h \in Seq(AllEvents), NEW s
  PROVE  /\ Removed(h, s) \in 0..Len(h) /\ Touched(h, s) \in 0..Len(h) /\ Joined(h, s) \in 0..Len(h)
         /\ \A child : /\ Added(h, s, child) \in 0..Len(h) /\ Dropped(h, s, child) \in 0..Len(h)
                       /\ Added(h, s, child) <= Touched(h, s)
<1>0. PICK m \in Nat : m = Len(h) /\ DOMAIN h = 1..m
  OBVIOUS
<1>1. \A kinds : At(h, kinds, s) \subseteq 1..m
  BY <1>0 DEF At
<1>2. \A kinds, child : AtChild(h, kinds, s, child) \subseteq 1..m
  BY <1>1 DEF AtChild
<1>3. Removed(h, s) \in 0..m /\ Touched(h, s) \in 0..m /\ Joined(h, s) \in 0..m
  BY <1>1, LastIs DEF Removed, Touched, Joined
<1>4. ASSUME NEW child
      PROVE  /\ Added(h, s, child) \in 0..m /\ Dropped(h, s, child) \in 0..m
             /\ Added(h, s, child) <= Touched(h, s)
  <2>1. Added(h, s, child) \in 0..m /\ Dropped(h, s, child) \in 0..m
    BY <1>2, LastIs DEF Added, Dropped
  <2>2. AtChild(h, {"added", "addedWith"}, s, child) \subseteq At(h, RowKinds, s)
    BY DEF AtChild, At, RowKinds, ChildKinds
  <2>3. Added(h, s, child) = 0 \/ Added(h, s, child) \in AtChild(h, {"added", "addedWith"}, s, child)
    BY <1>2, LastIs DEF Added
  <2>4. \A n \in At(h, RowKinds, s) : n <= Touched(h, s)
    BY <1>1, LastIs DEF Touched
  <2>5. CASE Added(h, s, child) = 0
    BY <1>3, <2>1, <2>5
  <2>6. CASE Added(h, s, child) \in AtChild(h, {"added", "addedWith"}, s, child)
    BY <2>1, <2>2, <2>4, <2>6
  <2> QED BY <2>1, <2>3, <2>5, <2>6
<1> QED BY <1>0, <1>3, <1>4

\* What another event changes of the places.
Grown(h, g, e, s) ==
  /\ Removed(g, s) = IF e.kind = "removed" /\ e.source = s THEN Len(h) + 1 ELSE Removed(h, s)
  /\ Touched(g, s) = IF e.kind \in RowKinds /\ e.source = s THEN Len(h) + 1 ELSE Touched(h, s)
  /\ Joined(g, s) = IF e.kind = "joined" /\ e.source = s THEN Len(h) + 1 ELSE Joined(h, s)
  /\ \A child :
       /\ Added(g, s, child) = IF e.kind \in {"added", "addedWith"} /\ e.source = s /\ e.child = child
                               THEN Len(h) + 1 ELSE Added(h, s, child)
       /\ Dropped(g, s, child) = IF e.kind = "dropped" /\ e.source = s /\ e.child = child
                                 THEN Len(h) + 1 ELSE Dropped(h, s, child)

LEMMA PlacesGrow ==
  ASSUME NEW h \in Seq(AllEvents), NEW e \in AllEvents, NEW s
  PROVE  Grown(h, Append(h, e), e, s)
<1> DEFINE g == Append(h, e)
<1>1. Removed(g, s) = IF e.kind \in {"removed"} /\ e.source = s THEN Len(h) + 1 ELSE Removed(h, s)
  BY AtGrows DEF Removed
<1>2. Touched(g, s) = IF e.kind \in RowKinds /\ e.source = s THEN Len(h) + 1 ELSE Touched(h, s)
  BY AtGrows DEF Touched
<1>3. Joined(g, s) = IF e.kind \in {"joined"} /\ e.source = s THEN Len(h) + 1 ELSE Joined(h, s)
  BY AtGrows DEF Joined
<1>4. ASSUME NEW child
      PROVE  /\ Added(g, s, child) = IF e.kind \in {"added", "addedWith"} /\ e.source = s /\ e.child = child
                                     THEN Len(h) + 1 ELSE Added(h, s, child)
             /\ Dropped(g, s, child) = IF e.kind \in {"dropped"} /\ e.source = s /\ e.child = child
                                       THEN Len(h) + 1 ELSE Dropped(h, s, child)
  BY AtChildGrows DEF Added, Dropped
<1> HIDE DEF g
<1>5. \A x : (e.kind \in {x}) = (e.kind = x)
  OBVIOUS
<1>6. Grown(h, g, e, s)
  BY <1>1, <1>2, <1>3, <1>4, <1>5 DEF Grown
<1> QED BY <1>6 DEF g

\* An event of another source, or of a join, leaves what is known of a row's children.
LEMMA OtherChildren ==
  ASSUME NEW h, NEW g, NEW e, NEW s, Grown(h, g, e, s), e.source # s \/ e.kind \in {"joined", "opened", "changed"},
         NEW children, ChildrenFollow(h, s, children)
  PROVE  ChildrenFollow(g, s, children)
<1>1. Removed(g, s) = Removed(h, s) /\ \A child : Added(g, s, child) = Added(h, s, child) /\ Dropped(g, s, child) = Dropped(h, s, child)
  BY DEF Grown
<1>2. \A child : Holds(g, s, child) <=> Holds(h, s, child)
  BY <1>1 DEF Holds
<1> QED BY <1>1, <1>2 DEF ChildrenFollow

\* An event that adds a child, or drops it, and children that differ in that one only.
Kept(x, y, child) ==
  /\ \A i \in DOMAIN y : y[i].id # child => \E j \in DOMAIN x : y[i] = x[j]
  /\ \A j \in DOMAIN x : x[j].id # child => \E i \in DOMAIN y : y[i] = x[j]
  /\ \A i, j \in DOMAIN y : y[i].id = y[j].id => i = j

LEMMA ChildFollows ==
  ASSUME NEW h \in Seq(AllEvents), NEW g, NEW e \in AllEvents, NEW s, Grown(h, g, e, s), e.source = s,
         e.kind \in ChildKinds, NEW x, ChildrenFollow(h, s, x), NEW y, Kept(x, y, e.child),
         IF e.kind = "dropped" THEN \A i \in DOMAIN y : y[i].id # e.child
         ELSE /\ \E i \in DOMAIN y : y[i].id = e.child
              /\ \A i \in DOMAIN y : y[i].id = e.child => y[i].by = Len(h) + 1
  PROVE  ChildrenFollow(g, s, y)
<1>0. PICK m \in Nat : m = Len(h)
  OBVIOUS
<1>1. Removed(g, s) = Removed(h, s) /\ Removed(h, s) \in 0..m
  BY <1>0, PlacesOf DEF Grown, ChildKinds
<1>2. ASSUME NEW child, child # e.child
      PROVE  (Holds(g, s, child) <=> Holds(h, s, child)) /\ Added(g, s, child) = Added(h, s, child)
  <2>1. Added(g, s, child) = Added(h, s, child) /\ Dropped(g, s, child) = Dropped(h, s, child)
    BY <1>2 DEF Grown
  <2> QED BY <1>1, <2>1 DEF Holds
<1>3. CASE e.kind = "dropped"
  <2>1. Added(g, s, e.child) = Added(h, s, e.child) /\ Dropped(g, s, e.child) = m + 1 /\ Added(h, s, e.child) \in 0..m
    BY <1>0, <1>3, PlacesOf DEF Grown
  <2>2. ~Holds(g, s, e.child)
    BY <2>1 DEF Holds
  <2>3. \A i \in DOMAIN y : Holds(g, s, y[i].id) /\ y[i].by = Added(g, s, y[i].id)
    BY <1>2, <1>3 DEF Kept, ChildrenFollow
  <2>4. \A child \in Children : Holds(g, s, child) => \E i \in DOMAIN y : y[i].id = child
    BY <1>2, <2>2 DEF Kept, ChildrenFollow
  <2> QED BY <2>3, <2>4 DEF Kept, ChildrenFollow
<1>4. CASE e.kind # "dropped"
  <2>1. /\ Added(g, s, e.child) = m + 1 /\ Dropped(g, s, e.child) = Dropped(h, s, e.child)
        /\ Dropped(h, s, e.child) \in 0..m
    BY <1>0, <1>4, PlacesOf DEF Grown, ChildKinds
  <2>2. Holds(g, s, e.child)
    BY <1>1, <2>1 DEF Holds
  <2>3. ASSUME NEW i \in DOMAIN y PROVE Holds(g, s, y[i].id) /\ y[i].by = Added(g, s, y[i].id)
    <3>1. CASE y[i].id = e.child
      BY <1>0, <1>4, <2>1, <2>2, <3>1
    <3>2. CASE y[i].id # e.child
      BY <1>2, <3>2 DEF Kept, ChildrenFollow
    <3> QED BY <3>1, <3>2
  <2>4. ASSUME NEW child \in Children, Holds(g, s, child) PROVE \E i \in DOMAIN y : y[i].id = child
    <3>1. CASE child = e.child
      BY <1>4, <3>1
    <3>2. CASE child # e.child
      BY <1>2, <2>4, <3>2 DEF Kept, ChildrenFollow
    <3> QED BY <3>1, <3>2
  <2> QED BY <2>3, <2>4 DEF Kept, ChildrenFollow
<1> QED BY <1>3, <1>4

\* Where a child is among the children of a row.
LEMMA ChildAt ==
  ASSUME NEW x \in Seq(Item), NEW child
  PROVE  LET i == PlaceOf(x, child)
         IN /\ i \in 0..Len(x)
            /\ i = 0 => \A j \in DOMAIN x : x[j].id # child
            /\ i > 0 => x[i].id = child
<1> DEFINE I == {j \in 1..Len(x) : x[j].id = child}
           i == PlaceOf(x, child)
<1>1. i = IF I # {} THEN Min(I) ELSE 0
  BY DEF PlaceOf, SelectInSeq
<1>2. PICK n \in Nat : n = Len(x) /\ DOMAIN x = 1..n
  OBVIOUS
<1>3. I \subseteq 1..n /\ I \subseteq Nat /\ \A j \in 1..n : j \in I <=> x[j].id = child
  BY <1>2
<1> HIDE DEF I, i
<1>4. CASE I = {}
  <2>1. i = 0 /\ \A j \in 1..n : x[j].id # child
    BY <1>1, <1>3, <1>4
  <2> QED BY <1>2, <2>1 DEF i
<1>5. CASE I # {}
  <2>1. i \in I
    BY <1>1, <1>3, <1>5, MinOf
  <2>2. i \in 1..n /\ x[i].id = child
    BY <1>3, <2>1
  <2> QED BY <1>2, <2>2 DEF i
<1> QED BY <1>4, <1>5

\* What is left when one is taken out.
LEMMA Without ==
  ASSUME NEW x \in Seq(Item), NEW i \in 1..Len(x)
  PROVE  /\ RemoveAt(x, i) \in Seq(Item) /\ Len(RemoveAt(x, i)) = Len(x) - 1
         /\ \A j \in 1..(Len(x) - 1) : RemoveAt(x, i)[j] = IF j < i THEN x[j] ELSE x[j + 1]
<1>1. PICK n \in Nat \ {0} : n = Len(x) /\ i \in 1..n /\ \A j \in 1..n : x[j] \in Item
  <2>1. Len(x) \in Nat \ {0} /\ \A j \in 1..Len(x) : x[j] \in Item
    OBVIOUS
  <2> QED BY <2>1
<1>2. PICK u : /\ u = SubSeq(x, 1, i - 1) /\ u \in Seq(Item) /\ Len(u) = i - 1
               /\ \A j \in 1..(i - 1) : u[j] = x[j]
  <2>1. i - 1 \in Int /\ 1 \in Int /\ \A j \in 1..(i - 1) : x[j] \in Item /\ j \in 1..((i - 1) - 1 + 1) /\ 1 + j - 1 = j
    BY <1>1
  <2>2. /\ SubSeq(x, 1, i - 1) \in Seq(Item)
        /\ Len(SubSeq(x, 1, i - 1)) = IF 1 <= i - 1 THEN (i - 1) - 1 + 1 ELSE 0
        /\ \A j \in 1..((i - 1) - 1 + 1) : SubSeq(x, 1, i - 1)[j] = x[1 + j - 1]
    BY <2>1, SubSeqProperties
  <2>3. (IF 1 <= i - 1 THEN (i - 1) - 1 + 1 ELSE 0) = i - 1
    BY <1>1
  <2>4. Len(SubSeq(x, 1, i - 1)) = i - 1
    BY <2>2, <2>3
  <2>5. \A j \in 1..(i - 1) : SubSeq(x, 1, i - 1)[j] = x[j]
    <3> TAKE j \in 1..(i - 1)
    <3>1. j \in 1..((i - 1) - 1 + 1) /\ 1 + j - 1 = j
      BY <2>1
    <3> QED BY <2>2, <3>1
  <2> QED BY <2>2, <2>4, <2>5, Zenon
<1>3. PICK v : /\ v = SubSeq(x, i + 1, n) /\ v \in Seq(Item) /\ Len(v) = n - i
               /\ \A j \in 1..(n - i) : v[j] = x[i + j]
  <2>1. i + 1 \in Int /\ n \in Int /\ \A j \in (i + 1)..n : x[j] \in Item
    BY <1>1
  <2>2. \A j \in 1..(n - i) : j \in 1..(n - (i + 1) + 1) /\ (i + 1) + j - 1 = i + j
    BY <1>1
  <2>3. /\ SubSeq(x, i + 1, n) \in Seq(Item)
        /\ Len(SubSeq(x, i + 1, n)) = IF i + 1 <= n THEN n - (i + 1) + 1 ELSE 0
        /\ \A j \in 1..(n - (i + 1) + 1) : SubSeq(x, i + 1, n)[j] = x[(i + 1) + j - 1]
    BY <2>1, SubSeqProperties
  <2>4. (IF i + 1 <= n THEN n - (i + 1) + 1 ELSE 0) = n - i
    BY <1>1
  <2>5. Len(SubSeq(x, i + 1, n)) = n - i
    BY <2>3, <2>4
  <2>6. \A j \in 1..(n - i) : SubSeq(x, i + 1, n)[j] = x[i + j]
    <3> TAKE j \in 1..(n - i)
    <3>1. j \in 1..(n - (i + 1) + 1) /\ (i + 1) + j - 1 = i + j
      BY <2>2
    <3> QED BY <2>3, <3>1
  <2> QED BY <2>3, <2>5, <2>6, Zenon
<1>4. PICK w : /\ w = u \o v /\ w \in Seq(Item) /\ Len(w) = n - 1
               /\ \A j \in 1..(n - 1) : w[j] = IF j <= i - 1 THEN u[j] ELSE v[j - (i - 1)]
  <2>1. /\ u \o v \in Seq(Item) /\ Len(u \o v) = Len(u) + Len(v)
        /\ \A j \in 1..(Len(u) + Len(v)) : (u \o v)[j] = IF j <= Len(u) THEN u[j] ELSE v[j - Len(u)]
    BY <1>2, <1>3, ConcatProperties
  <2>2. Len(u) + Len(v) = n - 1 /\ Len(u) = i - 1
    <3>1. (i - 1) + (n - i) = n - 1
      BY <1>1
    <3> QED BY <1>2, <1>3, <3>1
  <2> QED BY <2>1, <2>2
<1>5. ASSUME NEW j \in 1..(n - 1) PROVE w[j] = IF j < i THEN x[j] ELSE x[j + 1]
  <2>1. CASE j < i
    <3>1. j <= i - 1 /\ j \in 1..(i - 1)
      BY <1>1, <2>1
    <3> QED BY <1>2, <1>4, <2>1, <3>1
  <2>2. CASE ~(j < i)
    <3>1. ~(j <= i - 1) /\ j - (i - 1) \in 1..(n - i) /\ i + (j - (i - 1)) = j + 1
      BY <1>1, <2>2
    <3> QED BY <1>3, <1>4, <2>2, <3>1
  <2> QED BY <2>1, <2>2
<1>6. RemoveAt(x, i) = w
  BY <1>1, <1>2, <1>3, <1>4 DEF RemoveAt
<1> QED BY <1>1, <1>4, <1>5, <1>6

\* applyChild: what it makes of the children of a row.
LEMMA ChildApplied ==
  ASSUME NEW row \in Row, NEW e \in AllEvents, replayed \in Seq(AllEvents),
         \A i, j \in DOMAIN row.children : row.children[i].id = row.children[j].id => i = j
  PROVE  LET next == WithChild(row, e)
         IN /\ next \in Row /\ next.on = row.on /\ next.joined = row.joined
            /\ e.kind \notin ChildKinds => next.children = row.children
            /\ e.kind \in ChildKinds =>
                 /\ Kept(row.children, next.children, e.child)
                 /\ IF e.kind = "dropped" THEN \A i \in DOMAIN next.children : next.children[i].id # e.child
                    ELSE /\ \E i \in DOMAIN next.children : next.children[i].id = e.child
                         /\ \A i \in DOMAIN next.children :
                              next.children[i].id = e.child => next.children[i].by = Len(replayed) + 1
<1> DEFINE next == WithChild(row, e)
<1>1. PICK x \in Seq(Item), n \in Nat :
        x = row.children /\ n = Len(x) /\ DOMAIN x = 1..n /\ \A i, j \in 1..n : x[i].id = x[j].id => i = j
  <2>1. row.children \in Seq(Item) /\ Len(row.children) \in Nat /\ DOMAIN row.children = 1..Len(row.children)
    BY DEF Row, Item
  <2> QED BY <2>1
<1>2. PICK i \in 0..n : /\ i = PlaceOf(row.children, e.child)
                        /\ i = 0 => \A j \in 1..n : x[j].id # e.child
                        /\ i > 0 => x[i].id = e.child
  <2>1. PICK child : child = e.child
    OBVIOUS
  <2>2. /\ PlaceOf(x, child) \in 0..n
        /\ PlaceOf(x, child) = 0 => \A j \in 1..n : x[j].id # child
        /\ PlaceOf(x, child) > 0 => x[PlaceOf(x, child)].id = child
    BY <1>1, ChildAt
  <2> QED BY <1>1, <2>1, <2>2
<1>3. PICK item : item = [id |-> e.child, by |-> Len(replayed) + 1]
  OBVIOUS
<1>4. CASE e.kind \notin ChildKinds
  <2>1. next = row
    BY <1>4 DEF WithChild, ChildKinds
  <2> QED BY <1>4, <2>1
<1>5. CASE e.kind \in ChildKinds
  <2>0. item \in Item /\ item.id = e.child /\ item.by = Len(replayed) + 1
    <3>1. e.child \in Children /\ Len(replayed) + 1 \in Nat
      BY <1>5, EventIs
    <3> QED BY <1>3, <3>1 DEF Item
  <2>1. PICK y : y = IF e.kind = "dropped" THEN IF i = 0 THEN x ELSE RemoveAt(x, i)
                     ELSE IF i = 0 THEN Append(x, item) ELSE [x EXCEPT ![i] = item]
    OBVIOUS
  <2>2. next = [row EXCEPT !.children = y]
    <3>1. [row EXCEPT !.children = x] = row
      BY <1>1 DEF Row
    <3>2. i = 0 \/ (i > 0 /\ i # 0)
      OBVIOUS
    <3>3. CASE e.kind = "dropped" /\ i = 0
      <4>1. next = row
        BY <1>2, <1>5, <3>3 DEF WithChild
      <4> QED BY <2>1, <3>1, <3>3, <4>1
    <3>4. CASE e.kind = "dropped" /\ i > 0 /\ i # 0
      BY <1>1, <1>2, <1>5, <2>1, <3>4 DEF WithChild
    <3>5. CASE e.kind # "dropped"
      BY <1>1, <1>2, <1>3, <1>5, <2>1, <3>5 DEF WithChild
    <3> QED BY <3>2, <3>3, <3>4, <3>5
  <2>3. /\ y \in Seq(Item) /\ Kept(x, y, e.child)
        /\ IF e.kind = "dropped" THEN \A k \in DOMAIN y : y[k].id # e.child
           ELSE /\ \E k \in DOMAIN y : y[k].id = e.child
                /\ \A k \in DOMAIN y : y[k].id = e.child => y[k].by = Len(replayed) + 1
    <3>1. CASE e.kind = "dropped" /\ i = 0
      BY <1>1, <1>2, <2>1, <3>1 DEF Kept
    <3>2. CASE e.kind = "dropped" /\ i > 0
      <4>1. /\ y \in Seq(Item) /\ DOMAIN y = 1..(n - 1) /\ i \in 1..n
            /\ \A j \in 1..(n - 1) : y[j] = IF j < i THEN x[j] ELSE x[j + 1]
        <5>1. i \in 1..n /\ i # 0
          BY <3>2
        <5>2. y = RemoveAt(x, i)
          BY <2>1, <3>2, <5>1
        <5>3. /\ RemoveAt(x, i) \in Seq(Item) /\ Len(RemoveAt(x, i)) = n - 1
              /\ \A j \in 1..(n - 1) : RemoveAt(x, i)[j] = IF j < i THEN x[j] ELSE x[j + 1]
          BY <1>1, <5>1, Without
        <5>4. DOMAIN y = 1..(n - 1)
          BY <5>2, <5>3
        <5> QED BY <5>1, <5>2, <5>3, <5>4
      <4>2. \A j \in 1..(n - 1) : j \in 1..n /\ j + 1 \in 1..n
        OBVIOUS
      <4>3. \A j \in 1..(n - 1) : \E k \in 1..n : y[j] = x[k] /\ k # i /\ (IF j < i THEN k = j ELSE k = j + 1)
        <5> TAKE j \in 1..(n - 1)
        <5>1. CASE j < i
          BY <4>1, <4>2, <5>1
        <5>2. CASE ~(j < i)
          <6>1. j + 1 \in 1..n /\ y[j] = x[j + 1] /\ j + 1 # i
            BY <4>1, <4>2, <5>2
          <6> QED BY <5>2, <6>1
        <5> QED BY <5>1, <5>2
      <4>4. \A j \in DOMAIN y : y[j].id # e.child
        <5>1. \A k \in 1..n : k # i => x[k].id # e.child
          BY <1>1, <1>2, <3>2, <4>1
        <5> QED BY <4>1, <4>3, <5>1, Zenon
      <4>5. \A k \in 1..n : k # i => \E j \in 1..(n - 1) : y[j] = x[k]
        <5> SUFFICES ASSUME NEW k \in 1..n, k # i PROVE \E j \in 1..(n - 1) : y[j] = x[k]
          OBVIOUS
        <5>1. CASE k < i
          <6>1. k \in 1..(n - 1) /\ y[k] = x[k]
            BY <4>1, <5>1
          <6> QED BY <6>1
        <5>2. CASE ~(k < i)
          <6>1. k - 1 \in 1..(n - 1) /\ ~(k - 1 < i) /\ (k - 1) + 1 = k
            BY <4>1, <5>2
          <6>2. y[k - 1] = x[k]
            BY <4>1, <6>1
          <6> QED BY <6>1, <6>2
        <5> QED BY <5>1, <5>2
      <4>6. \A j, k \in 1..(n - 1) : y[j].id = y[k].id => j = k
        <5> SUFFICES ASSUME NEW j \in 1..(n - 1), NEW k \in 1..(n - 1), y[j].id = y[k].id PROVE j = k
          OBVIOUS
        <5>1. PICK u \in 1..n : y[j] = x[u] /\ u # i /\ (IF j < i THEN u = j ELSE u = j + 1)
          BY <4>3
        <5>2. PICK v \in 1..n : y[k] = x[v] /\ v # i /\ (IF k < i THEN v = k ELSE v = k + 1)
          BY <4>3
        <5>3. u = v
          BY <1>1, <5>1, <5>2
        <5> QED BY <5>1, <5>2, <5>3
      <4>7. Kept(x, y, e.child)
        <5>1. ASSUME NEW j \in DOMAIN x, x[j].id # e.child PROVE \E k \in DOMAIN y : y[k] = x[j]
          <6>1. j \in 1..n /\ j # i
            BY <1>1, <1>2, <3>2, <5>1
          <6>2. PICK k \in 1..(n - 1) : y[k] = x[j]
            BY <4>5, <6>1
          <6>3. k \in DOMAIN y
            BY <4>1
          <6> QED BY <6>2, <6>3
        <5>2. ASSUME NEW j \in DOMAIN y PROVE \E k \in DOMAIN x : y[j] = x[k]
          <6>1. j \in 1..(n - 1)
            BY <4>1
          <6>2. PICK k \in 1..n : y[j] = x[k]
            BY <4>3, <6>1
          <6>3. k \in DOMAIN x
            BY <1>1
          <6> QED BY <6>2, <6>3
        <5> QED BY <4>1, <4>6, <5>1, <5>2 DEF Kept
      <4> QED BY <3>2, <4>1, <4>4, <4>7
    <3>3. CASE e.kind # "dropped" /\ i = 0
      <4>1. /\ y \in Seq(Item) /\ DOMAIN y = 1..(n + 1) /\ y[n + 1] = item
            /\ \A j \in 1..n : y[j] = x[j]
        BY <1>1, <2>0, <2>1, <3>3
      <4>2. \A j \in 1..(n + 1) : j \in 1..n \/ j = n + 1
        OBVIOUS
      <4>3. 1..n \subseteq 1..(n + 1) /\ n + 1 \in 1..(n + 1)
        OBVIOUS
      <4>4. \A j \in 1..n : y[j].id # e.child
        BY <1>2, <3>3, <4>1
      <4>5. Kept(x, y, e.child)
        <5>1. \A j, k \in 1..(n + 1) : y[j].id = y[k].id => j = k
          BY <1>1, <2>0, <4>1, <4>2, <4>4, SMTT(30)
        <5>2. \A j \in DOMAIN x : \E k \in DOMAIN y : y[k] = x[j]
          BY <1>1, <4>1, <4>3
        <5>3. \A j \in DOMAIN y : y[j].id # e.child => \E k \in DOMAIN x : y[j] = x[k]
          BY <1>1, <2>0, <4>1, <4>2
        <5> QED BY <4>1, <5>1, <5>2, <5>3 DEF Kept
      <4>6. \A k \in DOMAIN y : y[k].id = e.child => y[k].by = Len(replayed) + 1
        BY <2>0, <4>1, <4>2, <4>4
      <4> QED BY <2>0, <3>3, <4>1, <4>3, <4>5, <4>6
    <3>4. CASE e.kind # "dropped" /\ i > 0
      <4>1. /\ y \in Seq(Item) /\ DOMAIN y = 1..n /\ i \in 1..n /\ y[i] = item
            /\ \A j \in 1..n : j # i => y[j] = x[j]
        BY <1>1, <2>0, <2>1, <3>4
      <4>2. x[i].id = e.child /\ \A j \in 1..n : j # i => x[j].id # e.child
        BY <1>1, <1>2, <3>4, <4>1
      <4>3. Kept(x, y, e.child)
        <5>1. \A j \in 1..n : y[j].id = x[j].id
          BY <2>0, <4>1, <4>2
        <5>2. \A j, k \in 1..n : y[j].id = y[k].id => j = k
          BY <1>1, <5>1
        <5>3. \A j \in 1..n : x[j].id # e.child => y[j] = x[j]
          BY <4>1, <4>2
        <5> QED BY <1>1, <4>1, <5>1, <5>2, <5>3 DEF Kept
      <4>4. \A k \in DOMAIN y : y[k].id = e.child => y[k].by = Len(replayed) + 1
        BY <2>0, <4>1, <4>2
      <4> QED BY <2>0, <3>4, <4>1, <4>3, <4>4
    <3> QED BY <3>1, <3>2, <3>3, <3>4
  <2>4. next \in Row /\ next.on = row.on /\ next.joined = row.joined /\ next.children = y
    BY <2>2, <2>3 DEF Row, Item
  <2> QED BY <1>1, <1>5, <2>3, <2>4
<1> QED BY <1>4, <1>5

\* The target of the join of a row, as it is resolved, and what a row starts with.
JoinHolds(row, known) == row.on \in RowSources /\ known[row.on] \notin {Null, Undefined} => row.joined = known[row.on]

LEMMA StartedIs ==
  ASSUME NEW row \in Row \cup {Undefined}, NEW e \in AllEvents
  PROVE  LET next == Started(row, e)
         IN /\ next \in Row
            /\ IF row = Undefined THEN next.on = Undefined /\ next.children = <<>>
               ELSE next.on = row.on /\ next.joined = row.joined /\ next.children = row.children
<1>1. (e.kind \in FromKinds) \in BOOLEAN /\ <<>> \in Seq([id : Children, by : Nat])
  OBVIOUS
<1>2. CASE row = Undefined
  BY <1>1, <1>2 DEF Started, Row
<1>3. CASE row # Undefined
  <2>1. row \in Row /\ Started(row, e) = [row EXCEPT !.initialized = @ \/ e.kind \in FromKinds]
    BY <1>3 DEF Started
  <2>2. (row.initialized \/ e.kind \in FromKinds) \in BOOLEAN
    OBVIOUS
  <2> QED BY <1>3, <2>1, <2>2 DEF Row
<1> QED BY <1>2, <1>3

LEMMA TargetIs ==
  ASSUME lookup \in [RowSources -> Contents \cup {Null, Undefined}], NEW row \in Row, NEW e \in AllEvents, JoinHolds(row, lookup)
  PROVE  LET next == WithTarget(row, e)
         IN next \in Row /\ next.children = row.children /\ JoinHolds(next, lookup)
<1>1. CASE e.kind # "opened"
  BY <1>1 DEF WithTarget
<1>2. CASE e.kind = "opened"
  <2>1. PICK on : on = Applied(e.on, row.on)
    OBVIOUS
  <2>2. on \in RowSources \cup {Null, Undefined}
    BY <1>2, <2>1, EventIs DEF Applied, Row
  <2>3. PICK aimed \in Row : aimed = [row EXCEPT !.on = on] /\ aimed.on = on /\ aimed.children = row.children
    <3>1. [row EXCEPT !.on = on] \in Row /\ [row EXCEPT !.on = on].on = on /\ [row EXCEPT !.on = on].children = row.children
      BY <2>2 DEF Row
    <3> QED BY <3>1
  <2>4. WithTarget(row, e) = Resolved(aimed)
    BY <1>2, <2>1, <2>3 DEF WithTarget
  <2>5. CASE ~(on \in RowSources /\ lookup[on] # Undefined)
    <3>1. Resolved(aimed) = aimed
      BY <2>3, <2>5 DEF Resolved
    <3>2. JoinHolds(aimed, lookup)
      BY <2>3, <2>5 DEF JoinHolds
    <3> QED BY <2>3, <2>4, <3>1, <3>2
  <2>6. CASE on \in RowSources /\ lookup[on] # Undefined
    <3>1. PICK joined : joined = Applied(lookup[on], aimed.joined)
      OBVIOUS
    <3>2. joined \in Contents \cup {Null, Undefined} /\ (lookup[on] # Null => joined = lookup[on])
      BY <2>6, <3>1 DEF Applied, Row
    <3>3. Resolved(aimed) = [aimed EXCEPT !.joined = joined]
      BY <2>3, <2>6, <3>1 DEF Resolved
    <3>4. /\ [aimed EXCEPT !.joined = joined] \in Row /\ [aimed EXCEPT !.joined = joined].on = on
          /\ [aimed EXCEPT !.joined = joined].joined = joined
          /\ [aimed EXCEPT !.joined = joined].children = row.children
      BY <2>3, <3>2 DEF Row
    <3>5. JoinHolds([aimed EXCEPT !.joined = joined], lookup)
      BY <3>2, <3>4 DEF JoinHolds
    <3> QED BY <2>4, <3>3, <3>4, <3>5
  <2> QED BY <2>5, <2>6
<1> QED BY <1>1, <1>2

\* No child was added to a row that is not there.
LEMMA NoneHeld ==
  ASSUME NEW h \in Seq(AllEvents), NEW s, ~(Touched(h, s) > Removed(h, s))
  PROVE  ChildrenFollow(h, s, <<>>)
<1>1. ASSUME NEW child PROVE ~Holds(h, s, child)
  <2>1. /\ Touched(h, s) \in Nat /\ Removed(h, s) \in Nat /\ Added(h, s, child) \in Nat
        /\ Added(h, s, child) <= Touched(h, s)
    BY PlacesOf
  <2> QED BY <2>1 DEF Holds
<1> QED BY <1>1 DEF ChildrenFollow

-----------------------------------------------------------------------------
(* The replay of a scenario: its events. *)

LEMMA ScenarioStart == ScenarioInit => ScenarioInv
<1> SUFFICES ASSUME ScenarioInit PROVE ScenarioInv
  OBVIOUS
<1>1. replayed = <<>> /\ replayed \in Seq(AllEvents)
  BY DEF ScenarioInit
<1>2. \A s : Touched(replayed, s) = 0 /\ Removed(replayed, s) = 0 /\ Joined(replayed, s) = 0
  <2>1. \A s : Touched(replayed, s) \in 0..0 /\ Removed(replayed, s) \in 0..0 /\ Joined(replayed, s) \in 0..0
    BY <1>1, PlacesOf
  <2> QED BY <2>1
<1> QED BY <1>1, <1>2 DEF ScenarioInit, ScenarioInv, RowFollows, LookupFollows

\* What an event leaves alone of another source.
LEMMA OthersFollow ==
  ASSUME NEW h, NEW g, NEW e, NEW s, Grown(h, g, e, s), e.source # s,
         NEW row, NEW report, NEW known, RowFollows(h, s, row, report, known)
  PROVE  RowFollows(g, s, row, report, known)
<1>1. Removed(g, s) = Removed(h, s) /\ Touched(g, s) = Touched(h, s)
  BY DEF Grown
<1>2. row # Undefined => ChildrenFollow(g, s, row.children)
  BY OtherChildren DEF RowFollows
<1> QED BY <1>1, <1>2 DEF RowFollows

LEMMA LookupStays ==
  ASSUME NEW h \in Seq(AllEvents), NEW e \in AllEvents, NEW s, e.kind # "joined" \/ e.source # s,
         NEW content, LookupFollows(h, s, content)
  PROVE  LookupFollows(Append(h, e), s, content)
<1>1. PICK g : g = Append(h, e)
  OBVIOUS
<1>2. Joined(g, s) = Joined(h, s)
  BY <1>1, PlacesGrow DEF Grown
<1>3. Joined(h, s) \in 0..Len(h)
  BY PlacesOf
<1>4. Joined(h, s) # 0 => g[Joined(h, s)] = h[Joined(h, s)]
  BY <1>1, <1>3
<1>5. LookupFollows(g, s, content)
  BY <1>2, <1>4 DEF LookupFollows
<1> QED BY <1>1, <1>5

\* The history that an event leaves.
LEMMA HistoryGrows ==
  ASSUME ScenarioInv, NEW e \in AllEvents, replayed' = Append(replayed, e)
  PROVE  /\ replayed' \in Seq(AllEvents) /\ replayed'[Len(replayed) + 1] = e
         /\ \A s : Grown(replayed, replayed', e, s)
         /\ \A s \in RowSources : e.kind # "joined" \/ e.source # s => LookupFollows(replayed', s, lookup[s])
<1>1. replayed \in Seq(AllEvents) /\ \A s \in RowSources : LookupFollows(replayed, s, lookup[s])
  BY DEF ScenarioInv
<1>2. replayed' \in Seq(AllEvents) /\ replayed'[Len(replayed) + 1] = e
  BY <1>1
<1>3. \A s : Grown(replayed, Append(replayed, e), e, s)
  BY <1>1, PlacesGrow
<1>4. ASSUME NEW s \in RowSources, e.kind # "joined" \/ e.source # s PROVE LookupFollows(replayed', s, lookup[s])
  <2>1. PICK content : content = lookup[s] /\ LookupFollows(replayed, s, content)
    BY <1>1
  <2>2. LookupFollows(Append(replayed, e), s, content)
    BY <1>1, <1>4, <2>1, LookupStays
  <2> QED BY <2>1, <2>2
<1> QED BY <1>2, <1>3, <1>4

LEMMA JoinKeeps ==
  ASSUME ScenarioInv, NEW e \in AllEvents, replayed' = Append(replayed, e), e.kind = "joined", Join(e)
  PROVE  ScenarioInv'
<1>1. /\ replayed \in Seq(AllEvents)
      /\ engine \in [RowSources -> Row \cup {Undefined}]
      /\ lookup \in [RowSources -> Contents \cup {Null, Undefined}]
      /\ reported \in [RowSources -> Row \cup {Undefined, Deleted}]
      /\ \A s \in RowSources : RowFollows(replayed, s, engine[s], reported[s], lookup)
  BY DEF ScenarioInv
<1>2. /\ replayed' \in Seq(AllEvents) /\ replayed'[Len(replayed) + 1] = e
      /\ \A s : Grown(replayed, replayed', e, s)
      /\ \A s \in RowSources : e.source # s => LookupFollows(replayed', s, lookup[s])
  BY HistoryGrows
<1>3. e.source \in RowSources /\ e.content \in Contents \cup {Null} /\ e.content # Undefined
  BY EventIs, ScenarioAssumption
<1>4. lookup' = [lookup EXCEPT ![e.source] = e.content]
  BY DEF Join
<1>5. lookup' \in [RowSources -> Contents \cup {Null, Undefined}]
  BY <1>1, <1>3, <1>4
<1> DEFINE Reached(s) == engine[s] # Undefined /\ engine[s].on = e.source
           Next(s) == IF e.content = Null THEN engine[s] ELSE [engine[s] EXCEPT !.joined = e.content]
<1>6. /\ engine' = [s \in RowSources |-> IF Reached(s) THEN Next(s) ELSE engine[s]]
      /\ reported' = [s \in RowSources |-> IF Reached(s) THEN Next(s) ELSE reported[s]]
  <2>1. Applied(e.content, Undefined) = IF e.content = Null THEN Undefined ELSE e.content
    BY DEF Applied
  <2>2. CASE e.content = Null
    BY <2>1, <2>2 DEF Join
  <2>3. CASE e.content # Null
    BY <1>3, <2>1, <2>3 DEF Join
  <2> QED BY <2>2, <2>3
<1>7. ASSUME NEW s \in RowSources
      PROVE  /\ engine'[s] \in Row \cup {Undefined} /\ reported'[s] \in Row \cup {Undefined, Deleted}
             /\ RowFollows(replayed', s, engine'[s], reported'[s], lookup')
             /\ LookupFollows(replayed', s, lookup'[s])
  <2>1. PICK row, report : /\ row = engine[s] /\ report = reported[s] /\ RowFollows(replayed, s, row, report, lookup)
                           /\ row \in Row \cup {Undefined} /\ report \in Row \cup {Undefined, Deleted}
    BY <1>1
  <2>2. /\ Touched(replayed', s) = Touched(replayed, s) /\ Removed(replayed', s) = Removed(replayed, s)
        /\ row # Undefined => ChildrenFollow(replayed', s, row.children)
    <3>1. Touched(replayed', s) = Touched(replayed, s) /\ Removed(replayed', s) = Removed(replayed, s)
      BY <1>2 DEF Grown, RowKinds, FromKinds, ChildKinds
    <3>2. row # Undefined => ChildrenFollow(replayed', s, row.children)
      BY <1>2, <2>1, OtherChildren DEF RowFollows
    <3> QED BY <3>1, <3>2
  <2>3. LookupFollows(replayed', s, lookup'[s])
    <3>1. CASE e.source # s
      BY <1>1, <1>2, <1>3, <1>4, <3>1
    <3>2. CASE e.source = s
      <4>1. Joined(replayed', s) = Len(replayed) + 1 /\ Len(replayed) + 1 # 0
        BY <1>1, <1>2, <3>2 DEF Grown
      <4> QED BY <1>1, <1>2, <1>3, <1>4, <3>2, <4>1 DEF LookupFollows
    <3> QED BY <3>1, <3>2
  <2>4. CASE ~Reached(s)
    <3>1. engine'[s] = row /\ reported'[s] = report
      BY <1>6, <2>1, <2>4
    <3>2. row # Undefined /\ row.on \in RowSources => lookup'[row.on] = lookup[row.on]
      BY <1>1, <1>4, <2>1, <2>4
    <3> QED BY <2>1, <2>2, <2>3, <3>1, <3>2 DEF RowFollows
  <2>5. CASE Reached(s)
    <3>1. PICK next : next = Next(s) /\ engine'[s] = next /\ reported'[s] = next
      BY <1>6, <2>5
    <3>2. row \in Row /\ row # Undefined /\ row.on = e.source
      BY <2>1, <2>5
    <3>3. /\ next \in Row /\ next.on = row.on /\ next.children = row.children
          /\ e.content # Null => next.joined = e.content
      BY <1>3, <2>1, <3>1, <3>2, SMTT(30) DEF Row
    <3>4. next # Undefined
      BY <3>3, ScenarioAssumption
    <3>5. lookup'[row.on] = e.content
      BY <1>1, <1>3, <1>4, <3>2
    <3> QED BY <2>1, <2>2, <2>3, <3>1, <3>2, <3>3, <3>4, <3>5 DEF RowFollows
  <2> QED BY <2>4, <2>5
<1>8. /\ engine' \in [RowSources -> Row \cup {Undefined}]
      /\ reported' \in [RowSources -> Row \cup {Undefined, Deleted}]
  BY <1>6, <1>7
<1> QED BY <1>2, <1>5, <1>7, <1>8 DEF ScenarioInv

LEMMA RemoveKeeps ==
  ASSUME ScenarioInv, NEW e \in AllEvents, replayed' = Append(replayed, e), e.kind = "removed", RemoveRow(e)
  PROVE  ScenarioInv'
<1>1. /\ replayed \in Seq(AllEvents)
      /\ engine \in [RowSources -> Row \cup {Undefined}]
      /\ lookup \in [RowSources -> Contents \cup {Null, Undefined}]
      /\ reported \in [RowSources -> Row \cup {Undefined, Deleted}]
      /\ \A s \in RowSources : RowFollows(replayed, s, engine[s], reported[s], lookup)
  BY DEF ScenarioInv
<1>2. /\ replayed' \in Seq(AllEvents) /\ \A s : Grown(replayed, replayed', e, s)
      /\ \A s \in RowSources : LookupFollows(replayed', s, lookup[s])
  BY HistoryGrows
<1>3. /\ engine' = [engine EXCEPT ![e.source] = Undefined]
      /\ reported' = [reported EXCEPT ![e.source] = Deleted] /\ lookup' = lookup /\ e.source \in RowSources
  BY EventIs DEF RemoveRow
<1>4. ASSUME NEW s \in RowSources PROVE RowFollows(replayed', s, engine'[s], reported'[s], lookup')
  <2>1. CASE s # e.source
    <3>1. engine'[s] = engine[s] /\ reported'[s] = reported[s]
      BY <1>1, <1>3, <2>1
    <3>2. RowFollows(replayed, s, engine[s], reported[s], lookup)
      BY <1>1
    <3>3. PICK row, report, known : row = engine[s] /\ report = reported[s] /\ known = lookup
      OBVIOUS
    <3>4. RowFollows(replayed', s, row, report, known)
      BY <1>2, <2>1, <3>2, <3>3, OthersFollow
    <3> QED BY <1>3, <3>1, <3>3, <3>4
  <2>2. CASE s = e.source
    <3>1. engine'[s] = Undefined /\ reported'[s] = Deleted
      BY <1>1, <1>3, <2>2
    <3>2. Removed(replayed', s) = Len(replayed) + 1 /\ Touched(replayed', s) = Touched(replayed, s)
      BY <1>2, <2>2 DEF Grown, RowKinds, FromKinds, ChildKinds
    <3>3. Touched(replayed, s) \in 0..Len(replayed)
      BY <1>1, PlacesOf
    <3>4. ~(Touched(replayed', s) > Removed(replayed', s))
      BY <1>1, <3>2, <3>3
    <3> QED BY <3>1, <3>4 DEF RowFollows
  <2> QED BY <2>1, <2>2
<1>5. /\ engine' \in [RowSources -> Row \cup {Undefined}]
      /\ reported' \in [RowSources -> Row \cup {Undefined, Deleted}]
  BY <1>1, <1>3
<1> QED BY <1>1, <1>2, <1>3, <1>4, <1>5 DEF ScenarioInv

LEMMA ChangeKeeps ==
  ASSUME ScenarioInv, NEW e \in AllEvents, replayed' = Append(replayed, e), e.kind \in RowKinds, Change(e)
  PROVE  ScenarioInv'
<1>1. /\ replayed \in Seq(AllEvents)
      /\ engine \in [RowSources -> Row \cup {Undefined}]
      /\ lookup \in [RowSources -> Contents \cup {Null, Undefined}]
      /\ reported \in [RowSources -> Row \cup {Undefined, Deleted}]
      /\ \A s \in RowSources : RowFollows(replayed, s, engine[s], reported[s], lookup)
  BY DEF ScenarioInv
<1>2. /\ replayed' \in Seq(AllEvents) /\ \A s : Grown(replayed, replayed', e, s)
      /\ \A s \in RowSources : LookupFollows(replayed', s, lookup[s])
  BY HistoryGrows DEF RowKinds, FromKinds, ChildKinds
<1>3. PICK s \in RowSources : s = e.source
  BY EventIs
<1>4. PICK old \in Row \cup {Undefined} : old = engine[s] /\ RowFollows(replayed, s, old, reported[s], lookup)
  BY <1>1
<1>5. PICK started \in Row : /\ started = Started(old, e) /\ ChildrenFollow(replayed, s, started.children)
                             /\ JoinHolds(started, lookup)
  <2>1. /\ Started(old, e) \in Row
        /\ IF old = Undefined THEN Started(old, e).on = Undefined /\ Started(old, e).children = <<>>
           ELSE /\ Started(old, e).on = old.on /\ Started(old, e).joined = old.joined
                /\ Started(old, e).children = old.children
    BY StartedIs
  <2>2. CASE old = Undefined
    <3>1. ChildrenFollow(replayed, s, <<>>)
      BY <1>1, <1>4, <2>2, NoneHeld DEF RowFollows
    <3>2. Undefined \notin RowSources
      BY ScenarioAssumption
    <3> QED BY <2>1, <2>2, <3>1, <3>2 DEF JoinHolds
  <2>3. CASE old # Undefined
    BY <1>4, <2>1, <2>3 DEF JoinHolds, RowFollows
  <2> QED BY <2>2, <2>3
<1>6. PICK aimed \in Row : aimed = WithTarget(started, e) /\ aimed.children = started.children /\ JoinHolds(aimed, lookup)
  BY <1>1, <1>5, TargetIs
<1>7. PICK row \in Row : /\ row = WithChild(aimed, e) /\ JoinHolds(row, lookup)
                         /\ ChildrenFollow(replayed', s, row.children)
  <2>1. \A i, j \in DOMAIN aimed.children : aimed.children[i].id = aimed.children[j].id => i = j
    BY <1>5, <1>6 DEF ChildrenFollow
  <2>2. PICK next : /\ next = WithChild(aimed, e) /\ next \in Row /\ next.on = aimed.on /\ next.joined = aimed.joined
                    /\ e.kind \notin ChildKinds => next.children = aimed.children
                    /\ e.kind \in ChildKinds =>
                         /\ Kept(aimed.children, next.children, e.child)
                         /\ IF e.kind = "dropped" THEN \A i \in DOMAIN next.children : next.children[i].id # e.child
                            ELSE /\ \E i \in DOMAIN next.children : next.children[i].id = e.child
                                 /\ \A i \in DOMAIN next.children :
                                      next.children[i].id = e.child => next.children[i].by = Len(replayed) + 1
    BY <1>1, <2>1, ChildApplied
  <2>3. PICK x, y : x = aimed.children /\ y = next.children /\ ChildrenFollow(replayed, s, x)
    BY <1>5, <1>6
  <2>4. CASE e.kind \in ChildKinds
    <3>1. ChildrenFollow(replayed', s, y)
      BY <1>1, <1>2, <1>3, <2>2, <2>3, <2>4, ChildFollows
    <3> QED BY <1>6, <2>2, <2>3, <3>1 DEF JoinHolds
  <2>5. CASE e.kind \notin ChildKinds
    <3>1. e.kind \in {"joined", "opened", "changed"} /\ y = x
      BY <2>2, <2>3, <2>5 DEF RowKinds, FromKinds, ChildKinds
    <3>2. ChildrenFollow(replayed', s, x)
      BY <1>2, <2>3, <3>1, OtherChildren
    <3> QED BY <1>6, <2>2, <2>3, <3>1, <3>2 DEF JoinHolds
  <2> QED BY <2>4, <2>5
<1>8. /\ engine' = [engine EXCEPT ![s] = row] /\ reported' = [reported EXCEPT ![s] = row] /\ lookup' = lookup
  BY <1>3, <1>4, <1>5, <1>6, <1>7 DEF Change
<1>9. ASSUME NEW t \in RowSources PROVE RowFollows(replayed', t, engine'[t], reported'[t], lookup')
  <2>1. CASE t # s
    <3>1. engine'[t] = engine[t] /\ reported'[t] = reported[t]
      BY <1>1, <1>8, <2>1
    <3>2. RowFollows(replayed, t, engine[t], reported[t], lookup)
      BY <1>1
    <3>3. PICK other, report, known : other = engine[t] /\ report = reported[t] /\ known = lookup
      OBVIOUS
    <3>4. RowFollows(replayed', t, other, report, known)
      BY <1>2, <1>3, <2>1, <3>2, <3>3, OthersFollow
    <3> QED BY <1>8, <3>1, <3>3, <3>4
  <2>2. CASE t = s
    <3>1. engine'[t] = row /\ reported'[t] = row /\ row # Undefined
      BY <1>1, <1>7, <1>8, <2>2, ScenarioAssumption
    <3>2. Touched(replayed', s) = Len(replayed) + 1 /\ Removed(replayed', s) = Removed(replayed, s)
      BY <1>2, <1>3 DEF Grown, RowKinds, FromKinds, ChildKinds
    <3>3. Removed(replayed, s) \in 0..Len(replayed)
      BY <1>1, PlacesOf
    <3>4. Touched(replayed', s) > Removed(replayed', s)
      BY <1>1, <3>2, <3>3
    <3> QED BY <1>7, <1>8, <2>2, <3>1, <3>4 DEF RowFollows, JoinHolds
  <2> QED BY <2>1, <2>2
<1>10. /\ engine' \in [RowSources -> Row \cup {Undefined}]
       /\ reported' \in [RowSources -> Row \cup {Undefined, Deleted}]
  BY <1>1, <1>8
<1> QED BY <1>1, <1>2, <1>8, <1>9, <1>10 DEF ScenarioInv

LEMMA ScenarioStep == ScenarioInv /\ [ScenarioNext]_scenarioVars => ScenarioInv'
<1> SUFFICES ASSUME ScenarioInv, [ScenarioNext]_scenarioVars PROVE ScenarioInv'
  OBVIOUS
<1>1. CASE UNCHANGED scenarioVars
  BY <1>1 DEF scenarioVars, ScenarioInv
<1>2. ASSUME NEW e \in AllEvents, Process(e) PROVE ScenarioInv'
  <2>1. /\ replayed' = Append(replayed, e)
        /\ e.kind \in {"opened", "joined", "added", "dropped", "addedWith", "changed", "removed"}
    BY <1>2, EventIs DEF Process
  <2>2. CASE e.kind = "joined"
    BY <1>2, <2>1, <2>2, JoinKeeps DEF Process
  <2>3. CASE e.kind = "removed"
    BY <1>2, <2>1, <2>3, RemoveKeeps DEF Process
  <2>4. CASE e.kind \notin {"joined", "removed"}
    <3>1. Change(e) /\ e.kind \in RowKinds
      BY <1>2, <2>1, <2>4 DEF Process, RowKinds, FromKinds, ChildKinds
    <3> QED BY <2>1, <3>1, ChangeKeeps
  <2> QED BY <2>2, <2>3, <2>4
<1> QED BY <1>1, <1>2 DEF ScenarioNext, AllEvents

LEMMA ScenarioAlways == ScenarioSpec => []ScenarioInv
BY ScenarioStart, ScenarioStep, PTL DEF ScenarioSpec

-----------------------------------------------------------------------------
(* The replay of a scenario: what is read. *)

LEMMA ReadIsRow ==
  ASSUME ScenarioInv, NEW s \in RowSources
  PROVE  /\ IsRead(s) <=> engine[s] # Undefined
         /\ IsRead(s) => reported[s] = engine[s] /\ reported[s] \in Row
<1>1. RowFollows(replayed, s, engine[s], reported[s], lookup) /\ engine[s] \in Row \cup {Undefined}
  BY DEF ScenarioInv
<1>2. CASE engine[s] = Undefined
  BY <1>1, <1>2 DEF RowFollows, IsRead
<1>3. CASE engine[s] # Undefined
  <2>1. reported[s] = engine[s] /\ engine[s] \in Row
    BY <1>1, <1>3 DEF RowFollows
  <2>2. reported[s] \notin {Undefined, Deleted}
    BY <2>1, ScenarioAssumption
  <2> QED BY <1>3, <2>1, <2>2 DEF IsRead
<1> QED BY <1>2, <1>3

LEMMA RemainsFollows == ScenarioInv => ReadsWhatRemains
<1> SUFFICES ASSUME ScenarioInv, NEW s \in RowSources
             PROVE  IsRead(s) <=> LastOf(LAMBDA e : e.source = s /\ e.kind \in FromKinds \cup ChildKinds) > LastRemoved(s)
  BY DEF ReadsWhatRemains
<1>1. IsRead(s) <=> Touched(replayed, s) > Removed(replayed, s)
  BY ReadIsRow DEF ScenarioInv, RowFollows
<1>2. LastRemoved(s) = Removed(replayed, s)
  BY PlacesAre
<1>3. LastOf(LAMBDA e : e.source = s /\ e.kind \in FromKinds \cup ChildKinds) = Touched(replayed, s)
  BY PlacesAre
<1> QED BY <1>1, <1>2, <1>3

LEMMA JoinFollows == ScenarioInv => JoinIsCurrent
<1> SUFFICES ASSUME ScenarioInv, NEW s \in RowSources, IsRead(s), reported[s].on \in RowSources,
                    LastJoined(reported[s].on) > 0, replayed[LastJoined(reported[s].on)].content # Null
             PROVE  reported[s].joined = replayed[LastJoined(reported[s].on)].content
  BY DEF JoinIsCurrent
<1>1. PICK on \in RowSources : on = reported[s].on
  OBVIOUS
<1>2. PICK n : n = LastJoined(on) /\ n = Joined(replayed, on) /\ n > 0 /\ replayed[n].content # Null
  BY <1>1, PlacesAre
<1>3. replayed \in Seq(AllEvents) /\ LookupFollows(replayed, on, lookup[on])
  BY DEF ScenarioInv
<1>4. n \in DOMAIN replayed /\ replayed[n].kind = "joined"
  <2>1. PICK m \in Nat : m = Len(replayed) /\ DOMAIN replayed = 1..m
    BY <1>3
  <2>2. At(replayed, {"joined"}, on) \subseteq 1..m
    BY <2>1 DEF At
  <2>3. n = 0 \/ n \in At(replayed, {"joined"}, on)
    BY <1>2, <2>1, <2>2, LastIs DEF Joined
  <2> QED BY <1>2, <2>3 DEF At
<1>5. replayed[n].content \in Contents
  BY <1>2, <1>3, <1>4, EventIs
<1>6. lookup[on] = replayed[n].content /\ lookup[on] \notin {Null, Undefined}
  <2>1. n # 0
    BY <1>2
  <2>2. Undefined \notin Contents
    BY ScenarioAssumption
  <2> QED BY <1>2, <1>3, <1>5, <2>1, <2>2 DEF LookupFollows
<1>7. RowFollows(replayed, s, engine[s], reported[s], lookup) /\ reported[s] = engine[s] /\ engine[s] # Undefined
  BY ReadIsRow DEF ScenarioInv
<1> QED BY <1>1, <1>2, <1>6, <1>7 DEF RowFollows

LEMMA OverBoth ==
  ASSUME NEW a \in Nat, NEW b \in Nat, NEW c \in Nat
  PROVE  c > Max({a, b}) <=> c > a /\ c > b
<1> DEFINE T == {a, b}
<1>1. T \subseteq Nat /\ T # {} /\ \A k \in T : k <= a + b
  OBVIOUS
<1>2. a + b \in Nat /\ \A k \in T : k = a \/ k = b
  OBVIOUS
<1>3. a \in T /\ b \in T
  OBVIOUS
<1> HIDE DEF T
<1>4. Max(T) \in T /\ \A k \in T : k <= Max(T)
  BY <1>1, <1>2, MaxOf
<1>5. Max(T) \in Nat /\ (Max(T) = a \/ Max(T) = b) /\ a <= Max(T) /\ b <= Max(T)
  BY <1>1, <1>2, <1>3, <1>4
<1>6. c > Max(T) <=> c > a /\ c > b
  BY <1>5
<1> QED BY <1>6 DEF T

LEMMA ChildrenFollowAll == ScenarioInv => ChildrenAreThoseAdded
<1> SUFFICES ASSUME ScenarioInv PROVE ChildrenAreThoseAdded
  OBVIOUS
<1> DEFINE AddedTo(s, child) == Max({0} \cup {n \in DOMAIN replayed : /\ replayed[n].source = s /\ replayed[n].child = child
                                                                    /\ replayed[n].kind \in {"added", "addedWith"}})
           DroppedFrom(s, child) == Max({0} \cup {n \in DOMAIN replayed : /\ replayed[n].source = s /\ replayed[n].child = child
                                                                    /\ replayed[n].kind \in {"dropped"}})
           HeldBy(s) == {child \in Children : AddedTo(s, child) > Max({DroppedFrom(s, child), LastRemoved(s)})}
<1>1. ASSUME NEW s \in RowSources, NEW child
      PROVE  AddedTo(s, child) = Added(replayed, s, child) /\ DroppedFrom(s, child) = Dropped(replayed, s, child)
  <2>1. {n \in DOMAIN replayed : /\ replayed[n].source = s /\ replayed[n].child = child
                                 /\ replayed[n].kind \in {"added", "addedWith"}}
          = AtChild(replayed, {"added", "addedWith"}, s, child)
    BY DEF AtChild, At
  <2>2. {n \in DOMAIN replayed : /\ replayed[n].source = s /\ replayed[n].child = child
                                 /\ replayed[n].kind \in {"dropped"}}
          = AtChild(replayed, {"dropped"}, s, child)
    BY DEF AtChild, At
  <2> QED BY <2>1, <2>2 DEF Added, Dropped, LastPlace
<1>2. ASSUME NEW s \in RowSources, IsRead(s)
      PROVE  /\ ToSet(reported[s].children) = {[id |-> child, by |-> AddedTo(s, child)] : child \in HeldBy(s)}
             /\ Len(reported[s].children) = Cardinality(HeldBy(s))
  <2>1. replayed \in Seq(AllEvents)
    BY DEF ScenarioInv
  <2>2. PICK x \in Seq(Item), n \in Nat : /\ x = reported[s].children /\ n = Len(x) /\ DOMAIN x = 1..n
                                          /\ ChildrenFollow(replayed, s, x)
    <3>1. reported[s].children \in Seq(Item) /\ ChildrenFollow(replayed, s, reported[s].children)
      BY <1>2, ReadIsRow DEF ScenarioInv, RowFollows, Row, Item
    <3>2. Len(reported[s].children) \in Nat /\ DOMAIN reported[s].children = 1..Len(reported[s].children)
      BY <3>1
    <3> QED BY <3>1, <3>2
  <2>3. ASSUME NEW child
        PROVE  AddedTo(s, child) > Max({DroppedFrom(s, child), LastRemoved(s)}) <=> Holds(replayed, s, child)
    <3>1. /\ Added(replayed, s, child) \in Nat /\ Dropped(replayed, s, child) \in Nat /\ Removed(replayed, s) \in Nat
          /\ LastRemoved(s) = Removed(replayed, s)
      BY <2>1, PlacesOf, PlacesAre
    <3>2. PICK a, b, c : a = Dropped(replayed, s, child) /\ b = Removed(replayed, s) /\ c = Added(replayed, s, child)
      OBVIOUS
    <3>3. c > Max({a, b}) <=> c > a /\ c > b
      BY <3>1, <3>2, OverBoth
    <3>4. AddedTo(s, child) = c /\ DroppedFrom(s, child) = a /\ LastRemoved(s) = b
      BY <1>1, <3>1, <3>2
    <3> QED BY <3>2, <3>3, <3>4, Zenon DEF Holds
  <2>4. \A child : child \in HeldBy(s) <=> child \in Children /\ Holds(replayed, s, child)
    BY <2>3
  <2>5. \A i \in 1..n : x[i] = [id |-> x[i].id, by |-> AddedTo(s, x[i].id)] /\ x[i].id \in HeldBy(s)
    <3> HIDE DEF AddedTo, DroppedFrom, HeldBy
    <3> TAKE i \in 1..n
    <3>1. x[i] \in Item /\ Holds(replayed, s, x[i].id) /\ x[i].by = AddedTo(s, x[i].id)
      BY <1>1, <2>2 DEF ChildrenFollow
    <3> QED BY <2>4, <3>1 DEF Item
  <2>6. \A child \in HeldBy(s) : \E i \in 1..n : x[i].id = child
    <3> HIDE DEF AddedTo, DroppedFrom, HeldBy
    <3> QED BY <2>2, <2>4 DEF ChildrenFollow
  <2> HIDE DEF AddedTo, DroppedFrom, HeldBy
  <2>7. ToSet(x) = {[id |-> child, by |-> AddedTo(s, child)] : child \in HeldBy(s)}
    <3>1. ASSUME NEW y \in ToSet(x) PROVE y \in {[id |-> child, by |-> AddedTo(s, child)] : child \in HeldBy(s)}
      <4>1. PICK i \in 1..n : y = x[i]
        BY <2>2 DEF ToSet
      <4> QED BY <2>5, <4>1
    <3>2. ASSUME NEW child \in HeldBy(s) PROVE [id |-> child, by |-> AddedTo(s, child)] \in ToSet(x)
      <4>1. PICK i \in 1..n : x[i].id = child
        BY <2>6
      <4>2. x[i] = [id |-> child, by |-> AddedTo(s, child)]
        BY <2>5, <4>1
      <4> QED BY <2>2, <4>2 DEF ToSet
    <3> QED BY <3>1, <3>2
  <2>8. n = Cardinality(HeldBy(s))
    <3> DEFINE ids == [i \in 1..n |-> x[i].id]
    <3>1. ids \in [1..n -> HeldBy(s)] /\ \A i \in 1..n : ids[i] = x[i].id
      BY <2>5
    <3>2. \A i, j \in 1..n : ids[i] = ids[j] => i = j
      BY <2>2, <3>1 DEF ChildrenFollow
    <3>3. \A child \in HeldBy(s) : \E i \in 1..n : ids[i] = child
      BY <2>6, <3>1
    <3> HIDE DEF ids
    <3>4. ids \in Injection(1..n, HeldBy(s))
      BY <3>1, <3>2 DEF Injection, IsInjective
    <3>5. ids \in Surjection(1..n, HeldBy(s))
      BY <3>1, <3>3 DEF Surjection
    <3>6. ids \in Bijection(1..n, HeldBy(s))
      BY <3>4, <3>5 DEF Bijection
    <3> QED BY <3>6, FS_CountingElements DEF ExistsBijection
  <2> QED BY <2>2, <2>7, <2>8
<1> QED BY <1>2 DEF ChildrenAreThoseAdded, LastOf

\* Whatever events are seeded, what a scenario reads is what its history says: the rows
\* that were not removed since, what the last joined event maps into each, and one item
\* for each child that was added and not dropped (ProjectionReadModelProcessor.process).
THEOREM ScenariosReadTheirHistory == ScenarioSpec => []ReadsFollowHistory
<1>1. ScenarioInv => ReadsFollowHistory
  BY RemainsFollows, JoinFollows, ChildrenFollowAll DEF ReadsFollowHistory
<1> QED BY <1>1, ScenarioAlways, PTL

\* And the events, the rows and what is kept of joins have their types.
THEOREM ScenarioTypeCorrect == ScenarioSpec => []ScenarioTypeOK
<1> DEFINE Typed == joins \in BOOLEAN
<1>1. ScenarioInit => Typed
  BY DEF ScenarioInit
<1>2. Typed /\ [ScenarioNext]_scenarioVars => Typed'
  BY DEF ScenarioNext, Process, scenarioVars
<1>3. ScenarioInv /\ Typed => ScenarioTypeOK
  BY DEF ScenarioInv, ScenarioTypeOK, AllEvents
<1> QED BY <1>1, <1>2, <1>3, ScenarioAlways, PTL DEF ScenarioSpec

-----------------------------------------------------------------------------
(* The variants of a projection: its rows. *)

VariantsInv == VariantsTypeOK /\ ExclusiveVariants

LEMMA LatestIs ==
  ASSUME NEW l \in Nat, NEW S, S \subseteq 1..l
  PROVE  /\ LatestOf(S) \in 0..l /\ LatestOf(S \cup {l + 1}) = l + 1
         /\ S # {} => LatestOf(S) \in S
<1>1. ASSUME NEW T, T \subseteq 1..(l + 1), T # {} PROVE Max(T) \in T /\ \A k \in T : k <= Max(T)
  <2>1. T \subseteq Nat /\ l + 1 \in Nat /\ \A k \in T : k <= l + 1
    BY <1>1
  <2> QED BY <1>1, <2>1, MaxOf
<1>2. S # {} => LatestOf(S) \in S /\ LatestOf(S) \in 1..l
  <2>1. S \subseteq 1..(l + 1)
    OBVIOUS
  <2> QED BY <1>1, <2>1 DEF LatestOf
<1>3. S = {} => LatestOf(S) = 0
  BY DEF LatestOf
<1>4. LatestOf(S \cup {l + 1}) = l + 1
  <2> DEFINE T == S \cup {l + 1}
  <2>1. T \subseteq 1..(l + 1) /\ T # {} /\ l + 1 \in T
    OBVIOUS
  <2>2. Max(T) \in T /\ l + 1 <= Max(T)
    BY <1>1, <2>1
  <2>3. Max(T) \in 1..(l + 1)
    BY <2>1, <2>2
  <2>4. Max(T) = l + 1
    BY <2>2, <2>3
  <2> QED BY <2>1, <2>4 DEF LatestOf
<1> QED BY <1>2, <1>3, <1>4

\* The numbers of the events of some types, with one event more.
LEMMA NumbersAfter ==
  ASSUME VariantsTypeOK, NEW type \in VariantEvents, NEW key \in VariantKeys, Observe(type, key),
         NEW k \in VariantKeys, NEW types, NEW l, l = Len(observed)
  PROVE  /\ l \in Nat /\ LatestOf(Numbers(k, types)) \in 0..l /\ Numbers(k, types) \subseteq 1..l
         /\ (Numbers(k, types) # {} => LatestOf(Numbers(k, types)) \in Numbers(k, types))
         /\ LatestOf(Numbers(k, types))' = IF k = key /\ type \in types THEN l + 1 ELSE LatestOf(Numbers(k, types))
<1> DEFINE e == [type |-> type, key |-> key]
<1>1. observed \in Seq([type : VariantEvents, key : VariantKeys]) /\ e \in [type : VariantEvents, key : VariantKeys]
      /\ observed' = Append(observed, e)
  BY DEF VariantsTypeOK, Observe
<1>2. /\ l \in Nat /\ DOMAIN observed = 1..l /\ DOMAIN observed' = 1..(l + 1)
      /\ observed'[l + 1] = e /\ \A i \in 1..l : observed'[i] = observed[i]
  BY <1>1
<1>3. e.type = type /\ e.key = key
  OBVIOUS
<1> HIDE DEF e
<1>4. Numbers(k, types) \subseteq 1..l
  BY <1>2 DEF Numbers
<1>5. Numbers(k, types)' = IF k = key /\ type \in types THEN Numbers(k, types) \cup {l + 1} ELSE Numbers(k, types)
  <2>1. \A i \in 1..(l + 1) : i \in 1..l \/ i = l + 1
    BY <1>2
  <2>2. \A i \in 1..l : i \in 1..(l + 1) /\ i # l + 1
    BY <1>2
  <2>3. l + 1 \in 1..(l + 1)
    BY <1>2
  <2>4. ASSUME NEW i PROVE i \in Numbers(k, types)' <=> i \in Numbers(k, types) \/ (k = key /\ type \in types /\ i = l + 1)
    BY <1>2, <1>3, <2>1, <2>2, <2>3 DEF Numbers
  <2> QED BY <2>4
<1>6. LatestOf(Numbers(k, types))' = LatestOf(Numbers(k, types)')
  BY DEF LatestOf
<1> QED BY <1>2, <1>4, <1>5, <1>6, LatestIs

LEMMA RowIs ==
  ASSUME VariantsTypeOK, NEW type \in VariantEvents, NEW key \in VariantKeys, Observe(type, key),
         NEW l, l = Len(observed)
  PROVE  /\ observed' \in Seq([type : VariantEvents, key : VariantKeys]) /\ Len(observed') = l + 1 /\ l \in Nat
         /\ \E removesLast \in BOOLEAN : \A v \in Variants : 
              /\ rows'[v][key] = RowAfter(v, rows[v][key], type, l + 1, removesLast)
              /\ \A k \in VariantKeys \ {key} : rows'[v][k] = rows[v][k]
         /\ rows' \in [Variants -> [VariantKeys -> 0..(l + 1)]]
<1>1. PICK removesLast \in BOOLEAN :
        rows' = [v \in Variants |-> [rows[v] EXCEPT ![key] = RowAfter(v, rows[v][key], type, l + 1, removesLast)]]
  BY DEF Observe
<1>2. observed' \in Seq([type : VariantEvents, key : VariantKeys]) /\ Len(observed') = l + 1 /\ l \in Nat
  BY DEF VariantsTypeOK, Observe
<1>3. ASSUME NEW v \in Variants
      PROVE  /\ rows'[v][key] = RowAfter(v, rows[v][key], type, l + 1, removesLast)
             /\ \A k \in VariantKeys \ {key} : rows'[v][k] = rows[v][k]
             /\ rows'[v] \in [VariantKeys -> 0..(l + 1)]
  <2> DEFINE row == RowAfter(v, rows[v][key], type, l + 1, removesLast)
  <2>1. rows[v] \in [VariantKeys -> 0..l] /\ rows'[v] = [rows[v] EXCEPT ![key] = row]
    BY <1>1 DEF VariantsTypeOK
  <2>2. row \in {0, l + 1, rows[v][key]} /\ rows[v][key] \in 0..l
    BY <2>1 DEF RowAfter, Mapped
  <2>3. row \in 0..(l + 1) /\ 0..l \subseteq 0..(l + 1)
    BY <1>2, <2>2
  <2> HIDE DEF row
  <2> QED BY <2>1, <2>3 DEF row
<1>4. rows' \in [Variants -> [VariantKeys -> 0..(l + 1)]]
  <2>1. rows' = [v \in Variants |-> rows'[v]]
    BY <1>1
  <2> QED BY <1>3, <2>1
<1> QED BY <1>2, <1>3, <1>4

LEMMA VariantsStart == VariantsInit => VariantsInv
<1> SUFFICES ASSUME VariantsInit PROVE VariantsInv
  OBVIOUS
<1>1. observed = <<>> /\ rows = [v \in Variants |-> [k \in VariantKeys |-> 0]] /\ group \in Groups
  BY DEF VariantsInit
<1>2. \A k, types : Numbers(k, types) = {}
  BY <1>1 DEF Numbers
<1>3. \A k, types : LatestOf(Numbers(k, types)) = 0
  BY <1>2 DEF LatestOf
<1>4. VariantsTypeOK
  BY <1>1 DEF VariantsTypeOK
<1>5. ExclusiveVariants
  BY <1>1, <1>3 DEF ExclusiveVariants
<1> QED BY <1>4, <1>5 DEF VariantsInv

LEMMA ObserveStep ==
  ASSUME VariantsInv, NEW type \in VariantEvents, NEW key \in VariantKeys, Observe(type, key)
  PROVE  VariantsInv'
<1>1. PICK l : l = Len(observed)
  OBVIOUS
<1>2. VariantsTypeOK
  BY DEF VariantsInv
<1>3. VariantsTypeOK'
  BY <1>1, <1>2, RowIs DEF VariantsTypeOK, Observe
<1>4. ExclusiveVariants'
  <2> SUFFICES ASSUME NEW v \in Variants, NEW k \in VariantKeys, WellDeclared(v)'
               PROVE  rows'[v][k] =
                        IF LatestOf(Numbers(k, Declared(v).entering))' > LatestOf(Numbers(k, RemovedWith(v)))'
                        THEN LatestOf(Numbers(k, Merged(v)))' ELSE 0
    BY DEF ExclusiveVariants, RemovedWith
  <2> DEFINE entering == Declared(v).entering
             leaving == RemovedWith(v)
             merged == Merged(v)
             Of(types) == LatestOf(Numbers(k, types))
  <2>1. group' = group
    BY DEF Observe
  <2>2. WellDeclared(v) /\ entering' = entering /\ leaving' = leaving /\ merged' = merged
    BY <2>1 DEF WellDeclared, Declared, Merged, Siblings, RemovedWith
  <2>3. PICK en, le, me : en = entering /\ le = leaving /\ me = merged
    OBVIOUS
  <2>4. en \subseteq me /\ \A t \in en : t \notin le
    BY <2>2, <2>3 DEF WellDeclared, RemovedWith
  <2>5. rows[v][k] = IF Of(en) > Of(le) THEN Of(me) ELSE 0
    BY <2>2, <2>3 DEF VariantsInv, ExclusiveVariants, RemovedWith
  <2>6. ASSUME NEW types PROVE
          /\ l \in Nat /\ LatestOf(Numbers(k, types)) \in 0..l /\ Numbers(k, types) \subseteq 1..l
          /\ (Numbers(k, types) # {} => LatestOf(Numbers(k, types)) \in Numbers(k, types))
          /\ LatestOf(Numbers(k, types))' = IF k = key /\ type \in types THEN l + 1 ELSE LatestOf(Numbers(k, types))
    BY <1>1, <1>2, NumbersAfter
  <2>7. Of(en) > Of(le) => Of(me) # 0
    <3> SUFFICES ASSUME Of(en) > Of(le) PROVE Of(me) # 0
      OBVIOUS
    <3>1. Of(en) # 0
      BY <2>6
    <3>2. Numbers(k, en) # {}
      BY <3>1 DEF LatestOf
    <3>3. Numbers(k, en) \subseteq Numbers(k, me)
      BY <2>4 DEF Numbers
    <3>4. Numbers(k, me) # {}
      BY <3>2, <3>3
    <3>5. Of(me) \in 1..l
      BY <2>6, <3>4
    <3> QED BY <2>6, <3>5
  <2>8. PICK removesLast \in BOOLEAN :
           /\ rows'[v][key] = RowAfter(v, rows[v][key], type, l + 1, removesLast)
           /\ \A kk \in VariantKeys \ {key} : rows'[v][kk] = rows[v][kk]
    BY <1>1, <1>2, RowIs
  <2>9. PICK r : r = rows[v][k]
    OBVIOUS
  <2>10. k = key => rows'[v][k] = IF type \notin le THEN (IF type \in en \/ (type \in me /\ r # 0) THEN l + 1 ELSE r)
                                 ELSE IF removesLast THEN 0 ELSE IF type \in en THEN l + 1 ELSE 0
    BY <2>3, <2>4, <2>8, <2>9 DEF RowAfter, Mapped, From, SelfJoins
  <2>11. PICK a \in 0..l, b \in 0..l, c \in 0..l : a = Of(en) /\ b = Of(le) /\ c = Of(me)
    BY <2>6
  <2>12. PICK a2, b2, c2 :
           /\ a2 = LatestOf(Numbers(k, en))' /\ b2 = LatestOf(Numbers(k, le))' /\ c2 = LatestOf(Numbers(k, me))'
           /\ a2 = (IF k = key /\ type \in en THEN l + 1 ELSE a)
           /\ b2 = (IF k = key /\ type \in le THEN l + 1 ELSE b)
           /\ c2 = (IF k = key /\ type \in me THEN l + 1 ELSE c)
    BY <2>6, <2>11
  <2>13. r = (IF a > b THEN c ELSE 0) /\ (a > b => c # 0) /\ l \in Nat
    BY <2>5, <2>6, <2>7, <2>9, <2>11
  <2>14. rows'[v][k] = IF a2 > b2 THEN c2 ELSE 0
    <3>1. CASE k # key
      BY <2>8, <2>9, <2>12, <2>13, <3>1
    <3>2. CASE k = key /\ type \in le
      BY <2>4, <2>10, <2>12, <2>13, <3>2
    <3>3. CASE k = key /\ type \notin le
      BY <2>4, <2>10, <2>12, <2>13, <3>3
    <3> QED BY <3>1, <3>2, <3>3
  <2>15. /\ LatestOf(Numbers(k, Declared(v).entering))' = a2 /\ LatestOf(Numbers(k, RemovedWith(v)))' = b2
         /\ LatestOf(Numbers(k, Merged(v)))' = c2
    BY <2>2, <2>3, <2>12 DEF LatestOf, Numbers
  <2> QED BY <2>14, <2>15
<1> QED BY <1>3, <1>4 DEF VariantsInv

\* Of the variants of an identity that are all well declared, one at the most has a row
\* for a key.
LEMMA OneActive ==
  ASSUME VariantsInv, NEW v \in Variants, NEW w \in Siblings(v), WellDeclared(v), WellDeclared(w),
         NEW k \in VariantKeys, rows[v][k] # 0
  PROVE  rows[w][k] = 0
<1> DEFINE Of(types) == LatestOf(Numbers(k, types))
<1>1. w \in Variants /\ v \in Siblings(w)
  BY DEF Siblings
<1>2. Of(Declared(v).entering) > Of(RemovedWith(v))
  BY DEF VariantsInv, ExclusiveVariants, RemovedWith
<1>3. rows[w][k] # 0 => Of(Declared(w).entering) > Of(RemovedWith(w))
  BY <1>1 DEF VariantsInv, ExclusiveVariants, RemovedWith
<1>4. PICK l \in Nat : l = Len(observed) /\ DOMAIN observed = 1..l
  BY DEF VariantsInv, VariantsTypeOK
<1>5. ASSUME NEW S, NEW T, S \subseteq T PROVE Of(S) <= Of(T) /\ Of(S) \in Nat /\ Of(T) \in Nat
  <2>1. Numbers(k, S) \subseteq Numbers(k, T) /\ Numbers(k, T) \subseteq 1..l
    BY <1>4, <1>5 DEF Numbers
  <2>2. \A types : Of(types) \in 0..l /\ (Numbers(k, types) # {} => Of(types) \in Numbers(k, types))
    <3> TAKE types
    <3>1. Numbers(k, types) \subseteq 1..l
      BY <1>4 DEF Numbers
    <3> QED BY <1>4, <3>1, LatestIs
  <2>3. CASE Numbers(k, S) = {}
    BY <1>4, <2>2, <2>3 DEF LatestOf
  <2>4. CASE Numbers(k, S) # {}
    <3>1. Of(S) \in Numbers(k, T) /\ Numbers(k, T) \subseteq Nat
      BY <2>1, <2>2, <2>4
    <3>2. \A i \in Numbers(k, T) : i <= l
      BY <1>4, <2>1
    <3>3. \A i \in Numbers(k, T) : i <= Max(Numbers(k, T))
      BY <1>4, <3>1, <3>2, MaxOf
    <3> QED BY <1>4, <2>2, <3>1, <3>3 DEF LatestOf
  <2> QED BY <2>3, <2>4
<1>6. Declared(w).entering \subseteq RemovedWith(v) /\ Declared(v).entering \subseteq RemovedWith(w)
  BY <1>1 DEF RemovedWith
<1>7. /\ Of(Declared(w).entering) <= Of(RemovedWith(v)) /\ Of(Declared(v).entering) <= Of(RemovedWith(w))
      /\ Of(Declared(w).entering) \in Nat /\ Of(RemovedWith(v)) \in Nat
      /\ Of(Declared(v).entering) \in Nat /\ Of(RemovedWith(w)) \in Nat
  BY <1>5, <1>6
<1> QED BY <1>2, <1>3, <1>7

LEMMA VariantsStep ==
  ASSUME VariantsInv, [VariantsNext]_variantVars
  PROVE  VariantsInv'
<1>1. CASE UNCHANGED variantVars
  <2>1. group' = group /\ observed' = observed /\ rows' = rows
    BY <1>1 DEF variantVars
  <2>2. \A k, types : LatestOf(Numbers(k, types))' = LatestOf(Numbers(k, types))
    BY <2>1 DEF LatestOf, Numbers
  <2>3. \A v \in Variants : /\ WellDeclared(v)' <=> WellDeclared(v)
                            /\ Declared(v)' = Declared(v) /\ Merged(v)' = Merged(v) /\ Siblings(v)' = Siblings(v)
    BY <2>1 DEF WellDeclared, Declared, Merged, Siblings
  <2>4. \A v \in Variants : RemovedWith(v)' = RemovedWith(v)
    BY <2>1 DEF RemovedWith, Declared, Siblings
  <2>5. ExclusiveVariants'
    <3> SUFFICES ASSUME NEW v \in Variants, NEW k \in VariantKeys, WellDeclared(v)'
                 PROVE  rows'[v][k] =
                          IF LatestOf(Numbers(k, Declared(v).entering))' > LatestOf(Numbers(k, RemovedWith(v)))'
                          THEN LatestOf(Numbers(k, Merged(v)))' ELSE 0
      BY DEF ExclusiveVariants, RemovedWith
    <3>1. rows[v][k] = IF LatestOf(Numbers(k, Declared(v).entering)) > LatestOf(Numbers(k, RemovedWith(v)))
                       THEN LatestOf(Numbers(k, Merged(v))) ELSE 0
      BY <2>3 DEF VariantsInv, ExclusiveVariants, RemovedWith
    <3>2. /\ LatestOf(Numbers(k, Declared(v).entering))' = LatestOf(Numbers(k, Declared(v).entering))
          /\ LatestOf(Numbers(k, RemovedWith(v)))' = LatestOf(Numbers(k, RemovedWith(v)))
          /\ LatestOf(Numbers(k, Merged(v)))' = LatestOf(Numbers(k, Merged(v)))
      BY <2>1 DEF LatestOf, Numbers, Declared, RemovedWith, Merged, Siblings
    <3> QED BY <2>1, <3>1, <3>2
  <2> QED BY <2>1, <2>5 DEF VariantsInv, VariantsTypeOK
<1> QED BY <1>1, ObserveStep DEF VariantsNext

\* For any declarations in which no event enters two variants, and any events: the row of a
\* variant exists from an event that entered it until one that entered a sibling or removed
\* it, and shows the last event mapped in it (reclassify and
\* crossWireGroups of VariantReclassifier.ts).
THEOREM VariantsAreExclusive == VariantsSpec => []ExclusiveVariants
<1>1. ASSUME VariantsInv, [VariantsNext]_variantVars PROVE VariantsInv'
  BY <1>1, VariantsStep
<1>2. VariantsInv => ExclusiveVariants
  BY DEF VariantsInv
<1> QED BY VariantsStart, <1>1, <1>2, PTL DEF VariantsSpec

\* The events and rows of the variants keep their types.
THEOREM VariantsTypeCorrect == VariantsSpec => []VariantsTypeOK
<1>1. ASSUME VariantsInv, [VariantsNext]_variantVars PROVE VariantsInv'
  BY <1>1, VariantsStep
<1>2. VariantsInv => VariantsTypeOK
  BY DEF VariantsInv
<1> QED BY VariantsStart, <1>1, <1>2, PTL DEF VariantsSpec

\* Of two siblings one has a row at the most.
OneVariant ==
  \A v \in Variants : \A w \in Siblings(v), k \in VariantKeys :
    WellDeclared(v) /\ WellDeclared(w) /\ rows[v][k] # 0 => rows[w][k] = 0

\* So for any key at most one of the variants that are siblings of each other has a row.
THEOREM OneVariantAtTheMost == VariantsSpec => []OneVariant
<1>1. ASSUME VariantsInv, [VariantsNext]_variantVars PROVE VariantsInv'
  BY <1>1, VariantsStep
<1>2. VariantsInv => OneVariant
  BY OneActive DEF OneVariant
<1> QED BY VariantsStart, <1>1, <1>2, PTL DEF VariantsSpec
=============================================================================
