-------------------------- MODULE Channels_proofs ---------------------------
(***************************************************************************)
(* Of a channel: what the verdicts of its contract check are about, for    *)
(* any number of servers, calls, channels and checks, with nothing assumed *)
(* of the constants; how the connections spread over the servers, for any  *)
(* finite set of selections under way; and what the access token that its  *)
(* calls share keeps for any number of calls, lifetimes, failures and      *)
(* rejections, however the clock goes.                                     *)
(***************************************************************************)
EXTENDS TokenProvider, Compatibility, ServerSelection, Integers, FiniteSetTheorems, TLAPS

-----------------------------------------------------------------------------
(* The contract check: the inductive invariant. *)

Channel == [server : Servers, open : BOOLEAN, verification : Nat]
Check == [channel : Nat, outcome : Outcomes]
Call == [pc : {"idle", "verifying", "sent", "refused", "failed"},
         channel : Nat, check : Nat, settled : BOOLEAN]

ContractTyped ==
  /\ channels \in Seq(Channel) /\ Current > 0
  /\ checks \in Seq(Check)
  /\ verified \in [CheckedCalls -> Call]

Supported(n) == channels[n].server \in compatible

\* The outcome of a check is about the server of its channel.
ChecksAreTrue ==
  \A k \in DOMAIN checks :
    /\ checks[k].channel \in DOMAIN channels
    /\ checks[k].outcome = "compatible" => Supported(checks[k].channel)
    /\ checks[k].outcome = "incompatible" => ~Supported(checks[k].channel)

\* A channel holds a check of its own that has not failed.
HeldIsOwn ==
  \A n \in DOMAIN channels :
    channels[n].verification # 0 =>
      /\ channels[n].verification \in DOMAIN checks
      /\ checks[channels[n].verification].channel = n
      /\ checks[channels[n].verification].outcome # "failed"

\* A call awaits a check of its channel; one that had settled had not failed.
AwaitsOwn ==
  \A c \in CheckedCalls :
    /\ verified[c].pc # "idle" => verified[c].channel \in DOMAIN channels
    /\ verified[c].pc = "verifying" =>
         /\ verified[c].check \in DOMAIN checks
         /\ checks[verified[c].check].channel = verified[c].channel
         /\ verified[c].settled => checks[verified[c].check].outcome \in {"compatible", "incompatible"}

ContractInv == ContractTyped /\ ChecksAreTrue /\ HeldIsOwn /\ AwaitsOwn /\ VerdictIsOfItsChannel

\* One element of a sequence is put in the place of another.
LEMMA Replaced ==
  ASSUME NEW S, NEW s \in Seq(S), NEW i \in DOMAIN s, NEW e \in S, NEW t, t = [s EXCEPT ![i] = e]
  PROVE  /\ t \in Seq(S) /\ Len(t) = Len(s) /\ DOMAIN t = DOMAIN s
         /\ t[i] = e /\ \A j \in DOMAIN s : j # i => t[j] = s[j]
OBVIOUS

LEMMA Elements ==
  ASSUME ContractTyped
  PROVE  /\ \A n \in DOMAIN channels : n \in Nat \ {0} /\ channels[n] \in Channel
         /\ \A k \in DOMAIN checks : k \in Nat \ {0} /\ checks[k] \in Check
         /\ Current \in DOMAIN channels
         /\ \A c \in CheckedCalls : verified[c] \in Call
BY DEF ContractTyped, Current

LEMMA ContractStart == ContractInit => ContractInv
<1> SUFFICES ASSUME ContractInit PROVE ContractInv
  OBVIOUS
<1>1. PICK s \in Servers : channels = <<NewChannelTo(s)>>
  BY DEF ContractInit
<1>2. NewChannelTo(s) \in Channel
  BY DEF NewChannelTo, Channel
<1>3. channels \in Seq(Channel) /\ Len(channels) = 1 /\ channels[1].verification = 0
  BY <1>1, <1>2 DEF NewChannelTo
<1>4. NoCall \in Call /\ NoCall.pc = "idle"
  BY DEF NoCall, Call
<1>5. checks \in Seq(Check) /\ DOMAIN checks = {}
  BY DEF ContractInit
<1>6. verified \in [CheckedCalls -> Call] /\ \A c \in CheckedCalls : verified[c].pc = "idle"
  BY <1>4 DEF ContractInit
<1>7. ContractTyped
  BY <1>3, <1>5, <1>6 DEF ContractTyped, Current
<1> QED BY <1>3, <1>5, <1>6, <1>7 DEF ContractInv, ChecksAreTrue, HeldIsOwn, AwaitsOwn, VerdictIsOfItsChannel

-----------------------------------------------------------------------------
(* The steps of the contract check. *)

LEMMA ResetStep ==
  ASSUME ContractInv, NEW s \in Servers, Reset(s)
  PROVE  ContractInv'
<1> DEFINE closed == [channels EXCEPT ![Current].open = FALSE]
<1>a. /\ channels \in Seq(Channel) /\ Current \in DOMAIN channels
      /\ channels[Current] \in Channel
  BY Elements DEF ContractInv, ContractTyped
<1>b. [channels[Current] EXCEPT !.open = FALSE] \in Channel
  BY <1>a DEF Channel
<1>1. /\ closed \in Seq(Channel) /\ Len(closed) = Len(channels)
      /\ closed[Current] = [channels[Current] EXCEPT !.open = FALSE]
      /\ \A n \in DOMAIN channels : n # Current => closed[n] = channels[n]
  BY <1>a, <1>b, Replaced
<1>2. NewChannelTo(s) \in Channel /\ NewChannelTo(s).verification = 0
  BY DEF NewChannelTo, Channel
<1>3. channels' = Append(closed, NewChannelTo(s))
  BY DEF Reset
<1>4. /\ channels' \in Seq(Channel) /\ Len(channels') = Len(channels) + 1
      /\ \A n \in DOMAIN channels : channels'[n] = closed[n]
      /\ channels'[Len(channels) + 1].verification = 0
  <2> HIDE DEF closed
  <2> QED BY <1>1, <1>2, <1>3 DEF ContractInv, ContractTyped
<1>5. \A n \in DOMAIN channels : /\ channels'[n].server = channels[n].server
                                 /\ channels'[n].verification = channels[n].verification
  BY <1>1, <1>4, <1>a, SMTT(30) DEF Channel
<1>6. DOMAIN channels \subseteq DOMAIN channels' /\ DOMAIN channels' = (DOMAIN channels) \cup {Len(channels) + 1}
  BY <1>4 DEF ContractInv, ContractTyped
<1>7. UNCHANGED <<compatible, checks, verified>>
  BY DEF Reset
<1>8. ContractTyped'
  BY <1>4, <1>7 DEF ContractInv, ContractTyped, Current
<1>9. ChecksAreTrue'
  BY <1>5, <1>6, <1>7 DEF ContractInv, ChecksAreTrue, Supported
<1>10. HeldIsOwn'
  BY <1>4, <1>5, <1>6, <1>7 DEF ContractInv, HeldIsOwn
<1>11. AwaitsOwn' /\ VerdictIsOfItsChannel'
  BY <1>5, <1>6, <1>7 DEF ContractInv, AwaitsOwn, VerdictIsOfItsChannel
<1> QED BY <1>8, <1>9, <1>10, <1>11 DEF ContractInv

\* A call joins a check of the current channel that is in the table, with what it
\* can know of its outcome.
LEMMA JoinStep ==
  ASSUME ContractInv, NEW c \in CheckedCalls, NEW k \in Nat, Joins(c, k), verified[c].pc # "verifying",
         ContractTyped', ChecksAreTrue', HeldIsOwn',
         DOMAIN channels' = DOMAIN channels, UNCHANGED compatible,
         \A n \in DOMAIN channels : channels'[n].server = channels[n].server,
         DOMAIN checks \subseteq DOMAIN checks', \A i \in DOMAIN checks : checks'[i] = checks[i],
         k \in DOMAIN checks', checks'[k].channel = Current,
         k <= Len(checks) => checks[k].outcome # "failed"
  PROVE  ContractInv'
<1>1. Current \in DOMAIN channels
  BY DEF ContractInv, ContractTyped, Current
<1>2. \A d \in CheckedCalls : d # c => verified'[d] = verified[d]
  BY DEF ContractInv, ContractTyped, Joins
<1>3. verified'[c] = [pc |-> "verifying", channel |-> Current, check |-> k,
                      settled |-> k <= Len(checks) /\ checks[k].outcome # "pending"]
  BY DEF ContractInv, ContractTyped, Joins
<1>4. verified'[c].settled => checks'[k].outcome \in {"compatible", "incompatible"}
  <2> DEFINE known == k <= Len(checks) /\ checks[k].outcome # "pending"
  <2>a. verified'[c] = [pc |-> "verifying", channel |-> Current, check |-> k, settled |-> known]
    BY <1>3
  <2> HIDE DEF known
  <2>0. verified'[c].settled = known
    BY <2>a
  <2>1. SUFFICES ASSUME k <= Len(checks), checks[k].outcome # "pending"
                 PROVE  checks'[k].outcome \in {"compatible", "incompatible"}
    BY <2>0 DEF known
  <2>2. k \in DOMAIN checks
    <3>1. k \in DOMAIN checks' /\ checks' \in Seq(Check) /\ checks \in Seq(Check)
      BY DEF ContractInv, ContractTyped
    <3> QED BY <2>1, <3>1
  <2>3. checks[k].outcome \in Outcomes
    BY <2>2, Elements DEF ContractInv, Check
  <2> QED BY <2>1, <2>2, <2>3 DEF Outcomes
<1>5. AwaitsOwn'
  <2> SUFFICES ASSUME NEW d \in CheckedCalls
               PROVE  /\ verified'[d].pc # "idle" => verified'[d].channel \in DOMAIN channels'
                      /\ verified'[d].pc = "verifying" =>
                           /\ verified'[d].check \in DOMAIN checks'
                           /\ checks'[verified'[d].check].channel = verified'[d].channel
                           /\ verified'[d].settled =>
                                checks'[verified'[d].check].outcome \in {"compatible", "incompatible"}
    BY DEF AwaitsOwn
  <2>1. CASE d = c
    BY <1>1, <1>3, <1>4, <2>1
  <2>2. CASE d # c
    BY <1>2, <2>2 DEF ContractInv, AwaitsOwn
  <2> QED BY <2>1, <2>2
<1>6. VerdictIsOfItsChannel'
  <2> SUFFICES ASSUME NEW d \in CheckedCalls
               PROVE  LET supported == channels'[verified'[d].channel].server \in compatible'
                      IN CASE verified'[d].pc = "sent" -> supported
                           [] verified'[d].pc = "refused" -> ~supported
                           [] verified'[d].pc = "failed" -> ~verified'[d].settled
                           [] OTHER -> TRUE
    BY DEF VerdictIsOfItsChannel
  <2>1. CASE d = c
    BY <1>3, <2>1
  <2>2. CASE d # c
    BY <1>2, <2>2 DEF ContractInv, AwaitsOwn, VerdictIsOfItsChannel
  <2> QED BY <2>1, <2>2
<1> QED BY <1>5, <1>6 DEF ContractInv

LEMMA VerifyStep ==
  ASSUME ContractInv, NEW c \in CheckedCalls, Verify(c)
  PROVE  ContractInv'
<1> DEFINE held == channels[Current].verification
<1>1. Current \in DOMAIN channels /\ channels[Current] \in Channel /\ held \in Nat
  BY Elements DEF ContractInv, Channel
<1>2. CASE held # 0 /\ Joins(c, held) /\ UNCHANGED <<channels, checks>>
  <2>1. held \in DOMAIN checks /\ checks[held].channel = Current /\ checks[held].outcome # "failed"
    BY <1>1, <1>2 DEF ContractInv, HeldIsOwn
  <2>2. UNCHANGED compatible
    BY DEF Verify
  <2>3. verified' \in [CheckedCalls -> Call]
    BY <1>1, <1>2 DEF ContractInv, ContractTyped, Joins, Call, Current
  <2>4. ContractTyped' /\ ChecksAreTrue' /\ HeldIsOwn'
    BY <1>2, <2>2, <2>3 DEF ContractInv, ContractTyped, ChecksAreTrue, HeldIsOwn, Supported, Current
  <2> QED BY <1>1, <1>2, <2>1, <2>2, <2>4, JoinStep DEF Verify
<1>3. CASE /\ held = 0
           /\ checks' = Append(checks, [channel |-> Current, outcome |-> "pending"])
           /\ channels' = [channels EXCEPT ![Current].verification = Len(checks')]
           /\ Joins(c, Len(checks'))
  <2> DEFINE k == Len(checks) + 1
  <2>1. [channel |-> Current, outcome |-> "pending"] \in Check
    BY DEF ContractInv, ContractTyped, Check, Current, Outcomes
  <2>2. /\ checks' \in Seq(Check) /\ Len(checks') = k /\ k \in Nat \ {0}
        /\ \A i \in DOMAIN checks : checks'[i] = checks[i]
        /\ checks'[k] = [channel |-> Current, outcome |-> "pending"]
        /\ DOMAIN checks' = (DOMAIN checks) \cup {k}
    BY <1>3, <2>1 DEF ContractInv, ContractTyped
  <2>3. /\ channels' \in Seq(Channel) /\ Len(channels') = Len(channels) /\ DOMAIN channels' = DOMAIN channels
        /\ \A n \in DOMAIN channels : channels'[n].server = channels[n].server
        /\ channels'[Current].verification = k
        /\ \A n \in DOMAIN channels : n # Current => channels'[n] = channels[n]
    <3>1. [channels[Current] EXCEPT !.verification = k] \in Channel
      BY <1>1, <2>2 DEF Channel
    <3>2. channels' = [channels EXCEPT ![Current] = [channels[Current] EXCEPT !.verification = k]]
      BY <1>3, <2>2
    <3>3. /\ channels' \in Seq(Channel) /\ Len(channels') = Len(channels) /\ DOMAIN channels' = DOMAIN channels
          /\ channels'[Current] = [channels[Current] EXCEPT !.verification = k]
          /\ \A n \in DOMAIN channels : n # Current => channels'[n] = channels[n]
      BY <1>1, <3>1, <3>2, Replaced DEF ContractInv, ContractTyped
    <3> QED BY <1>1, <3>3 DEF Channel
  <2>4. UNCHANGED compatible
    BY DEF Verify
  <2>5. verified' \in [CheckedCalls -> Call]
    <3>1. (k <= Len(checks) /\ checks[k].outcome # "pending") \in BOOLEAN
      OBVIOUS
    <3> QED BY <1>3, <2>2, <3>1 DEF ContractInv, ContractTyped, Joins, Call, Current
  <2>6. ContractTyped'
    BY <2>2, <2>3, <2>5 DEF ContractInv, ContractTyped, Current
  <2>7. ChecksAreTrue'
    BY <1>1, <2>2, <2>3, <2>4, SMTT(30) DEF ContractInv, ChecksAreTrue, Supported
  <2>8. HeldIsOwn'
    BY <1>1, <2>2, <2>3 DEF ContractInv, HeldIsOwn
  <2>9. k \in Nat /\ k \in DOMAIN checks' /\ checks'[k].channel = Current /\ ~(k <= Len(checks))
    BY <2>2 DEF ContractInv, ContractTyped
  <2>10. Joins(c, k) /\ verified[c].pc # "verifying"
    BY <1>3, <2>2 DEF Verify
  <2> HIDE DEF k
  <2> QED BY <2>2, <2>3, <2>4, <2>6, <2>7, <2>8, <2>9, <2>10, JoinStep
<1> QED BY <1>2, <1>3 DEF Verify

\* A check settles: its verdict is about its server, or it is cleared from its channel.
LEMMA SettleStep ==
  ASSUME ContractInv, NEW k \in DOMAIN checks, NEW outcome \in Outcomes \ {"pending"},
         checks[k].outcome = "pending",
         checks' = [checks EXCEPT ![k].outcome = outcome],
         outcome = "compatible" => Supported(checks[k].channel),
         outcome = "incompatible" => ~Supported(checks[k].channel),
         channels' \in Seq(Channel), Len(channels') = Len(channels),
         \A n \in DOMAIN channels :
           /\ channels'[n].server = channels[n].server
           /\ channels'[n].verification \in {0, channels[n].verification}
           /\ outcome = "failed" /\ channels[n].verification = k => channels'[n].verification = 0,
         UNCHANGED <<compatible, verified>>
  PROVE  ContractInv'
<1>1. /\ checks' \in Seq(Check) /\ Len(checks') = Len(checks) /\ DOMAIN checks' = DOMAIN checks
      /\ checks'[k].outcome = outcome
      /\ \A i \in DOMAIN checks : checks'[i].channel = checks[i].channel
      /\ \A i \in DOMAIN checks : i # k => checks'[i] = checks[i]
  <2>1. checks[k] \in Check /\ checks \in Seq(Check)
    BY Elements DEF ContractInv, ContractTyped
  <2>2. [checks[k] EXCEPT !.outcome = outcome] \in Check
    BY <2>1 DEF Check
  <2>3. /\ checks' \in Seq(Check) /\ Len(checks') = Len(checks) /\ DOMAIN checks' = DOMAIN checks
        /\ checks'[k] = [checks[k] EXCEPT !.outcome = outcome]
        /\ \A i \in DOMAIN checks : i # k => checks'[i] = checks[i]
    BY <2>1, <2>2, Replaced
  <2> QED BY <2>1, <2>3 DEF Check
<1>2. DOMAIN channels' = DOMAIN channels
  BY DEF ContractInv, ContractTyped
<1>3. ContractTyped'
  BY <1>1 DEF ContractInv, ContractTyped, Current
<1>4. ChecksAreTrue'
  BY <1>1, <1>2 DEF ContractInv, ChecksAreTrue, Supported
<1>5. HeldIsOwn'
  BY <1>1, <1>2 DEF ContractInv, HeldIsOwn
<1>6. AwaitsOwn'
  BY <1>1, <1>2 DEF ContractInv, AwaitsOwn
<1>7. VerdictIsOfItsChannel'
  BY DEF ContractInv, AwaitsOwn, VerdictIsOfItsChannel
<1> QED BY <1>3, <1>4, <1>5, <1>6, <1>7 DEF ContractInv

LEMMA AnsweredStep ==
  ASSUME ContractInv, NEW k \in DOMAIN checks, CheckAnswered(k)
  PROVE  ContractInv'
<1> DEFINE outcome == IF Supported(checks[k].channel) THEN "compatible" ELSE "incompatible"
<1>1. checks' = [checks EXCEPT ![k].outcome = outcome]
  BY DEF CheckAnswered, Supported
<1>2. /\ outcome \in Outcomes \ {"pending"} /\ outcome # "failed"
      /\ outcome = "compatible" => Supported(checks[k].channel)
      /\ outcome = "incompatible" => ~Supported(checks[k].channel)
  BY DEF Outcomes
<1> HIDE DEF outcome
<1> QED BY <1>1, <1>2, SettleStep DEF CheckAnswered, ContractInv, ContractTyped

LEMMA FailsStep ==
  ASSUME ContractInv, NEW k \in DOMAIN checks, CheckFails(k)
  PROVE  ContractInv'
<1> DEFINE n == checks[k].channel
<1>1. n \in DOMAIN channels /\ k # 0
  BY DEF ContractInv, ChecksAreTrue, ContractTyped
<1>2. channels' = [channels EXCEPT ![n].verification = IF @ = k THEN 0 ELSE @]
  BY DEF CheckFails, AfterFailure, Dropped
<1>3. \A m \in DOMAIN channels : channels[m].verification = k => m = n
  BY <1>1 DEF ContractInv, HeldIsOwn
<1> DEFINE cleared == [channels[n] EXCEPT !.verification = IF @ = k THEN 0 ELSE @]
<1>a. channels \in Seq(Channel) /\ channels[n] \in Channel
  BY <1>1, Elements DEF ContractInv, ContractTyped
<1>b. cleared \in Channel
  BY <1>a DEF Channel
<1>4. /\ channels' \in Seq(Channel) /\ Len(channels') = Len(channels)
      /\ channels'[n] = cleared /\ \A m \in DOMAIN channels : m # n => channels'[m] = channels[m]
  <2>1. channels' = [channels EXCEPT ![n] = cleared]
    BY <1>2
  <2> HIDE DEF cleared
  <2> QED BY <1>1, <1>a, <1>b, <2>1, Replaced
<1>5. \A m \in DOMAIN channels :
        /\ channels'[m].server = channels[m].server
        /\ channels'[m].verification \in {0, channels[m].verification}
        /\ channels[m].verification = k => channels'[m].verification = 0
  BY <1>3, <1>4, <1>a DEF Channel
<1>6. "failed" \in Outcomes \ {"pending"}
  BY DEF Outcomes
<1> QED BY <1>4, <1>5, <1>6, SettleStep DEF CheckFails

LEMMA ResumeStep ==
  ASSUME ContractInv, NEW c \in CheckedCalls, Resume(c)
  PROVE  ContractInv'
<1> DEFINE outcome == checks[verified[c].check].outcome
           next == CASE outcome = "compatible" -> "sent" [] outcome = "failed" -> "failed" [] OTHER -> "refused"
<1>1. verified' = [verified EXCEPT ![c].pc = next]
  BY DEF Resume
<1>2. /\ outcome \in Outcomes \ {"pending"}
      /\ verified[c].check \in DOMAIN checks
      /\ checks[verified[c].check].channel = verified[c].channel
      /\ verified[c].settled => outcome \in {"compatible", "incompatible"}
      /\ verified[c].channel \in DOMAIN channels
  <2>1. verified[c].pc = "verifying" /\ outcome # "pending"
    BY DEF Resume
  <2>2. verified[c].check \in DOMAIN checks
    BY <2>1 DEF ContractInv, AwaitsOwn
  <2>3. outcome \in Outcomes
    BY <2>2, Elements DEF ContractInv, Check
  <2> QED BY <2>1, <2>2, <2>3 DEF ContractInv, AwaitsOwn
<1>3. /\ next = "sent" => Supported(verified[c].channel)
      /\ next = "refused" => ~Supported(verified[c].channel)
      /\ next = "failed" => ~verified[c].settled
      /\ next \in {"sent", "refused", "failed"}
  <2>1. outcome \in {"compatible", "incompatible", "failed"}
    BY <1>2 DEF Outcomes
  <2> QED BY <1>2, <2>1 DEF ContractInv, ChecksAreTrue
<1> HIDE DEF next
<1>4. /\ verified' \in [CheckedCalls -> Call]
      /\ verified'[c] = [verified[c] EXCEPT !.pc = next]
      /\ \A d \in CheckedCalls : d # c => verified'[d] = verified[d]
  BY <1>1, <1>3 DEF ContractInv, ContractTyped, Call
<1>5. verified'[c].pc = next /\ verified'[c].channel = verified[c].channel /\ verified'[c].settled = verified[c].settled
  BY <1>4 DEF ContractInv, ContractTyped, Call
<1>6. UNCHANGED <<compatible, channels, checks>>
  BY DEF Resume
<1>7. ContractTyped' /\ ChecksAreTrue' /\ HeldIsOwn'
  BY <1>4, <1>6 DEF ContractInv, ContractTyped, Current, ChecksAreTrue, HeldIsOwn, Supported
<1>8. AwaitsOwn'
  BY <1>2, <1>3, <1>4, <1>5, <1>6, ZenonT(40) DEF ContractInv, AwaitsOwn
<1>9. VerdictIsOfItsChannel'
  <2> SUFFICES ASSUME NEW d \in CheckedCalls
               PROVE  LET supported == channels'[verified'[d].channel].server \in compatible'
                      IN CASE verified'[d].pc = "sent" -> supported
                           [] verified'[d].pc = "refused" -> ~supported
                           [] verified'[d].pc = "failed" -> ~verified'[d].settled
                           [] OTHER -> TRUE
    BY DEF VerdictIsOfItsChannel
  <2>1. CASE d = c
    BY <1>3, <1>5, <1>6, <2>1 DEF Supported
  <2>2. CASE d # c
    BY <1>4, <1>6, <2>2 DEF ContractInv, VerdictIsOfItsChannel
  <2> QED BY <2>1, <2>2
<1> QED BY <1>7, <1>8, <1>9 DEF ContractInv

LEMMA ContractStep ==
  ASSUME ContractInv, [ContractNext]_compatibilityVars
  PROVE  ContractInv'
<1>1. CASE UNCHANGED compatibilityVars
  BY <1>1 DEF compatibilityVars, ContractInv, ContractTyped, Current, ChecksAreTrue, Supported, HeldIsOwn, AwaitsOwn,
    VerdictIsOfItsChannel
<1> QED BY <1>1, ResetStep, VerifyStep, ResumeStep, AnsweredStep, FailsStep DEF ContractNext

\* A call of the event sequences or of connect() goes out, or is refused, by the
\* verdict on the server of the channel it uses, whatever channels and checks came
\* after it, and does not fail with a check that had failed before it came
\* (CompatibilityPreflight.verify and its middleware).
THEOREM VerdictsAreTrue == ContractSpec => []VerdictIsOfItsChannel
<1>1. ContractInv => VerdictIsOfItsChannel
  BY DEF ContractInv
<1> QED BY ContractStart, ContractStep, <1>1, PTL DEF ContractSpec

\* Channels, checks and calls keep their types, and the contract that a server
\* supports does not change (CompatibilityPreflight.ts).
THEOREM ContractTypeCorrect == ContractSpec => []CompatibilityTypeOK
<1> DEFINE Known == compatible \subseteq Servers
<1>1. ContractInit => Known
  BY DEF ContractInit
<1>2. [ContractNext]_compatibilityVars => compatible' = compatible
  BY DEF ContractNext, compatibilityVars, Reset, Verify, Resume, CheckAnswered, CheckFails
<1>3. Known /\ [ContractNext]_compatibilityVars => Known'
  BY <1>2
<1>4. ContractInv /\ Known => CompatibilityTypeOK
  BY DEF ContractInv, ContractTyped, CompatibilityTypeOK, Channel, Check, Call
<1> HIDE DEF Known
<1> QED BY ContractStart, ContractStep, <1>1, <1>3, <1>4, PTL DEF ContractSpec

-----------------------------------------------------------------------------
(* The spread of the connections. *)

\* A count that a selection has probed is not more than the server has by now.
CountsAreOld ==
  \A c \in Selectors, i \in Candidates :
    selection[c].counts[i] \in {NotProbed, Unreachable} \/ selection[c].counts[i] <= load[i]

\* No server has more connections than there were selections, without those under way.
Active == {c \in Selectors : selection[c].state # "idle"}
CountedOnce == \A i \in Candidates : load[i] + Cardinality(Active) <= selections

\* The selections that may still go to i while j has no more than n connections: they
\* have selected it, have counted at most n connections of it, or could not count j's.
Drawn(i, j, n) ==
  {c \in Selectors :
     \/ selection[c].state \in {"reserving", "connecting"} /\ selection[c].selected = i
     \/ /\ selection[c].state = "probing"
        /\ selection[c].counts[i] <= n \/ selection[c].counts[j] = Unreachable}

\* When i came to have more than n, each selection was drawn there at most once.
Outweighs(i, j) ==
  \A n \in Nat : load[j] <= n /\ n < load[i] =>
    load[i] - n + Cardinality(Drawn(i, j, n)) <= Cardinality(Selectors) + (MaxProbeFaults - probeFaults)

LeastSpread == \A i, j \in Candidates : Outweighs(i, j)

\* A round robin is on a round: the servers from the offset on were taken once more.
NextInTurn(b) == (b.startOffset + b.callCount) % CandidateCount
InRound(b, i) ==
  IF b.startOffset <= NextInTurn(b) THEN b.startOffset <= i /\ i < NextInTurn(b)
                                    ELSE b.startOffset <= i \/ i < NextInTurn(b)
OnARound(b) ==
  IF b.startOffset = NoOffset
  THEN b.callCount = 0 /\ \A i \in Candidates : b.taken[i] = 0
  ELSE \E n \in Nat : \A i \in Candidates : b.taken[i] = IF InRound(b, i) THEN n + 1 ELSE n
RoundsKept == \A r \in RoundRobins : OnARound(robin[r])

\* A round robin probes nothing.
ProbesNothing == balancer = "roundRobin" => \A c \in Selectors : selection[c].state = "idle"

SpreadTypes == SelectionTypeOK /\ CountsAreOld /\ CountedOnce /\ ProbesNothing
SpreadInv == SpreadTypes /\ LeastSpread /\ RoundsKept

\* The cardinality of a part of the selectors.
LEMMA Parts ==
  ASSUME IsFiniteSet(Selectors), NEW S \in SUBSET Selectors
  PROVE  /\ IsFiniteSet(S) /\ Cardinality(S) \in Nat /\ Cardinality(Selectors) \in Nat
         /\ Cardinality(S) <= Cardinality(Selectors)
         /\ \A T \in SUBSET S : Cardinality(T) <= Cardinality(S)
         /\ \A c \in S : \A T \in SUBSET (S \ {c}) : Cardinality(T) + 1 <= Cardinality(S)
         /\ \A c \in Selectors : \A T \in SUBSET (S \cup {c}) : Cardinality(T) <= Cardinality(S) + 1
<1>1. /\ IsFiniteSet(S) /\ Cardinality(S) \in Nat /\ Cardinality(Selectors) \in Nat
      /\ Cardinality(S) <= Cardinality(Selectors)
  BY FS_Subset, FS_CardinalityType
<1>2. ASSUME NEW T \in SUBSET S PROVE Cardinality(T) <= Cardinality(S)
  BY <1>1, FS_Subset
<1>3. ASSUME NEW c \in S, NEW T \in SUBSET (S \ {c}) PROVE Cardinality(T) + 1 <= Cardinality(S)
  <2>1. IsFiniteSet(S \ {c}) /\ Cardinality(S \ {c}) = Cardinality(S) - 1
    BY <1>1, FS_RemoveElement
  <2>2. Cardinality(T) <= Cardinality(S \ {c}) /\ Cardinality(T) \in Nat
    BY <2>1, FS_Subset, FS_CardinalityType
  <2> QED BY <1>1, <2>1, <2>2
<1>4. ASSUME NEW c \in Selectors, NEW T \in SUBSET (S \cup {c})
      PROVE  Cardinality(T) <= Cardinality(S) + 1
  <2>1. /\ IsFiniteSet(S \cup {c})
        /\ Cardinality(S \cup {c}) = IF c \in S THEN Cardinality(S) ELSE Cardinality(S) + 1
    BY <1>1, FS_AddElement
  <2>2. Cardinality(T) <= Cardinality(S \cup {c}) /\ Cardinality(T) \in Nat
    BY <2>1, FS_Subset, FS_CardinalityType
  <2> QED BY <1>1, <2>1, <2>2
<1> QED BY <1>1, <1>2, <1>3, <1>4

\* The marks of counts are none.
LEMMA Marks ==
  /\ MaxSelections \in Nat /\ CandidateCount \in Nat \ {0} /\ MaxProbeFaults \in Nat
  /\ Unreachable \in Nat /\ NotProbed \in Nat /\ MaxSelections < Unreachable /\ Unreachable < NotProbed
  /\ 0 \in Candidates /\ \A i \in Candidates : i \in Nat /\ i < CandidateCount
BY SelectionAssumption DEF Unreachable, NotProbed, Candidates

LEMMA SpreadInit ==
  ASSUME IsFiniteSet(Selectors), SelectionInit
  PROVE  SpreadInv
<1> USE SelectionAssumption, Marks
<1>1. Idle \in [state : {"idle", "probing", "reserving", "connecting"},
                counts : [Candidates -> 0..NotProbed], selected : Candidates]
  BY DEF Idle, NoCounts
<1>2. SelectionTypeOK
  <2>1. NewRobin \in Robins
    BY DEF NewRobin, Robins, NoOffset
  <2> QED BY <1>1, <2>1 DEF SelectionInit, SelectionTypeOK
<1>3. CountsAreOld
  BY DEF SelectionInit, CountsAreOld, Idle, NoCounts
<1>4. Active = {}
  BY DEF SelectionInit, Active, Idle
<1>5. CountedOnce
  BY <1>4, FS_EmptySet DEF CountedOnce, SelectionInit
<1>6. LeastSpread /\ RoundsKept
  BY DEF LeastSpread, Outweighs, RoundsKept, OnARound, NewRobin, SelectionInit
<1>7. ProbesNothing
  BY DEF ProbesNothing, SelectionInit, Idle
<1> QED BY <1>2, <1>3, <1>5, <1>6, <1>7 DEF SpreadInv, SpreadTypes

Selections == [state : {"idle", "probing", "reserving", "connecting"},
               counts : [Candidates -> 0..NotProbed], selected : Candidates]

LEMMA SelectionTypes ==
  ASSUME SpreadTypes
  PROVE  /\ \A c \in Selectors :
              /\ selection[c] \in Selections
              /\ selection[c].counts \in [Candidates -> 0..NotProbed] /\ selection[c].selected \in Candidates
         /\ \A i \in Candidates : load[i] \in Nat
         /\ selections \in Nat /\ selections <= MaxSelections
         /\ probeFaults \in Nat /\ probeFaults <= MaxProbeFaults
BY Marks DEF SpreadTypes, SelectionTypeOK, Selections

LEMMA NoneProbed ==
  /\ NoCounts \in [Candidates -> 0..NotProbed] /\ \A i \in Candidates : NoCounts[i] = NotProbed
  /\ Idle \in Selections
BY Marks DEF NoCounts, Idle, Selections

\* What a server has is bounded by the selections.
LEMMA Bounded ==
  ASSUME IsFiniteSet(Selectors), SpreadTypes
  PROVE  /\ \A i \in Candidates : load[i] <= selections
         /\ \A c \in Selectors, i \in Candidates : selection[c].state # "idle" => load[i] + 1 <= selections
<1>1. Active \in SUBSET Selectors
  BY DEF Active
<1>2. Cardinality(Active) \in Nat /\ \A c \in Active : 1 <= Cardinality(Active)
  <2>1. Cardinality(Active) \in Nat
    BY <1>1, Parts
  <2>2. ASSUME NEW c \in Active PROVE 1 <= Cardinality(Active)
    <3>1. {} \in SUBSET (Active \ {c}) /\ Cardinality({}) = 0
      BY FS_EmptySet
    <3>2. Cardinality({}) + 1 <= Cardinality(Active)
      BY <1>1, <3>1, Parts
    <3> QED BY <3>1, <3>2
  <2> QED BY <2>1, <2>2
<1>3. \A i \in Candidates : load[i] + Cardinality(Active) <= selections
  BY DEF SpreadTypes, CountedOnce
<1>4. \A i \in Candidates : load[i] <= selections
  BY <1>2, <1>3, SelectionTypes
<1>5. ASSUME NEW c \in Selectors, NEW i \in Candidates, selection[c].state # "idle"
      PROVE  load[i] + 1 <= selections
  <2>1. c \in Active
    BY <1>5 DEF Active
  <2> QED BY <1>2, <1>3, <2>1, SelectionTypes
<1> QED BY <1>4, <1>5

\* What leaves the round robins alone leaves them on their rounds.
LEMMA RobinsKept ==
  ASSUME RoundsKept, UNCHANGED robin
  PROVE  RoundsKept'
BY DEF RoundsKept, OnARound, InRound, NextInTurn

LEMMA SelectStep ==
  ASSUME IsFiniteSet(Selectors), SpreadInv, NEW c \in Selectors, Select(c)
  PROVE  SpreadInv'
<1> DEFINE new == [state |-> IF CandidateCount = 1 THEN "connecting" ELSE "probing",
                   counts |-> NoCounts, selected |-> 0]
<1>1. /\ SpreadTypes /\ LeastSpread /\ RoundsKept /\ selection[c].state = "idle" /\ selections < MaxSelections
      /\ balancer = "leastConnections" /\ selection' = [selection EXCEPT ![c] = new]
      /\ selections' = selections + 1 /\ UNCHANGED <<balancer, robin, load, probeFaults>>
  BY DEF SpreadInv, Select, OwnProbes
<1>2. new \in Selections /\ new.counts = NoCounts
  BY NoneProbed, Marks DEF Selections
<1>3. \A d \in Selectors : selection'[d] = IF d = c THEN new ELSE selection[d]
  BY <1>1 DEF SpreadTypes, SelectionTypeOK
<1> HIDE DEF new
<1>4. SelectionTypeOK'
  BY <1>1, <1>2, Marks DEF SpreadTypes, SelectionTypeOK, Selections
<1>5. CountsAreOld'
  BY <1>1, <1>2, <1>3, NoneProbed DEF SpreadTypes, CountsAreOld
<1>6. CountedOnce'
  <2>1. Active' \in SUBSET (Active \cup {c}) /\ Active \in SUBSET Selectors /\ Active' \in SUBSET Selectors
    BY <1>3 DEF Active
  <2>2. Cardinality(Active') <= Cardinality(Active) + 1 /\ Cardinality(Active) \in Nat /\ Cardinality(Active') \in Nat
    BY <2>1, Parts
  <2> QED BY <1>1, <2>2, SelectionTypes DEF SpreadTypes, CountedOnce
<1>7. ASSUME NEW i \in Candidates, NEW j \in Candidates PROVE Outweighs(i, j)'
  <2> SUFFICES ASSUME NEW n \in Nat, load[j] <= n, n < load[i]
               PROVE  load[i] - n + Cardinality(Drawn(i, j, n)')
                        <= Cardinality(Selectors) + (MaxProbeFaults - probeFaults)
    BY <1>1 DEF Outweighs
  <2>1. i # j /\ n < NotProbed
    BY <1>1, Marks, Bounded, SelectionTypes
  <2>2. CandidateCount # 1
    BY <2>1, Marks
  <2>3. new.state = "probing"
    BY <2>2 DEF new
  <2>4. Drawn(i, j, n)' \in SUBSET Drawn(i, j, n) /\ Drawn(i, j, n) \in SUBSET Selectors
    BY <1>2, <1>3, <2>1, <2>3, NoneProbed, Marks DEF Drawn
  <2>5. Cardinality(Drawn(i, j, n)') <= Cardinality(Drawn(i, j, n)) /\ Cardinality(Drawn(i, j, n)) \in Nat
        /\ Cardinality(Drawn(i, j, n)') \in Nat /\ Cardinality(Selectors) \in Nat
    BY <2>4, Parts
  <2>6. load[i] - n + Cardinality(Drawn(i, j, n)) <= Cardinality(Selectors) + (MaxProbeFaults - probeFaults)
    BY <1>1 DEF LeastSpread, Outweighs
  <2> QED BY <2>5, <2>6, <1>1, SelectionTypes, Marks
<1>8. LeastSpread' /\ RoundsKept' /\ ProbesNothing'
  BY <1>1, <1>7, RobinsKept DEF LeastSpread, ProbesNothing
<1> QED BY <1>4, <1>5, <1>6, <1>8 DEF SpreadInv, SpreadTypes

\* A connection is counted for a selection, which ends.
LEMMA CountedStep ==
  ASSUME IsFiniteSet(Selectors), SpreadInv, NEW c \in Selectors,
         selection[c].state \in {"reserving", "connecting"},
         load' = [load EXCEPT ![selection[c].selected] = @ + 1],
         selection' = [selection EXCEPT ![c] = Idle],
         UNCHANGED <<balancer, robin, selections, probeFaults>>
  PROVE  SpreadInv'
<1> DEFINE s == selection[c].selected
<1>1. /\ SpreadTypes /\ LeastSpread /\ RoundsKept /\ SelectionTypeOK /\ balancer = "leastConnections"
      /\ s \in Candidates /\ selection[c].state # "idle"
  BY SelectionTypes DEF SpreadInv, SpreadTypes, ProbesNothing, SelectionTypeOK
<1>2. \A d \in Selectors : selection'[d] = IF d = c THEN Idle ELSE selection[d]
  BY <1>1 DEF SelectionTypeOK
<1>3. \A i \in Candidates : load'[i] = IF i = s THEN load[i] + 1 ELSE load[i]
  BY <1>1 DEF SelectionTypeOK
<1> HIDE DEF s
<1>4. SelectionTypeOK'
  BY <1>1, <1>3, NoneProbed, SelectionTypes DEF SelectionTypeOK, Selections
<1>5. CountsAreOld'
  <2>1. \A d \in Selectors, i \in Candidates : selection[d].counts[i] \in Nat
    BY <1>1, SelectionTypes, Marks
  <2> QED BY <1>1, <1>2, <1>3, <2>1, NoneProbed, SelectionTypes DEF SpreadTypes, CountsAreOld, Idle
<1>6. CountedOnce'
  <2>1. Active' \in SUBSET (Active \ {c}) /\ c \in Active /\ Active \in SUBSET Selectors
        /\ Active' \in SUBSET Selectors
    BY <1>1, <1>2 DEF Active, Idle
  <2>2. Cardinality(Active') + 1 <= Cardinality(Active) /\ Cardinality(Active) \in Nat
        /\ Cardinality(Active') \in Nat
    BY <2>1, Parts
  <2> QED BY <1>1, <1>3, <2>2, SelectionTypes DEF SpreadTypes, CountedOnce
<1>7. ASSUME NEW i \in Candidates, NEW j \in Candidates PROVE Outweighs(i, j)'
  <2> SUFFICES ASSUME NEW n \in Nat, load'[j] <= n, n < load'[i]
               PROVE  load'[i] - n + Cardinality(Drawn(i, j, n)')
                        <= Cardinality(Selectors) + (MaxProbeFaults - probeFaults)
    BY DEF Outweighs
  <2>1. /\ load[i] \in Nat /\ load[j] \in Nat /\ load[j] <= n /\ i # j
        /\ probeFaults \in Nat /\ MaxProbeFaults \in Nat /\ probeFaults <= MaxProbeFaults
    BY <1>1, <1>3, SelectionTypes, Marks
  <2>2. /\ Drawn(i, j, n)' \in SUBSET (Drawn(i, j, n) \ {c}) /\ Drawn(i, j, n) \in SUBSET Selectors
        /\ Drawn(i, j, n)' \in SUBSET (Selectors \ {c}) /\ Drawn(i, j, n)' \in SUBSET Selectors
        /\ Drawn(i, j, n)' \in SUBSET Drawn(i, j, n)
    BY <1>2 DEF Drawn, Idle
  <2>3. /\ Cardinality(Drawn(i, j, n)) \in Nat /\ Cardinality(Drawn(i, j, n)') \in Nat
        /\ Cardinality(Selectors) \in Nat
        /\ Cardinality(Drawn(i, j, n)') <= Cardinality(Drawn(i, j, n))
    BY <2>2, Parts
  <2>4. n < load[i] =>
          load[i] - n + Cardinality(Drawn(i, j, n)) <= Cardinality(Selectors) + (MaxProbeFaults - probeFaults)
    BY <1>1, <2>1 DEF LeastSpread, Outweighs
  <2>5. CASE i # s
    BY <1>3, <2>1, <2>3, <2>4, <2>5
  <2>6. CASE i = s
    <3>1. load'[i] = load[i] + 1
      BY <1>3, <2>6
    <3>2. CASE n < load[i]
      <4>1. c \in Drawn(i, j, n)
        BY <2>6 DEF Drawn, s
      <4>2. Cardinality(Drawn(i, j, n)') + 1 <= Cardinality(Drawn(i, j, n))
        BY <2>2, <4>1, Parts
      <4> QED BY <2>1, <2>3, <2>4, <3>1, <3>2, <4>2
    <3>3. CASE n = load[i]
      <4>1. Selectors \in SUBSET Selectors
        OBVIOUS
      <4>2. Cardinality(Drawn(i, j, n)') + 1 <= Cardinality(Selectors)
        BY <2>2, <4>1, Parts
      <4> QED BY <2>1, <2>3, <3>1, <3>3, <4>2
    <3> QED BY <2>1, <3>1, <3>2, <3>3
  <2> QED BY <2>5, <2>6
<1>8. LeastSpread' /\ RoundsKept' /\ ProbesNothing'
  BY <1>1, <1>7, RobinsKept DEF LeastSpread, ProbesNothing
<1> QED BY <1>4, <1>5, <1>6, <1>8 DEF SpreadInv, SpreadTypes

\* A reservation fails before the server has counted it.
LEMMA NotReservedStep ==
  ASSUME IsFiniteSet(Selectors), SpreadInv, NEW c \in Selectors,
         selection[c].state = "reserving", probeFaults > 0, probeFaults' = probeFaults - 1,
         selection' = [selection EXCEPT ![c].state = "connecting"],
         UNCHANGED <<balancer, robin, load, selections>>
  PROVE  SpreadInv'
<1>1. SpreadTypes /\ LeastSpread /\ RoundsKept /\ SelectionTypeOK /\ balancer = "leastConnections"
  BY DEF SpreadInv, SpreadTypes, ProbesNothing, SelectionTypeOK
<1>2. /\ \A d \in Selectors : d # c => selection'[d] = selection[d]
      /\ selection'[c].state = "connecting" /\ selection'[c].selected = selection[c].selected
      /\ selection'[c].counts = selection[c].counts
  BY <1>1 DEF SelectionTypeOK
<1>3. SelectionTypeOK'
  <2>1. probeFaults' \in 0..MaxProbeFaults
    BY <1>1, SelectionTypes, Marks
  <2>2. [selection[c] EXCEPT !.state = "connecting"] \in Selections
    BY <1>1 DEF SelectionTypeOK, Selections
  <2>3. selection' \in [Selectors -> Selections]
    BY <1>1, <2>2 DEF SelectionTypeOK, Selections
  <2> QED BY <1>1, <2>1, <2>3 DEF SelectionTypeOK, Selections
<1>4. CountsAreOld'
  BY <1>1, <1>2 DEF SpreadTypes, CountsAreOld
<1>5. Active' = Active
  BY <1>2 DEF Active
<1>6. CountedOnce'
  BY <1>1, <1>5 DEF SpreadTypes, CountedOnce
<1>7. ASSUME NEW i \in Candidates, NEW j \in Candidates PROVE Outweighs(i, j)'
  <2> SUFFICES ASSUME NEW n \in Nat, load[j] <= n, n < load[i]
               PROVE  load[i] - n + Cardinality(Drawn(i, j, n)')
                        <= Cardinality(Selectors) + (MaxProbeFaults - probeFaults')
    BY DEF Outweighs
  <2>1. Drawn(i, j, n)' = Drawn(i, j, n) /\ Drawn(i, j, n) \in SUBSET Selectors
    BY <1>2 DEF Drawn
  <2>2. Cardinality(Drawn(i, j, n)) \in Nat /\ Cardinality(Selectors) \in Nat
    BY <2>1, Parts
  <2>3. load[i] - n + Cardinality(Drawn(i, j, n)) <= Cardinality(Selectors) + (MaxProbeFaults - probeFaults)
    BY <1>1 DEF LeastSpread, Outweighs
  <2> QED BY <1>1, <2>1, <2>2, <2>3, SelectionTypes, Marks
<1>8. LeastSpread' /\ RoundsKept' /\ ProbesNothing'
  BY <1>1, <1>7, RobinsKept DEF LeastSpread, ProbesNothing
<1> QED BY <1>3, <1>4, <1>6, <1>8 DEF SpreadInv, SpreadTypes

\* The answer of a server, or none, is counted, and with the last of them one of the
\* servers is selected.
LEMMA ProbedStep ==
  ASSUME IsFiniteSet(Selectors), SpreadInv, NEW c \in Selectors, NEW k \in Candidates, Probed(c, k)
  PROVE  SpreadInv'
<1>1. /\ SpreadTypes /\ LeastSpread /\ RoundsKept /\ SelectionTypeOK /\ balancer = "leastConnections"
      /\ selection[c].state = "probing" /\ selection[c].counts[k] = NotProbed
      /\ UNCHANGED <<balancer, robin, load, selections>>
  BY DEF SpreadInv, SpreadTypes, ProbesNothing, SelectionTypeOK, Probed
<1>2. PICK count \in {load[k], Unreachable} :
        /\ count = Unreachable => probeFaults > 0
        /\ probeFaults' = IF count = Unreachable THEN probeFaults - 1 ELSE probeFaults
        /\ \E next \in Chosen([selection[c].counts EXCEPT ![k] = count]) :
             selection' = [selection EXCEPT ![c] = next]
  BY DEF Probed
<1> DEFINE counts == [selection[c].counts EXCEPT ![k] = count]
<1>3. PICK next \in Chosen(counts) : selection' = [selection EXCEPT ![c] = next]
  BY <1>2
<1>4. /\ load[k] \in Nat /\ load[k] < Unreachable /\ count \in 0..NotProbed
      /\ \A i \in Candidates : load[i] \in Nat /\ load[i] < Unreachable
      /\ probeFaults \in Nat /\ MaxProbeFaults \in Nat /\ probeFaults <= MaxProbeFaults
  BY <1>1, <1>2, Bounded, SelectionTypes, Marks
<1>5. /\ counts \in [Candidates -> 0..NotProbed]
      /\ \A i \in Candidates : counts[i] = IF i = k THEN count ELSE selection[c].counts[i]
  BY <1>1, <1>4, SelectionTypes
<1> HIDE DEF counts
<1>6. \/ next = [state |-> "probing", counts |-> counts, selected |-> 0]
      \/ /\ next = [state |-> "reserving", counts |-> NoCounts, selected |-> next.selected]
         /\ next.selected \in Candidates
         /\ \A j \in Candidates : counts[next.selected] <= counts[j] /\ counts[j] # NotProbed
  BY <1>3 DEF Chosen, LeastLoaded
<1>7. next \in Selections
  BY <1>5, <1>6, NoneProbed, Marks DEF Selections
<1>8. \A d \in Selectors : selection'[d] = IF d = c THEN next ELSE selection[d]
  BY <1>1, <1>3 DEF SelectionTypeOK
<1>9. SelectionTypeOK'
  BY <1>1, <1>2, <1>3, <1>4, <1>7 DEF SelectionTypeOK, Selections
<1>10. \A i \in Candidates : counts[i] \in {NotProbed, Unreachable} \/ counts[i] <= load[i]
  BY <1>1, <1>2, <1>4, <1>5 DEF SpreadTypes, CountsAreOld
<1>11. CountsAreOld'
  BY <1>1, <1>6, <1>8, <1>10, NoneProbed DEF SpreadTypes, CountsAreOld
<1>12. CountedOnce'
  <2>1. Active' = Active
    BY <1>1, <1>6, <1>8 DEF Active
  <2> QED BY <1>1, <2>1 DEF SpreadTypes, CountedOnce
<1>13. ASSUME NEW i \in Candidates, NEW j \in Candidates PROVE Outweighs(i, j)'
  <2> SUFFICES ASSUME NEW n \in Nat, load[j] <= n, n < load[i]
               PROVE  load[i] - n + Cardinality(Drawn(i, j, n)')
                        <= Cardinality(Selectors) + (MaxProbeFaults - probeFaults')
    BY <1>1 DEF Outweighs
  <2>1. n < Unreachable /\ n < NotProbed /\ i # j
    BY <1>4, Marks
  <2>2. /\ Drawn(i, j, n)' \in SUBSET (Drawn(i, j, n) \cup {c}) /\ Drawn(i, j, n) \in SUBSET Selectors
        /\ Drawn(i, j, n)' \in SUBSET Selectors
    BY <1>8 DEF Drawn
  <2>3. /\ Cardinality(Drawn(i, j, n)) \in Nat /\ Cardinality(Drawn(i, j, n)') \in Nat
        /\ Cardinality(Selectors) \in Nat
        /\ Cardinality(Drawn(i, j, n)') <= Cardinality(Drawn(i, j, n)) + 1
    BY <2>2, Parts
  <2>4. load[i] - n + Cardinality(Drawn(i, j, n)) <= Cardinality(Selectors) + (MaxProbeFaults - probeFaults)
    BY <1>1 DEF LeastSpread, Outweighs
  <2>5. CASE count = Unreachable
    BY <1>2, <1>4, <2>3, <2>4, <2>5
  <2>6. CASE count # Unreachable
    <3>1. count = load[k] /\ probeFaults' = probeFaults
      BY <1>2, <2>6
    <3>2. ASSUME c \in Drawn(i, j, n)' PROVE c \in Drawn(i, j, n)
      <4>1. counts[i] <= n \/ counts[j] = Unreachable
        <5>1. CASE next = [state |-> "probing", counts |-> counts, selected |-> 0]
          BY <1>8, <3>2, <5>1 DEF Drawn
        <5>2. CASE next.state = "reserving" /\ \A l \in Candidates : counts[next.selected] <= counts[l] /\ counts[l] # NotProbed
          <6>1. next.selected = i
            BY <1>8, <3>2, <5>2 DEF Drawn
          <6>2. counts[i] <= counts[j] /\ counts[j] # NotProbed
            BY <5>2, <6>1
          <6>3. counts[j] = Unreachable \/ counts[j] <= load[j]
            BY <1>10, <6>2
          <6> QED BY <1>4, <1>5, <6>2, <6>3
        <5> QED BY <1>6, <5>1, <5>2
      <4>2. CASE counts[i] <= n
        <5>1. i # k
          BY <1>5, <3>1, <4>2
        <5> QED BY <1>1, <1>5, <4>2, <5>1 DEF Drawn
      <4>3. CASE counts[j] = Unreachable
        <5>1. j # k
          BY <1>5, <2>6, <4>3
        <5> QED BY <1>1, <1>5, <4>3, <5>1 DEF Drawn
      <4> QED BY <4>1, <4>2, <4>3
    <3>3. Drawn(i, j, n)' \in SUBSET Drawn(i, j, n)
      BY <2>2, <3>2
    <3>4. Cardinality(Drawn(i, j, n)') <= Cardinality(Drawn(i, j, n))
      BY <2>2, <3>3, Parts
    <3> QED BY <1>4, <2>3, <2>4, <3>1, <3>4
  <2> QED BY <2>5, <2>6
<1>14. LeastSpread' /\ RoundsKept' /\ ProbesNothing'
  BY <1>1, <1>13, RobinsKept DEF LeastSpread, ProbesNothing
<1> QED BY <1>9, <1>11, <1>12, <1>14 DEF SpreadInv, SpreadTypes

\* Division with a remainder, of which there is one.
LEMMA Division ==
  ASSUME NEW d \in Nat \ {0}, NEW a \in Nat
  PROVE  /\ a \div d \in Nat /\ a % d \in Nat /\ a % d < d
         /\ a = d * (a \div d) + (a % d)
OBVIOUS

LEMMA LargerQuotient ==
  ASSUME NEW d \in Nat \ {0}, NEW p \in Nat, NEW q \in Nat, p > q
  PROVE  d * p >= d * q + d /\ d * p \in Nat /\ d * q \in Nat
<1>1. PICK r \in Nat : p = q + 1 + r
  <2>1. p - q - 1 \in Nat /\ p = q + 1 + (p - q - 1)
    OBVIOUS
  <2> QED BY <2>1
<1>2. d * p = d * q + d + d * r
  BY <1>1
<1>3. d * r \in Nat /\ d * q \in Nat /\ d * p \in Nat
  OBVIOUS
<1> QED BY <1>2, <1>3

LEMMA OneRemainder ==
  ASSUME NEW d \in Nat \ {0}, NEW q \in Nat, NEW r \in Nat, r < d
  PROVE  (d * q + r) % d = r
<1> DEFINE a == d * q + r
           p == a \div d
           s == a % d
<1>1. a \in Nat
  OBVIOUS
<1>2. p \in Nat /\ s \in Nat /\ s < d /\ a = d * p + s
  BY <1>1, Division
<1>3. d * q \in Nat /\ d * q + r = d * p + s
  BY <1>2
<1> HIDE DEF a, p, s
<1>4. ~(p > q)
  BY <1>2, <1>3, LargerQuotient
<1>5. ~(q > p)
  BY <1>2, <1>3, LargerQuotient
<1>6. p = q
  BY <1>2, <1>4, <1>5
<1>7. s = r
  BY <1>2, <1>3, <1>6
<1> QED BY <1>7 DEF a, s

\* The next in turn.
LEMMA InTurn ==
  ASSUME NEW d \in Nat \ {0}, NEW a \in Nat
  PROVE  /\ a % d \in 0..(d - 1)
         /\ a < d => a % d = a
         /\ (a + 1) % d = IF (a % d) + 1 = d THEN 0 ELSE (a % d) + 1
<1> DEFINE q == a \div d
           r == a % d
<1>1. q \in Nat /\ r \in Nat /\ r < d /\ a = d * q + r
  BY Division
<1> HIDE DEF q, r
<1>2. ASSUME a < d PROVE a % d = a
  <2>1. d * 0 + a = a
    OBVIOUS
  <2>2. (d * 0 + a) % d = a
    BY <1>2, OneRemainder
  <2> QED BY <2>1, <2>2
<1>3. CASE r + 1 = d
  <2>1. a + 1 = d * (q + 1) + 0
    BY <1>1, <1>3
  <2>2. (d * (q + 1) + 0) % d = 0
    BY <1>1, OneRemainder
  <2> QED BY <1>1, <1>2, <1>3, <2>1, <2>2 DEF r
<1>4. CASE r + 1 # d
  <2>1. a + 1 = d * q + (r + 1) /\ r + 1 \in Nat /\ r + 1 < d
    BY <1>1, <1>4
  <2>2. (d * q + (r + 1)) % d = r + 1
    BY <1>1, <2>1, OneRemainder
  <2> QED BY <1>1, <1>2, <1>4, <2>1, <2>2 DEF r
<1> QED BY <1>3, <1>4

LEMMA AddsOne ==
  ASSUME NEW x \in Nat, NEW y \in Nat
  PROVE  x + y \in Nat /\ x + (y + 1) = (x + y) + 1 /\ x + 0 = x
OBVIOUS

\* What a selection makes of a round robin.
LEMMA RobinTurns ==
  ASSUME NEW b \in Robins, OnARound(b), NEW offset \in Offsets(b)
  PROVE  Turned(b, offset) \in Robins /\ OnARound(Turned(b, offset))
<1>1. PICK n \in Nat, taken \in [Candidates -> Nat] : n = b.callCount /\ taken = b.taken
  BY DEF Robins
<1>2. offset \in Candidates /\ offset \in Nat /\ offset # NoOffset /\ offset < CandidateCount
  BY Marks DEF Robins, Offsets, OffsetsOnce, NoOffset, Candidates
<1>3. offset + n \in Nat /\ offset + (n + 1) = (offset + n) + 1 /\ offset + 0 = offset
  BY <1>2, AddsOne
<1>4. PICK at \in Candidates :
        /\ at = (offset + n) % CandidateCount
        /\ (offset + (n + 1)) % CandidateCount = IF at + 1 = CandidateCount THEN 0 ELSE at + 1
  <2>1. PICK a \in Nat : a = offset + n /\ offset + (n + 1) = a + 1
    BY <1>3
  <2>2. /\ a % CandidateCount \in 0..(CandidateCount - 1)
        /\ (a + 1) % CandidateCount = IF (a % CandidateCount) + 1 = CandidateCount THEN 0 ELSE (a % CandidateCount) + 1
    BY InTurn, Marks
  <2> QED BY <2>1, <2>2, Zenon DEF Candidates
<1>5. PICK c \in Robins : /\ c = Turned(b, offset) /\ c.startOffset = offset /\ c.callCount = n + 1
                          /\ c.taken = [taken EXCEPT ![at] = taken[at] + 1]
  <2> DEFINE c == [startOffset |-> offset, callCount |-> n + 1, taken |-> [taken EXCEPT ![at] = taken[at] + 1]]
  <2>1. c \in Robins
    <3>1. offset \in 0..NoOffset
      BY <1>2, Marks DEF NoOffset
    <3>2. [taken EXCEPT ![at] = taken[at] + 1] \in [Candidates -> Nat]
      OBVIOUS
    <3> QED BY <3>1, <3>2 DEF Robins
  <2>2. c = Turned(b, offset)
    <3>1. (offset + b.callCount) % CandidateCount = at
      BY <1>1, <1>4, Zenon
    <3> QED BY <1>1, <3>1, Zenon DEF Turned
  <2> QED BY <2>1, <2>2
<1>6. \A i \in Candidates : c.taken[i] = IF i = at THEN taken[i] + 1 ELSE taken[i]
  BY <1>5
<1> DEFINE Had(i) == IF offset <= at THEN offset <= i /\ i < at ELSE offset <= i \/ i < at
<1>7. PICK k \in Nat : \A i \in Candidates : taken[i] = IF Had(i) THEN k + 1 ELSE k
  <2>1. CASE b.startOffset = NoOffset
    <3>1. n = 0 /\ \A i \in Candidates : taken[i] = 0
      BY <1>1, <2>1 DEF OnARound
    <3>2. offset + n = offset
      BY <1>3, <3>1, Zenon
    <3>3. offset % CandidateCount = offset
      BY <1>2, InTurn, Marks
    <3>4. at = offset
      BY <1>4, <3>2, <3>3, Zenon
    <3> QED BY <1>2, <3>1, <3>4, Marks
  <2>2. CASE b.startOffset # NoOffset
    <3>1. b.startOffset = offset
      BY <2>2 DEF Offsets, OffsetsOnce
    <3>2. NextInTurn(b) = at
      BY <1>1, <1>4, <3>1, Zenon DEF NextInTurn
    <3>3. \A i \in Candidates : InRound(b, i) <=> Had(i)
      BY <3>1, <3>2 DEF InRound
    <3> QED BY <1>1, <2>2, <3>3 DEF OnARound
  <2> QED BY <2>1, <2>2
<1>8. PICK next \in Nat : next = NextInTurn(c) /\ next = IF at + 1 = CandidateCount THEN 0 ELSE at + 1
  <2>1. NextInTurn(c) = (offset + (n + 1)) % CandidateCount
    BY <1>5, Zenon DEF NextInTurn
  <2>2. (IF at + 1 = CandidateCount THEN 0 ELSE at + 1) \in Nat
    BY Marks
  <2> QED BY <1>4, <2>1, <2>2, Zenon
<1>9. \A i \in Candidates : InRound(c, i) <=> IF offset <= next THEN offset <= i /\ i < next ELSE offset <= i \/ i < next
  BY <1>5, <1>8 DEF InRound
<1>10. ~Had(at)
  BY <1>2, Marks
<1>11. c.startOffset # NoOffset
  BY <1>2, <1>5
<1>12. CASE next = offset
  <2>1. \A i \in Candidates : ~InRound(c, i)
    BY <1>2, <1>9, <1>12, Marks
  <2>2. \A i \in Candidates : i # at => Had(i)
    BY <1>2, <1>8, <1>12, Marks
  <2>3. \A i \in Candidates : c.taken[i] = k + 1
    BY <1>6, <1>7, <1>10, <2>2
  <2>4. k + 1 \in Nat
    OBVIOUS
  <2> QED BY <1>5, <1>11, <2>1, <2>3, <2>4 DEF OnARound
<1>13. CASE next # offset
  <2>1. \A i \in Candidates : InRound(c, i) <=> Had(i) \/ i = at
    BY <1>2, <1>8, <1>9, <1>13, Marks
  <2>2. \A i \in Candidates : c.taken[i] = IF InRound(c, i) THEN k + 1 ELSE k
    BY <1>6, <1>7, <1>10, <2>1
  <2> QED BY <1>5, <1>11, <2>2 DEF OnARound
<1> QED BY <1>12, <1>13

LEMMA TakesNextStep ==
  ASSUME IsFiniteSet(Selectors), SpreadInv, NEW r \in RoundRobins, TakesNext(r)
  PROVE  SpreadInv'
<1>1. /\ SpreadTypes /\ LeastSpread /\ RoundsKept /\ SelectionTypeOK /\ balancer = "roundRobin"
      /\ selections < MaxSelections /\ selections' = selections + 1
      /\ UNCHANGED <<balancer, selection, load, probeFaults>>
  BY DEF SpreadInv, SpreadTypes, TakesNext
<1>2. PICK offset \in Offsets(robin[r]) : robin' = [robin EXCEPT ![r] = Turned(robin[r], offset)]
  BY DEF TakesNext
<1>3. Turned(robin[r], offset) \in Robins /\ OnARound(Turned(robin[r], offset))
  BY <1>1, RobinTurns DEF SelectionTypeOK, RoundsKept
<1>4. \A q \in RoundRobins : robin'[q] \in Robins /\ OnARound(robin'[q])
  BY <1>1, <1>2, <1>3 DEF SelectionTypeOK, RoundsKept
<1>5. SelectionTypeOK'
  <2>1. selections' \in 0..MaxSelections
    BY <1>1, SelectionTypes, Marks
  <2>2. robin' \in [RoundRobins -> Robins]
    BY <1>1, <1>2, <1>3 DEF SelectionTypeOK
  <2> QED BY <1>1, <2>1, <2>2 DEF SelectionTypeOK
<1>6. CountsAreOld' /\ ProbesNothing'
  BY <1>1, SelectionTypes, Marks DEF SpreadTypes, CountsAreOld, ProbesNothing
<1>7. CountedOnce'
  <2>1. Active' = {} /\ Active = {}
    BY <1>1 DEF SpreadTypes, ProbesNothing, Active
  <2> QED BY <1>1, <2>1, FS_EmptySet, SelectionTypes DEF SpreadTypes, CountedOnce
<1>8. RoundsKept'
  BY <1>4 DEF RoundsKept, OnARound, InRound, NextInTurn
<1>9. LeastSpread'
  BY <1>1 DEF LeastSpread, Outweighs, Drawn
<1> QED BY <1>5, <1>6, <1>7, <1>8, <1>9 DEF SpreadInv, SpreadTypes

LEMMA SpreadStep ==
  ASSUME IsFiniteSet(Selectors), SpreadInv, [SelectionNext]_selectionVars
  PROVE  SpreadInv'
<1>1. ASSUME NEW r \in RoundRobins, TakesNext(r) PROVE SpreadInv'
  BY <1>1, TakesNextStep
<1>2. ASSUME NEW c \in Selectors, Select(c) PROVE SpreadInv'
  BY <1>2, SelectStep
<1>3. ASSUME NEW c \in Selectors, Reserve(c) PROVE SpreadInv'
  BY <1>3, CountedStep, NotReservedStep DEF Reserve
<1>4. ASSUME NEW c \in Selectors, Connects(c) PROVE SpreadInv'
  BY <1>4, CountedStep DEF Connects
<1>5. ASSUME NEW c \in Selectors, NEW i \in Candidates, Probed(c, i) PROVE SpreadInv'
  BY <1>5, ProbedStep
<1>6. CASE UNCHANGED selectionVars
  <2>1. UNCHANGED <<balancer, selection, robin, load, selections, probeFaults>>
    BY <1>6 DEF selectionVars
  <2>2. SelectionTypeOK'
    BY <2>1 DEF SpreadInv, SpreadTypes, SelectionTypeOK
  <2>3. CountsAreOld' /\ CountedOnce' /\ ProbesNothing'
    BY <2>1 DEF SpreadInv, SpreadTypes, CountsAreOld, CountedOnce, Active, ProbesNothing
  <2>4. LeastSpread'
    BY <2>1 DEF SpreadInv, LeastSpread, Outweighs, Drawn
  <2>5. RoundsKept'
    BY <2>1, RobinsKept DEF SpreadInv
  <2> QED BY <2>2, <2>3, <2>4, <2>5 DEF SpreadInv, SpreadTypes
<1> QED BY <1>1, <1>2, <1>3, <1>4, <1>5, <1>6 DEF SelectionNext

\* Whatever selections overlap, and however many servers there are, the connections of
\* clients that look for the least differ by no more than the selections under way at a
\* time and the probes that failed; those of one round robin by one, however many clients
\* have theirs (LeastConnectionsLoadBalancerStrategy.select and
\* RoundRobinLoadBalancerStrategy.select).
THEOREM SpreadsConnections ==
  ASSUME IsFiniteSet(Selectors)
  PROVE  SelectionSpec => []ConnectionsSpread
<1>1. SpreadInv => ConnectionsSpread
  <2> SUFFICES ASSUME SpreadInv, NEW i \in Candidates, NEW j \in Candidates
               PROVE  /\ load[i] <= load[j] + Cardinality(Selectors) + (MaxProbeFaults - probeFaults)
                      /\ \A r \in RoundRobins : robin[r].taken[i] <= robin[r].taken[j] + 1
    BY DEF ConnectionsSpread
  <2>1. /\ load[i] \in Nat /\ load[j] \in Nat
        /\ Cardinality(Selectors) \in Nat /\ MaxProbeFaults - probeFaults \in Nat
    BY SelectionTypes, Marks, FS_CardinalityType DEF SpreadInv, SpreadTypes, SelectionTypeOK
  <2>2. ASSUME NEW r \in RoundRobins PROVE robin[r].taken[i] <= robin[r].taken[j] + 1
    <3>1. OnARound(robin[r])
      BY DEF SpreadInv, RoundsKept
    <3> QED BY <3>1 DEF OnARound
  <2>3. CASE load[j] < load[i]
    <3>1. Drawn(i, j, load[j]) \in SUBSET Selectors
      BY DEF Drawn
    <3>2. Cardinality(Drawn(i, j, load[j])) \in Nat
      BY <3>1, Parts
    <3>3. load[i] - load[j] + Cardinality(Drawn(i, j, load[j]))
            <= Cardinality(Selectors) + (MaxProbeFaults - probeFaults)
      BY <2>1, <2>3 DEF SpreadInv, LeastSpread, Outweighs
    <3> QED BY <2>1, <2>2, <2>3, <3>2, <3>3
  <2>4. CASE load[i] <= load[j]
    BY <2>1, <2>2, <2>4
  <2> QED BY <2>1, <2>3, <2>4
<1>2. SelectionInit => SpreadInv
  BY SpreadInit
<1>3. SpreadInv /\ [SelectionNext]_selectionVars => SpreadInv'
  BY SpreadStep
<1> QED BY <1>1, <1>2, <1>3, PTL DEF SelectionSpec

\* Selections, their counts and the round robin keep their types, and the bounds of the
\* selections and of the probes that fail are kept.
THEOREM SelectionTypeCorrect ==
  ASSUME IsFiniteSet(Selectors)
  PROVE  SelectionSpec => []SelectionTypeOK
<1>1. SpreadInv => SelectionTypeOK
  BY DEF SpreadInv, SpreadTypes
<1>2. SelectionInit => SpreadInv
  BY SpreadInit
<1>3. SpreadInv /\ [SelectionNext]_selectionVars => SpreadInv'
  BY SpreadStep
<1> QED BY <1>1, <1>2, <1>3, PTL DEF SelectionSpec

-----------------------------------------------------------------------------
(* The access token: the inductive invariant. *)

\* Tokens are numbered as they are issued.
TokensNumbered == cache.token <= issued /\ \A c \in Calls : used[c] <= issued

\* While a call waits for another token than the one that was rejected, nothing
\* is cached that it could be given back.
NothingToGiveBack == \A c \in Calls : pc[c] = "refreshing" => cache.token = NoToken

TokenInv == TypeOK /\ OneRequestAtATime /\ TokensNumbered /\ NothingToGiveBack

\* The part of the types that the steps of a call change.
CallStates == {"idle", "acquiring", "sent", "refreshing", "resent"}
CacheState == [token : Nat, expiresAt : Nat, lastFailed : Nat \cup {Never},
               failure : {"none", "error", "rejected"}]

-----------------------------------------------------------------------------
(* The operators of the token model. *)

LEMMA EmptyCache == Empty \in CacheState /\ ~Fresh(Empty) /\ ~Throttled(Empty) /\ Cleared(cache) = Empty
BY DEF Empty, CacheState, Fresh, Throttled, NoToken, Cleared

LEMMA CachedToken ==
  ASSUME NEW known \in CacheState
  PROVE  /\ CachedWhileValid(known) \in {NoToken, known.token}
         /\ CachedWhileValid(known) # NoToken => now < known.expiresAt
BY DEF CachedWhileValid

\* A call gets the cached token, nothing, or waits for the request under way.
LEMMA Acquiring ==
  ASSUME TokenInv, NEW c \in Calls, NEW known \in CacheState, NEW waiting \in CallStates,
         NEW going \in CallStates, GetAccessToken(c, known, waiting, going)
  PROVE  /\ cache' = known
         /\ flight' \in BOOLEAN /\ requests' = IF flight' THEN 1 ELSE 0
         /\ flight => flight'
         /\ \A d \in Calls \ {c} : pc'[d] = pc[d] /\ used'[d] = used[d]
         /\ pc' \in [Calls -> CallStates] /\ used' \in [Calls -> Nat]
         /\ \/ pc'[c] = waiting /\ used'[c] = used[c] /\ flight'
            \/ /\ pc'[c] = going /\ (Fresh(known) \/ Throttled(known))
               /\ used'[c] \in {NoToken, known.token}
               /\ used'[c] # NoToken => now < known.expiresAt
<1> USE DEF TokenInv, TypeOK, OneRequestAtATime, CallStates
<1>1. cache' = known
  BY DEF GetAccessToken
<1>2. CASE Fresh(known)
  <2>1. /\ pc' = [pc EXCEPT ![c] = going] /\ used' = [used EXCEPT ![c] = known.token]
        /\ UNCHANGED <<flight, requests>>
    BY <1>2 DEF GetAccessToken
  <2>2. known.token \in Nat /\ now < known.expiresAt
    BY <1>2, TokenProviderAssumption DEF Fresh, CacheState
  <2> QED BY <1>1, <1>2, <2>1, <2>2
<1>3. CASE ~Fresh(known) /\ Shared(known)
  <2>1. /\ pc' = [pc EXCEPT ![c] = waiting] /\ used' = [used EXCEPT ![c] = used[c]]
        /\ UNCHANGED <<flight, requests>>
    BY <1>3 DEF GetAccessToken
  <2> QED BY <1>1, <1>3, <2>1 DEF Shared
<1>4. CASE ~Fresh(known) /\ ~Shared(known) /\ Throttled(known)
  <2>1. /\ pc' = [pc EXCEPT ![c] = going] /\ used' = [used EXCEPT ![c] = CachedWhileValid(known)]
        /\ UNCHANGED <<flight, requests>>
    BY <1>4 DEF GetAccessToken
  <2>2. CachedWhileValid(known) \in Nat
    BY CachedToken DEF CacheState, NoToken
  <2> QED BY <1>1, <1>4, <2>1, <2>2, CachedToken
<1>5. CASE ~Fresh(known) /\ ~Shared(known) /\ ~Throttled(known)
  <2>1. /\ pc' = [pc EXCEPT ![c] = waiting] /\ used' = [used EXCEPT ![c] = used[c]]
        /\ flight' = TRUE /\ requests' = requests + 1
    BY <1>5 DEF GetAccessToken
  <2>2. requests' = 1
    BY <1>5, <2>1 DEF Shared
  <2> QED BY <1>1, <2>1, <2>2
<1> QED BY <1>2, <1>3, <1>4, <1>5

\* Whoever waits goes on when the request ends, with its token.
SettledWith(token) ==
  /\ flight' = FALSE /\ requests' = 0
  /\ pc' \in [Calls -> CallStates] /\ used' \in [Calls -> Nat]
  /\ \A c \in Calls :
       /\ pc'[c] \notin {"acquiring", "refreshing"}
       /\ used'[c] \in {used[c], token}
       /\ pc'[c] = "resent" /\ pc[c] # "resent" =>
            pc[c] = "refreshing" /\ token # NoToken /\ used'[c] = token

LEMMA Settling ==
  ASSUME TokenInv, requests > 0, NEW token \in Nat, Settle(token)
  PROVE  SettledWith(token)
<1> USE DEF TokenInv, TypeOK, CallStates
<1>1. flight' = FALSE /\ requests' = 0
  BY DEF Settle, OneRequestAtATime
<1>2. \A c \in Calls :
        pc'[c] = CASE pc[c] = "acquiring" -> "sent"
                   [] pc[c] = "refreshing" -> IF token # NoToken THEN "resent" ELSE "idle"
                   [] OTHER -> pc[c]
  BY DEF Settle
<1>3. pc' \in [Calls -> CallStates]
  <2>1. \A c \in Calls : pc'[c] \in CallStates
    BY <1>2
  <2> QED BY <2>1 DEF Settle
<1>4. used' \in [Calls -> Nat]
  BY DEF Settle
<1> QED BY <1>1, <1>2, <1>3, <1>4 DEF Settle, SettledWith

-----------------------------------------------------------------------------
(* Its invariant holds. *)

LEMMA TokenStart == Init => TokenInv
<1> SUFFICES ASSUME Init PROVE TokenInv
  OBVIOUS
<1>1. cache \in CacheState /\ cache.token = NoToken
  BY EmptyCache DEF Init, Empty
<1>2. outage \in [since : Nat \cup {Never}, errors : Nat, forced : Nat]
  BY DEF Init, NoOutage
<1>3. pc \in [Calls -> CallStates] /\ used \in [Calls -> Nat]
  BY DEF Init, CallStates, NoToken
<1>4. TypeOK
  BY <1>1, <1>2, <1>3 DEF Init, TypeOK, CacheState, CallStates
<1> QED BY <1>1, <1>4 DEF Init, TokenInv, OneRequestAtATime, TokensNumbered, NothingToGiveBack, NoToken

\* An outage keeps its type.
LEMMA OutageTypes ==
  ASSUME TypeOK, [Next]_vars
  PROVE  outage' \in [since : Nat \cup {Never}, errors : Nat, forced : Nat]
<1> USE DEF TypeOK
<1>1. CASE FetchSucceeds
  BY <1>1 DEF FetchSucceeds, NoOutage
<1>2. CASE FetchFails
  <2>1. PICK failure \in {"error", "rejected"} :
          outage' = [outage EXCEPT
            !.since = IF @ = Never THEN now ELSE @,
            !.errors = IF failure = "error" THEN @ + 1 ELSE @]
    BY <1>2 DEF FetchFails
  <2> DEFINE since == IF outage.since = Never THEN now ELSE outage.since
             errors == IF failure = "error" THEN outage.errors + 1 ELSE outage.errors
  <2>2. since \in Nat \cup {Never} /\ errors \in Nat
    OBVIOUS
  <2>3. outage' = [outage EXCEPT !.since = since, !.errors = errors]
    BY <2>1
  <2> QED BY <2>2, <2>3
<1>3. ASSUME NEW c \in Calls, Rejected(c)
      PROVE  outage' \in [since : Nat \cup {Never}, errors : Nat, forced : Nat]
  BY <1>3 DEF Rejected
<1> QED BY <1>1, <1>2, <1>3 DEF Next, Begin, Ends, Tick, vars

LEMMA TokenStep ==
  ASSUME TokenInv, [Next]_vars
  PROVE  TokenInv'
<1> USE DEF TokenInv, TypeOK
<1>1. outage' \in [since : Nat \cup {Never}, errors : Nat, forced : Nat]
  BY OutageTypes
<1> USE <1>1
<1>2. ASSUME NEW c \in Calls, Begin(c) PROVE TokenInv'
  <2>1. GetAccessToken(c, cache, "acquiring", "sent") /\ cache \in CacheState
    BY <1>2 DEF Begin, CacheState
  <2>2. TypeOK'
    BY <1>2, <2>1, Acquiring DEF Begin, CallStates
  <2>3. OneRequestAtATime'
    BY <2>1, Acquiring DEF CallStates, OneRequestAtATime
  <2>4. TokensNumbered'
    BY <1>2, <2>1, Acquiring DEF CallStates, TokensNumbered, NoToken, Begin
  <2>5. NothingToGiveBack'
    BY <2>1, Acquiring DEF CallStates, NothingToGiveBack
  <2> QED BY <2>2, <2>3, <2>4, <2>5
<1>3. ASSUME NEW c \in Calls, Ends(c) PROVE TokenInv'
  BY <1>3 DEF Ends, OneRequestAtATime, TokensNumbered, NothingToGiveBack, NoToken
<1>4. ASSUME NEW c \in Calls, Rejected(c) PROVE TokenInv'
  <2>1. GetAccessToken(c, Empty, "refreshing", "resent") /\ Empty \in CacheState
    BY <1>4, EmptyCache DEF Rejected
  <2>2. TypeOK'
    BY <1>4, <2>1, Acquiring DEF Rejected, CallStates, CacheState
  <2>3. OneRequestAtATime'
    BY <2>1, Acquiring, EmptyCache DEF CallStates, OneRequestAtATime
  <2>4. cache' = Empty /\ Empty.token = NoToken
    BY <2>1, Acquiring DEF CallStates, Empty
  <2>5. TokensNumbered'
    BY <1>4, <2>1, <2>4, Acquiring DEF CallStates, TokensNumbered, NoToken, Rejected
  <2>6. NothingToGiveBack'
    BY <2>4 DEF NothingToGiveBack
  <2> QED BY <2>2, <2>3, <2>5, <2>6
<1>5. CASE FetchSucceeds
  <2>1. requests > 0 /\ Settle(issued + 1) /\ issued' = issued + 1
    BY <1>5 DEF FetchSucceeds
  <2>2. PICK expiresIn \in Lifetimes :
          cache' = [Empty EXCEPT !.token = issued + 1, !.expiresAt = now + LifetimeOf(expiresIn)]
    BY <1>5 DEF FetchSucceeds
  <2>3. LifetimeOf(expiresIn) \in Nat
    BY TokenProviderAssumption DEF LifetimeOf
  <2>4. cache' \in CacheState /\ cache'.token = issued + 1 /\ issued + 1 \in Nat
    <3>1. now + LifetimeOf(expiresIn) \in Nat /\ issued + 1 \in Nat
      BY <2>3
    <3>2. cache' = [token |-> issued + 1, expiresAt |-> now + LifetimeOf(expiresIn),
                    lastFailed |-> Never, failure |-> "none"]
      BY <2>2 DEF Empty
    <3> QED BY <3>1, <3>2 DEF CacheState
  <2>5. SettledWith(issued + 1)
    BY <2>1, <2>4, Settling
  <2>6. TypeOK'
    BY <1>5, <2>1, <2>4, <2>5 DEF FetchSucceeds, CacheState, CallStates, SettledWith
  <2>7. OneRequestAtATime' /\ NothingToGiveBack'
    BY <2>5 DEF OneRequestAtATime, NothingToGiveBack, SettledWith
  <2>8. TokensNumbered'
    BY <2>1, <2>4, <2>5 DEF TokensNumbered, SettledWith
  <2> QED BY <2>6, <2>7, <2>8
<1>6. CASE FetchFails
  <2>1. requests > 0 /\ Settle(CachedWhileValid(cache)) /\ UNCHANGED <<now, issued, rejections>>
    BY <1>6 DEF FetchFails
  <2>2. CachedWhileValid(cache) \in {NoToken, cache.token}
    BY DEF CachedWhileValid
  <2>3. CachedWhileValid(cache) \in Nat /\ CachedWhileValid(cache) <= issued
    BY <2>2 DEF NoToken, TokensNumbered
  <2>4. cache' \in CacheState /\ cache'.token = cache.token
    <3>1. PICK failure \in {"error", "rejected"} :
            cache' = [cache EXCEPT !.lastFailed = now, !.failure = failure]
      BY <1>6 DEF FetchFails
    <3>2. cache \in CacheState /\ now \in Nat \cup {Never}
      BY DEF CacheState
    <3> QED BY <3>1, <3>2 DEF CacheState
  <2>5. SettledWith(CachedWhileValid(cache))
    BY <2>1, <2>3, Settling
  <2>6. TypeOK'
    <3>1. failures' \in Nat
      BY <1>6 DEF FetchFails
    <3> QED BY <2>1, <2>4, <2>5, <3>1 DEF CacheState, CallStates, SettledWith
  <2>7. OneRequestAtATime' /\ NothingToGiveBack'
    BY <2>5 DEF OneRequestAtATime, NothingToGiveBack, SettledWith
  <2>8. TokensNumbered'
    BY <2>1, <2>3, <2>4, <2>5 DEF TokensNumbered, SettledWith
  <2> QED BY <2>6, <2>7, <2>8
<1>7. CASE Tick
  BY <1>7 DEF Tick, OneRequestAtATime, TokensNumbered, NothingToGiveBack
<1>8. CASE UNCHANGED vars
  BY <1>8 DEF vars, OneRequestAtATime, TokensNumbered, NothingToGiveBack
<1> QED BY <1>2, <1>3, <1>4, <1>5, <1>6, <1>7, <1>8 DEF Next

LEMMA TokenInvariant == Spec => []TokenInv
<1>1. Init => TokenInv
  BY TokenStart
<1>2. TokenInv /\ [Next]_vars => TokenInv'
  BY TokenStep
<1> QED BY <1>1, <1>2, PTL DEF Spec

-----------------------------------------------------------------------------
(* The theorems of the token. *)

\* The variables of the provider keep their types (TokenProvider.ts).
THEOREM TokenTypeCorrect == Spec => []TypeOK
<1>1. TokenInv => TypeOK
  BY DEF TokenInv
<1> QED BY <1>1, TokenInvariant, PTL

\* However many calls there are, they share one token request
\* (TokenProvider.ts:89-104).
THEOREM OneRequest == Spec => []OneRequestAtATime
<1>1. TokenInv => OneRequestAtATime
  BY DEF TokenInv
<1> QED BY <1>1, TokenInvariant, PTL

\* A call that is retried never gets the rejected token back
\* (TokenProvider.ts:106-117 and the middleware of ChronicleConnection.ts).
THEOREM RetriedWithNewToken == Spec => RetryTakesNewToken
<1>1. TokenInv /\ [Next]_vars =>
        [\A c \in Calls : pc'[c] = "resent" /\ pc[c] # "resent" => used'[c] # used[c]]_vars
  <2> SUFFICES ASSUME TokenInv, Next, NEW c \in Calls, pc'[c] = "resent", pc[c] # "resent"
               PROVE  used'[c] # used[c]
    OBVIOUS
  <2> USE DEF TokenInv, TypeOK
  <2>1. ASSUME NEW d \in Calls, Begin(d) PROVE FALSE
    <3>1. GetAccessToken(d, cache, "acquiring", "sent") /\ cache \in CacheState
      BY <2>1 DEF Begin, CacheState
    <3> QED BY <3>1, Acquiring DEF CallStates
  <2>2. ASSUME NEW d \in Calls, Ends(d) PROVE FALSE
    BY <2>2 DEF Ends
  <2>3. ASSUME NEW d \in Calls, Rejected(d) PROVE FALSE
    <3>1. GetAccessToken(d, Empty, "refreshing", "resent") /\ Empty \in CacheState
      BY <2>3, EmptyCache DEF Rejected
    <3> QED BY <3>1, Acquiring, EmptyCache DEF CallStates
  <2>4. CASE FetchSucceeds
    <3>1. requests > 0 /\ Settle(issued + 1)
      BY <2>4 DEF FetchSucceeds
    <3>2. issued + 1 \in Nat
      OBVIOUS
    <3>3. used'[c] = issued + 1
      BY <3>1, <3>2, Settling DEF SettledWith
    <3> QED BY <3>3 DEF TokensNumbered
  <2>5. CASE FetchFails
    <3>1. requests > 0 /\ Settle(CachedWhileValid(cache))
      BY <2>5 DEF FetchFails
    <3>2. CachedWhileValid(cache) \in {NoToken, cache.token} /\ CachedWhileValid(cache) \in Nat
      BY DEF CachedWhileValid, NoToken
    <3>3. SettledWith(CachedWhileValid(cache))
      BY <3>1, <3>2, Settling
    <3> QED BY <3>2, <3>3 DEF NothingToGiveBack, SettledWith
  <2>6. CASE Tick
    BY <2>6 DEF Tick
  <2> QED BY <2>1, <2>2, <2>3, <2>4, <2>5, <2>6 DEF Next
<1> QED BY <1>1, TokenInvariant, PTL DEF Spec, RetryTakesNewToken

\* No call takes an expired token, whatever failed before
\* (TokenProvider.ts:119-160).
THEOREM ValidWhenTaken == Spec => TokenIsValidWhenTaken
<1>1. TokenInv /\ [Next]_vars =>
        [\A c \in Calls : used'[c] \notin {NoToken, used[c]} =>
           used'[c] = cache'.token /\ now < cache'.expiresAt]_vars
  <2> SUFFICES ASSUME TokenInv, Next, NEW c \in Calls, used'[c] # NoToken, used'[c] # used[c]
               PROVE  used'[c] = cache'.token /\ now < cache'.expiresAt
    OBVIOUS
  <2> USE DEF TokenInv, TypeOK
  <2>1. ASSUME NEW d \in Calls, Begin(d) PROVE used'[c] = cache'.token /\ now < cache'.expiresAt
    <3>1. GetAccessToken(d, cache, "acquiring", "sent") /\ cache \in CacheState
      BY <2>1 DEF Begin, CacheState
    <3> QED BY <3>1, Acquiring DEF CallStates
  <2>2. ASSUME NEW d \in Calls, Ends(d) PROVE FALSE
    BY <2>2 DEF Ends
  <2>3. ASSUME NEW d \in Calls, Rejected(d) PROVE FALSE
    <3>1. GetAccessToken(d, Empty, "refreshing", "resent") /\ Empty \in CacheState
      BY <2>3, EmptyCache DEF Rejected
    <3> QED BY <3>1, Acquiring, EmptyCache DEF CallStates
  <2>4. CASE FetchSucceeds
    <3>1. requests > 0 /\ Settle(issued + 1)
      BY <2>4 DEF FetchSucceeds
    <3>2. PICK expiresIn \in Lifetimes :
            cache' = [Empty EXCEPT !.token = issued + 1, !.expiresAt = now + LifetimeOf(expiresIn)]
      BY <2>4 DEF FetchSucceeds
    <3>3. LifetimeOf(expiresIn) \in Nat \ {0}
      BY TokenProviderAssumption DEF LifetimeOf
    <3>4. cache'.token = issued + 1 /\ now < cache'.expiresAt
      BY <3>2, <3>3 DEF Empty
    <3>5. issued + 1 \in Nat
      OBVIOUS
    <3>6. used'[c] = issued + 1
      BY <3>1, <3>5, Settling DEF SettledWith
    <3> QED BY <3>4, <3>6
  <2>5. CASE FetchFails
    <3>1. requests > 0 /\ Settle(CachedWhileValid(cache))
      BY <2>5 DEF FetchFails
    <3>2. cache'.token = cache.token /\ cache'.expiresAt = cache.expiresAt
      BY <2>5 DEF FetchFails
    <3>3. /\ CachedWhileValid(cache) \in {NoToken, cache.token} /\ CachedWhileValid(cache) \in Nat
          /\ CachedWhileValid(cache) # NoToken => now < cache.expiresAt
      BY DEF CachedWhileValid, NoToken
    <3>4. SettledWith(CachedWhileValid(cache))
      BY <3>1, <3>3, Settling
    <3> QED BY <3>2, <3>3, <3>4 DEF SettledWith
  <2>6. CASE Tick
    BY <2>6 DEF Tick
  <2> QED BY <2>1, <2>2, <2>3, <2>4, <2>5, <2>6 DEF Next
<1> QED BY <1>1, TokenInvariant, PTL DEF Spec, TokenIsValidWhenTaken

-----------------------------------------------------------------------------
(* Pacing: the delays that have passed, counted. *)

LEMMA Quotient ==
  ASSUME NEW d \in Nat \ {0}, NEW x \in Nat
  PROVE  /\ x \div d \in Nat /\ d * (x \div d) <= x /\ x < d * (x \div d) + d
OBVIOUS

LEMMA Multiples ==
  ASSUME NEW d \in Nat \ {0}, NEW p \in Nat, NEW q \in Nat, p > q
  PROVE  d * p >= d * q + d
<1>1. PICK r \in Nat : p = q + 1 + r
  <2>1. p - q - 1 \in Nat /\ p = q + 1 + (p - q - 1)
    OBVIOUS
  <2> QED BY <2>1
<1>2. d * p = d * q + d + d * r
  BY <1>1
<1>3. d * r \in Nat /\ d * q \in Nat
  OBVIOUS
<1> QED BY <1>2, <1>3

LEMMA Delays ==
  ASSUME NEW d \in Nat \ {0}, NEW x \in Nat, NEW y \in Nat
  PROVE  /\ x \div d \in Nat
         /\ x <= y => x \div d <= y \div d
         /\ x + d <= y => 1 + x \div d <= y \div d
<1> DEFINE p == x \div d
           q == y \div d
<1>1. p \in Nat /\ q \in Nat /\ d * p <= x /\ x < d * p + d /\ d * q <= y /\ y < d * q + d
  BY Quotient
<1> HIDE DEF p, q
<1>5. d * p \in Nat /\ d * q \in Nat
  BY <1>1
<1>2. ASSUME x <= y, p > q PROVE FALSE
  BY <1>1, <1>2, <1>5, Multiples
<1>3. ASSUME x + d <= y, 1 + p > q PROVE FALSE
  <2>1. d * (p + 1) = d * p + d
    BY <1>1
  <2>2. d * (p + 1) >= d * q + d
    BY <1>1, <1>3, Multiples
  <2> QED BY <1>1, <1>3, <1>5, <2>1, <2>2
<1>4. /\ p \in Nat /\ x <= y => p <= q
      /\ x + d <= y => 1 + p <= q
  BY <1>1, <1>2, <1>3
<1> QED BY <1>4 DEF p, q

\* What an outage has spent: while the last failure is waited after, one more
\* error than delays up to then; and an error that may still come has its delay.
Pace ==
  /\ outage \in [since : Nat \cup {Never}, errors : Nat, forced : Nat]
  /\ outage.since = Never => outage.errors = 0
  /\ outage.since # Never =>
       /\ outage.since <= now
       /\ Throttled(cache) =>
            /\ outage.since <= cache.lastFailed /\ cache.lastFailed <= now
            /\ outage.errors <= 1 + (cache.lastFailed - outage.since) \div RetryDelay + outage.forced
       /\ flight \/ ~Throttled(cache) =>
            outage.errors <= (now - outage.since) \div RetryDelay + outage.forced

LEMMA PaceSuffices == TokenInv /\ Pace => PacedInOutage
<1> SUFFICES ASSUME TokenInv, Pace, outage.since # Never
             PROVE  outage.errors <= 1 + (now - outage.since) \div RetryDelay + outage.forced
  BY DEF PacedInOutage
<1>1. now \in Nat /\ outage.since \in Nat /\ outage.errors \in Nat /\ outage.forced \in Nat /\ RetryDelay \in Nat \ {0}
  BY TokenProviderAssumption DEF TokenInv, TypeOK, Pace
<1>2. now - outage.since \in Nat
  BY <1>1 DEF Pace
<1>3. (now - outage.since) \div RetryDelay \in Nat
  BY <1>1, <1>2, Delays
<1>4. CASE Throttled(cache)
  <2>1. cache.lastFailed - outage.since \in Nat /\ cache.lastFailed - outage.since <= now - outage.since
    BY <1>1, <1>4 DEF Pace, TokenInv, TypeOK, Throttled
  <2>2. (cache.lastFailed - outage.since) \div RetryDelay <= (now - outage.since) \div RetryDelay
        /\ (cache.lastFailed - outage.since) \div RetryDelay \in Nat
    BY <1>1, <1>2, <2>1, Delays
  <2> QED BY <1>1, <1>3, <1>4, <2>2 DEF Pace
<1>5. CASE ~Throttled(cache)
  BY <1>1, <1>3, <1>5 DEF Pace
<1> QED BY <1>4, <1>5

LEMMA PaceStep ==
  ASSUME TokenInv, Pace, [Next]_vars
  PROVE  Pace'
<1> USE DEF TokenInv, TypeOK, CacheState
<1>0. /\ now \in Nat /\ outage.errors \in Nat /\ outage.forced \in Nat /\ RetryDelay \in Nat \ {0}
      /\ outage.since \in Nat \cup {Never} /\ Never \notin Nat
  BY TokenProviderAssumption
<1>1. ASSUME NEW c \in Calls, Begin(c) PROVE Pace'
  <2>1. GetAccessToken(c, cache, "acquiring", "sent") /\ UNCHANGED <<now, outage>>
    BY <1>1 DEF Begin
  <2>2. cache' = cache /\ (flight' => flight \/ ~Throttled(cache))
    BY <2>1 DEF GetAccessToken
  <2>3. Throttled(cache)' = Throttled(cache)
    BY <2>1, <2>2 DEF Throttled
  <2> QED BY <2>1, <2>2, <2>3 DEF Pace
<1>2. ASSUME NEW c \in Calls, Ends(c) PROVE Pace'
  <2>1. UNCHANGED <<now, cache, flight, outage>>
    BY <1>2 DEF Ends
  <2> QED BY <2>1 DEF Pace, Throttled
<1>3. ASSUME NEW c \in Calls, Rejected(c) PROVE Pace'
  <2>1. GetAccessToken(c, Empty, "refreshing", "resent")
    BY <1>3, EmptyCache DEF Rejected
  <2>2. cache' = Empty /\ now' = now /\ outage' = [outage EXCEPT !.forced = @ + 1]
    BY <1>3, <2>1 DEF Rejected, GetAccessToken
  <2>3. ~Throttled(cache)'
    BY <2>2 DEF Throttled, Empty
  <2>4. outage.since # Never =>
          outage.errors <= 1 + (now - outage.since) \div RetryDelay + outage.forced
    BY PaceSuffices DEF PacedInOutage
  <2>5. outage.since # Never => (now - outage.since) \div RetryDelay \in Nat
    BY <1>0, Delays DEF Pace
  <2> QED BY <1>0, <2>2, <2>3, <2>4, <2>5 DEF Pace
<1>4. CASE FetchSucceeds
  BY <1>0, <1>4 DEF FetchSucceeds, Pace, NoOutage
<1>5. CASE FetchFails
  <2>1. flight /\ now' = now /\ flight' = FALSE
    BY <1>5 DEF FetchFails, OneRequestAtATime, Settle
  <2>2. PICK failure \in {"error", "rejected"} :
          /\ cache' = [cache EXCEPT !.lastFailed = now, !.failure = failure]
          /\ outage' = [outage EXCEPT
               !.since = IF @ = Never THEN now ELSE @,
               !.errors = IF failure = "error" THEN @ + 1 ELSE @]
    BY <1>5 DEF FetchFails
  <2>3. /\ cache'.lastFailed = now /\ cache'.failure = failure
        /\ outage'.since = IF outage.since = Never THEN now ELSE outage.since
        /\ outage'.errors = IF failure = "error" THEN outage.errors + 1 ELSE outage.errors
        /\ outage'.forced = outage.forced
        /\ outage' \in [since : Nat \cup {Never}, errors : Nat, forced : Nat]
    <3>1. /\ outage'.since = IF outage.since = Never THEN now ELSE outage.since
          /\ outage'.errors = IF failure = "error" THEN outage.errors + 1 ELSE outage.errors
          /\ outage'.forced = outage.forced
      BY <2>2
    <3>2. outage'.since \in Nat \cup {Never} /\ outage'.errors \in Nat
      BY <1>0, <3>1
    <3>3. outage' = [since |-> outage'.since, errors |-> outage'.errors, forced |-> outage.forced]
      BY <2>2
    <3>4. cache'.lastFailed = now /\ cache'.failure = failure
      BY <2>2
    <3> QED BY <1>0, <3>1, <3>2, <3>3, <3>4
  <2>4. outage'.since \in Nat /\ outage'.since <= now /\ now - outage'.since \in Nat
    BY <1>0, <2>3 DEF Pace
  <2>5. outage.errors <= (now - outage'.since) \div RetryDelay + outage.forced
        /\ (now - outage'.since) \div RetryDelay \in Nat
    <3>1. (now - outage'.since) \div RetryDelay \in Nat
      BY <1>0, <2>4, Delays
    <3>2. CASE outage.since = Never
      BY <1>0, <3>1, <3>2 DEF Pace
    <3>3. CASE outage.since # Never
      BY <2>1, <2>3, <3>1, <3>3 DEF Pace
    <3> QED BY <3>1, <3>2, <3>3
  <2>6. Throttled(cache)' => failure = "error"
    BY <2>3 DEF Throttled
  <2>7. ~Throttled(cache)' => failure = "rejected"
    BY <1>0, <2>1, <2>3 DEF Throttled
  <2> QED BY <1>0, <2>1, <2>3, <2>4, <2>5, <2>6, <2>7 DEF Pace
<1>6. CASE Tick
  <2>1. now' = now + 1 /\ UNCHANGED <<cache, flight, outage>>
    BY <1>6 DEF Tick
  <2>2. CASE outage.since = Never
    BY <1>0, <2>1, <2>2 DEF Pace
  <2>3. CASE outage.since # Never
    <3>1. /\ outage.since \in Nat /\ now - outage.since \in Nat /\ now' - outage.since \in Nat
          /\ now - outage.since <= now' - outage.since /\ outage.since <= now'
      BY <1>0, <2>1, <2>3 DEF Pace
    <3>2. /\ (now - outage.since) \div RetryDelay <= (now' - outage.since) \div RetryDelay
          /\ (now - outage.since) \div RetryDelay \in Nat
          /\ (now' - outage.since) \div RetryDelay \in Nat
      BY <1>0, <3>1, Delays
    <3>3. Throttled(cache)' => Throttled(cache)
      BY <1>0, <2>1, TokenProviderAssumption DEF Throttled
    <3>4. ASSUME Throttled(cache), ~Throttled(cache)'
          PROVE  outage.errors <= (now' - outage.since) \div RetryDelay + outage.forced
      <4>1. cache.lastFailed \in Nat /\ cache.lastFailed + RetryDelay <= now'
        BY <1>0, <2>1, <3>4 DEF Throttled
      <4>a. outage.since <= cache.lastFailed
        BY <2>3, <3>4 DEF Pace
      <4>2. /\ cache.lastFailed - outage.since \in Nat
            /\ cache.lastFailed - outage.since + RetryDelay <= now' - outage.since
        BY <1>0, <2>1, <3>1, <4>1, <4>a
      <4>3. /\ 1 + (cache.lastFailed - outage.since) \div RetryDelay <= (now' - outage.since) \div RetryDelay
            /\ (cache.lastFailed - outage.since) \div RetryDelay \in Nat
        BY <1>0, <3>1, <4>2, Delays
      <4> QED BY <1>0, <2>3, <3>2, <3>4, <4>3 DEF Pace
    <3>5. ASSUME flight \/ ~Throttled(cache)
          PROVE  outage.errors <= (now' - outage.since) \div RetryDelay + outage.forced
      BY <1>0, <2>3, <3>2, <3>5 DEF Pace
    <3>6. Throttled(cache)' => /\ outage.since <= cache.lastFailed /\ cache.lastFailed <= now'
                               /\ outage.errors <= 1 + (cache.lastFailed - outage.since) \div RetryDelay + outage.forced
      BY <1>0, <2>1, <2>3, <3>3 DEF Pace, Throttled
    <3> QED BY <2>1, <2>3, <3>1, <3>4, <3>5, <3>6 DEF Pace
  <2> QED BY <2>2, <2>3
<1>7. CASE UNCHANGED vars
  BY <1>7 DEF vars, Pace, Throttled
<1> QED BY <1>1, <1>2, <1>3, <1>4, <1>5, <1>6, <1>7 DEF Next

\* An outage of the authentication server costs a token request for each delay and
\* for each rejected token, however many calls are made, whatever the delay is and
\* however rejections of the credentials come in between (TokenProvider.ts:80-117).
THEOREM PacedThroughout == Spec => []PacedInOutage
<1>1. Init => Pace
  BY TokenProviderAssumption DEF Init, Pace, NoOutage
<1> QED BY <1>1, TokenInvariant, PaceStep, PaceSuffices, PTL DEF Spec
=============================================================================
