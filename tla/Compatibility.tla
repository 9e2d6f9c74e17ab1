---------------------------- MODULE Compatibility ----------------------------
(***************************************************************************)
(* The check of the wire contract that each channel makes of its server    *)
(* (connection/CompatibilityPreflight.ts) before connect() returns and     *)
(* before a call of the event sequences goes out, over the channels that   *)
(* resets of the connection put in each other's place.                     *)
(*                                                                         *)
(* A check is a promise: its outcome settles once, and calls share it.     *)
(***************************************************************************)
EXTENDS Naturals, Sequences

CONSTANTS
  Servers,        \* what the load balancer may select
  CheckedCalls,   \* calls of connect() and of the event sequences
  MaxChannels,    \* bound: channels
  MaxChecks       \* bound: checks

VARIABLES
  compatible,  \* the servers that support the contract; never changes
  channels,    \* the channels created; the last is the current one
  checks,      \* the outcome of each check
  verified     \* the calls: channel, check, whether that had settled by then

compatibilityVars == <<compatible, channels, checks, verified>>

Outcomes == {"pending", "compatible", "incompatible", "failed"}
NoCall == [pc |-> "idle", channel |-> 0, check |-> 0, settled |-> FALSE]

\* verification: the check that _verification holds, or 0.
NewChannelTo(s) == [server |-> s, open |-> TRUE, verification |-> 0]

CompatibilityTypeOK ==
  /\ compatible \subseteq Servers
  /\ channels \in Seq([server : Servers, open : BOOLEAN, verification : Nat])
  /\ checks \in Seq([channel : Nat, outcome : Outcomes])
  /\ verified \in [CheckedCalls -> [pc : {"idle", "verifying", "sent", "refused", "failed"},
                                    channel : Nat, check : Nat, settled : BOOLEAN]]

ContractInit ==
  /\ compatible \in SUBSET Servers
  /\ channels \in {<<NewChannelTo(s)>> : s \in Servers}
  /\ checks = <<>>
  /\ verified = [c \in CheckedCalls |-> NoCall]

-----------------------------------------------------------------------------

Current == Len(channels)

\* resetChannel: closes the channel and selects a server anew.
Reset(s) ==
  /\ Len(channels) < MaxChannels
  /\ channels' = Append([channels EXCEPT ![Current].open = FALSE], NewChannelTo(s))
  /\ UNCHANGED <<compatible, checks, verified>>

Joins(c, k) ==
  verified' = [verified EXCEPT ![c] = [pc |-> "verifying", channel |-> Current, check |-> k,
                                       settled |-> k <= Len(checks) /\ checks[k].outcome # "pending"]]

\* verify() starts a check of the current channel when there is none.
Verify(c) ==
  /\ verified[c].pc # "verifying"
  /\ LET held == channels[Current].verification
     IN \/ /\ held # 0
           /\ Joins(c, held)
           /\ UNCHANGED <<channels, checks>>
        \/ /\ held = 0 /\ Len(checks) < MaxChecks
           /\ checks' = Append(checks, [channel |-> Current, outcome |-> "pending"])
           /\ channels' = [channels EXCEPT ![Current].verification = Len(checks')]
           /\ Joins(c, Len(checks'))
  /\ UNCHANGED compatible

\* The server's verdict; without support for the check it is incompatible.
CheckAnswered(k) ==
  /\ checks[k].outcome = "pending" /\ channels[checks[k].channel].open
  /\ checks' = [checks EXCEPT ![k].outcome =
       IF channels[checks[k].channel].server \in compatible THEN "compatible" ELSE "incompatible"]
  /\ UNCHANGED <<compatible, channels, verified>>

\* What is left of a failed check for later calls.  Mutant: it is kept.
Kept(k) == k
Dropped(k) == 0
AfterFailure(k) == Dropped(k)

\* The check times out, its channel is closed, or it fails otherwise.
CheckFails(k) ==
  /\ checks[k].outcome = "pending"
  /\ checks' = [checks EXCEPT ![k].outcome = "failed"]
  /\ channels' = [channels EXCEPT ![checks[k].channel].verification = IF @ = k THEN AfterFailure(k) ELSE @]
  /\ UNCHANGED <<compatible, verified>>

\* The call goes out on its channel, or is refused.
Resume(c) ==
  /\ verified[c].pc = "verifying"
  /\ LET outcome == checks[verified[c].check].outcome
     IN /\ outcome # "pending"
        /\ verified' = [verified EXCEPT ![c].pc =
             CASE outcome = "compatible" -> "sent" [] outcome = "failed" -> "failed" [] OTHER -> "refused"]
  /\ UNCHANGED <<compatible, channels, checks>>

ContractNext ==
  \/ \E s \in Servers : Reset(s)
  \/ \E c \in CheckedCalls : Verify(c) \/ Resume(c)
  \/ \E k \in DOMAIN checks : CheckAnswered(k) \/ CheckFails(k)

ContractSpec == ContractInit /\ [][ContractNext]_compatibilityVars

-----------------------------------------------------------------------------

\* "Gates even direct service calls" and "Shares in-flight checks and caches verdicts
\* for this channel; transient failures can be retried": a call is sent to a server
\* that supports the contract and refused to one that does not, whatever other
\* channels were checked meanwhile, and it fails only with a check that had not yet
\* failed when it joined it.
VerdictIsOfItsChannel ==
  \A c \in CheckedCalls :
    LET supported == channels[verified[c].channel].server \in compatible
    IN CASE verified[c].pc = "sent" -> supported
         [] verified[c].pc = "refused" -> ~supported
         [] verified[c].pc = "failed" -> ~verified[c].settled
         [] OTHER -> TRUE
=============================================================================
