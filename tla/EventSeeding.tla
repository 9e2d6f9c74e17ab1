---------------------------- MODULE EventSeeding ----------------------------
(***************************************************************************)
(* The seed data of a store (seeding/EventSeeding.ts): what seeders and    *)
(* the application add to the entries, and the registrations that send     *)
(* them to the kernel.  A store is registered when it is created and again *)
(* after a reconnect, and two of its registrations may overlap.            *)
(*                                                                         *)
(* An entry is its number; what it holds, and how a request groups entries *)
(* by namespace, event type and source, is left out.                       *)
(***************************************************************************)
EXTENDS Naturals, FiniteSets

CONSTANTS
  Registrations,  \* registrations of the artifacts of the store
  MaxEntries,     \* bound: entries added
  MaxSeedFaults   \* bound: calls of seedEvents that fail

VARIABLES
  registration,  \* where each registration stands
  entries,       \* _entries
  added,         \* entries added so far
  requested,     \* the entries in the request of each registration
  discovered,    \* history: the entries that the seeders of each registration added
  overtaken,     \* history: the entries added while a call was awaited
  seeded,        \* the kernel: the entries it has accepted
  seedFaults

seedingVars == <<registration, entries, added, requested, discovered, overtaken, seeded, seedFaults>>

SeedingTypeOK ==
  /\ registration \in [Registrations -> {"idle", "discovering", "discovered", "sending", "done", "failed"}]
  /\ added \in 0..MaxEntries /\ entries \subseteq 1..added
  /\ requested \in [Registrations -> SUBSET (1..added)]
  /\ discovered \in [Registrations -> SUBSET (1..added)]
  /\ overtaken \subseteq 1..added /\ seeded \subseteq 1..added /\ seedFaults \in Nat

Nothing == [r \in Registrations |-> {}]

SeedingInit ==
  /\ registration = [r \in Registrations |-> "idle"]
  /\ entries = {} /\ added = 0
  /\ requested = Nothing /\ discovered = Nothing
  /\ overtaken = {} /\ seeded = {} /\ seedFaults = MaxSeedFaults

-----------------------------------------------------------------------------

At(r, from, to) == registration[r] = from /\ registration' = [registration EXCEPT ![r] = to]
Sending == {r \in Registrations : registration[r] = "sending"}

\* addEntries.
Adds ==
  /\ added < MaxEntries /\ added' = added + 1
  /\ entries' = entries \cup {added'}
  /\ overtaken' = IF Sending = {} THEN overtaken ELSE overtaken \cup {added'}

\* for, forEventSource and forNamespace, called by the application.
ApplicationAdds ==
  /\ Adds
  /\ UNCHANGED <<registration, requested, discovered, seeded, seedFaults>>

\* discover: the seeders run one after the other, each awaited; one that throws is
\* skipped, and keeps what it has added.
Discover(r) ==
  /\ At(r, "idle", "discovering")
  /\ UNCHANGED <<entries, added, requested, discovered, overtaken, seeded, seedFaults>>

SeederAdds(r) ==
  /\ registration[r] = "discovering"
  /\ Adds
  /\ discovered' = [discovered EXCEPT ![r] = @ \cup {added'}]
  /\ UNCHANGED <<registration, requested, seeded, seedFaults>>

Discovered(r) ==
  /\ At(r, "discovering", "discovered")
  /\ UNCHANGED <<entries, added, requested, discovered, overtaken, seeded, seedFaults>>

\* Something else that is registered before the seed data fails: the entries stay.
RegistrationFails(r) ==
  /\ At(r, "discovered", "failed")
  /\ UNCHANGED <<entries, added, requested, discovered, overtaken, seeded, seedFaults>>

-----------------------------------------------------------------------------
(* register. *)

NothingToRegister(r) ==
  /\ entries = {}
  /\ At(r, "discovered", "done")
  /\ UNCHANGED <<entries, added, requested, discovered, overtaken, seeded, seedFaults>>

\* What is held while the kernel has not answered.  Mutant: it is taken out at once.
TakenOut == {}
StillHeld == entries
HeldWhileSending == StillHeld

Register(r) ==
  /\ entries # {}
  /\ At(r, "discovered", "sending")
  /\ requested' = [requested EXCEPT ![r] = entries]
  /\ entries' = HeldWhileSending
  /\ UNCHANGED <<added, discovered, overtaken, seeded, seedFaults>>

\* The kernel accepted the request: everything is cleared, also what came since.
Accepted(r) ==
  /\ At(r, "sending", "done")
  /\ seeded' = seeded \cup requested[r]
  /\ entries' = {}
  /\ UNCHANGED <<added, requested, discovered, overtaken, seedFaults>>

\* The call fails, before or after the kernel has accepted the request.
Refused(r) ==
  /\ At(r, "sending", "failed")
  /\ seedFaults > 0 /\ seedFaults' = seedFaults - 1
  /\ seeded' \in {seeded, seeded \cup requested[r]}
  /\ UNCHANGED <<entries, added, requested, discovered, overtaken>>

\* The store is registered again, after a failure or a reconnect.
RegisteredAgain(r) ==
  /\ registration[r] \in {"done", "failed"}
  /\ registration' = [registration EXCEPT ![r] = "discovering"]
  /\ requested' = [requested EXCEPT ![r] = {}]
  /\ discovered' = [discovered EXCEPT ![r] = {}]
  /\ UNCHANGED <<entries, added, overtaken, seeded, seedFaults>>

SeedingNext ==
  \/ ApplicationAdds
  \/ \E r \in Registrations :
       \/ Discover(r) \/ SeederAdds(r) \/ Discovered(r) \/ RegistrationFails(r)
       \/ NothingToRegister(r) \/ Register(r) \/ Accepted(r) \/ Refused(r)
       \/ RegisteredAgain(r)

SeedingSpec == SeedingInit /\ [][SeedingNext]_seedingVars

-----------------------------------------------------------------------------

\* "sends it to the kernel with the store's other artifacts" (seeding.md:98): an
\* entry is held until a request with it was accepted, and a registration that
\* succeeded leaves nothing of its seeders behind.  Only what was added while a
\* request was awaited may be dropped with that request's entries.
SeedsReachTheKernel ==
  /\ 1..added \subseteq entries \cup seeded \cup overtaken
  /\ \A r \in Registrations :
       registration[r] = "done" => discovered[r] \subseteq seeded \cup overtaken
=============================================================================
