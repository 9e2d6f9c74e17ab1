----------------------------- MODULE EventStores -----------------------------
(***************************************************************************)
(* The event stores a client hands out (ChronicleClient.getEventStore,     *)
(* getOrCreateEventStore, the connected handler and dispose).  A store is  *)
(* looked up, ensured in the kernel, cached and registered, with an await  *)
(* before each of the last three; how the client connects is in            *)
(* ChronicleClient, what a registration starts in Observations.            *)
(***************************************************************************)
EXTENDS Naturals

CONSTANTS
  Callers,       \* concurrent calls of getEventStore
  Keys,          \* event store and namespace
  MaxStores,     \* bound: stores created
  MaxFaults,     \* bound: calls to the kernel that fail
  MaxReconnects  \* bound: reconnections

ASSUME EventStoresAssumption ==
  MaxStores \in Nat /\ MaxFaults \in Nat /\ MaxReconnects \in Nat

NoStore == 0
Stores == 1..MaxStores

VARIABLES
  stores,     \* _stores
  created,    \* stores created so far
  disposed,   \* stores whose observations are disposed of
  asked,      \* stores registered, or about to be, on this connection
  handed,     \* stores handed out
  settled,    \* of each key: a store handed out from the cache when no other
              \* was being created
  isDisposed, \* _isDisposed
  standing,   \* where each call stands
  key,        \* the key of each call
  mine,       \* the store each call has created
  retried,    \* whether the call is repeated after a reconnection
  faults,     \* faults that may still happen
  reconnects  \* reconnections so far

callVars == <<standing, key, mine, retried>>
storeVars == <<stores, created, disposed, asked, handed, settled, isDisposed, callVars,
               faults, reconnects>>

StoresTypeOK ==
  /\ stores \in [Keys -> Stores \cup {NoStore}]
  /\ created \in 0..MaxStores
  /\ disposed \subseteq Stores /\ asked \subseteq Stores /\ handed \subseteq Stores
  /\ settled \in [Keys -> Stores \cup {NoStore}]
  /\ isDisposed \in BOOLEAN
  /\ standing \in [Callers -> {"idle", "looking", "ensuring", "registering", "reconnecting"}]
  /\ key \in [Callers -> Keys]
  /\ mine \in [Callers -> Stores \cup {NoStore}]
  /\ retried \in [Callers -> BOOLEAN]
  /\ faults \in Nat /\ reconnects \in Nat

StoresInit ==
  /\ stores = [k \in Keys |-> NoStore]
  /\ created = 0
  /\ disposed = {} /\ asked = {} /\ handed = {}
  /\ settled = [k \in Keys |-> NoStore]
  /\ isDisposed = FALSE
  /\ standing = [c \in Callers |-> "idle"]
  /\ key \in [Callers -> Keys]
  /\ mine = [c \in Callers |-> NoStore]
  /\ retried = [c \in Callers |-> FALSE]
  /\ faults = MaxFaults
  /\ reconnects = 0

-----------------------------------------------------------------------------

Creating(k) == {c \in Callers : standing[c] \in {"ensuring", "registering"} /\ key[c] = k}

\* getEventStore returns the store s to call c.
HandOut(c, s) ==
  /\ handed' = handed \cup {s}
  /\ settled' = IF Creating(key[c]) \subseteq {c} /\ stores[key[c]] = s
                THEN [settled EXCEPT ![key[c]] = s] ELSE settled
  /\ standing' = [standing EXCEPT ![c] = "idle"]

Call(c, k) ==
  /\ standing[c] = "idle"
  /\ standing' = [standing EXCEPT ![c] = "looking"]
  /\ key' = [key EXCEPT ![c] = k]
  /\ retried' = [retried EXCEPT ![c] = FALSE]
  /\ UNCHANGED <<stores, created, disposed, asked, handed, settled, isDisposed, mine,
                 faults, reconnects>>

\* The cached store of a key.  Mutant: the cache is not looked at.
Uncached(k) == NoStore
Existing(k) == stores[k]

\* The client is connected (ensureConnected), or disposed of, which is an error
\* and ends a reconnection too.
LookUp(c) ==
  /\ standing[c] = "looking" \/ (standing[c] = "reconnecting" /\ isDisposed)
  /\ IF isDisposed THEN standing' = [standing EXCEPT ![c] = "idle"] /\ UNCHANGED <<handed, settled>>
     ELSE IF Existing(key[c]) # NoStore THEN HandOut(c, Existing(key[c]))
     ELSE standing' = [standing EXCEPT ![c] = "ensuring"] /\ UNCHANGED <<handed, settled>>
  /\ UNCHANGED <<stores, created, disposed, asked, isDisposed, key, mine, retried,
                 faults, reconnects>>

\* The kernel has the store; it is created here, cached, and its registration begins.
Ensured(c) ==
  /\ standing[c] = "ensuring"
  /\ created < MaxStores /\ created' = created + 1
  /\ stores' = [stores EXCEPT ![key[c]] = created + 1]
  /\ mine' = [mine EXCEPT ![c] = created + 1]
  /\ asked' = asked \cup {created + 1}
  /\ standing' = [standing EXCEPT ![c] = "registering"]
  /\ UNCHANGED <<disposed, handed, settled, isDisposed, key, retried, faults, reconnects>>

\* withReconnect: a connection error of the first try is followed by a
\* reconnection and another try, any other error is thrown.
Fails(c) ==
  /\ faults > 0 /\ faults' = faults - 1
  /\ \/ standing' = [standing EXCEPT ![c] = "idle"] /\ UNCHANGED retried
     \/ /\ ~retried[c]
        /\ standing' = [standing EXCEPT ![c] = "reconnecting"]
        /\ retried' = [retried EXCEPT ![c] = TRUE]

EnsureFails(c) ==
  /\ standing[c] = "ensuring"
  /\ Fails(c)
  /\ UNCHANGED <<stores, created, disposed, asked, handed, settled, isDisposed, key, mine,
                 reconnects>>

Registered(c) ==
  /\ standing[c] = "registering"
  /\ HandOut(c, mine[c])
  /\ UNCHANGED <<stores, created, disposed, asked, isDisposed, key, mine, retried,
                 faults, reconnects>>

\* What is cached after the registration of store s failed.  Mutants: whatever
\* is cached is removed; nothing is.
WithoutAny(k, s) == [stores EXCEPT ![k] = NoStore]
WithIt(k, s) == stores
Without(k, s) == IF stores[k] = s THEN [stores EXCEPT ![k] = NoStore] ELSE stores

RegistrationFails(c) ==
  /\ standing[c] = "registering"
  /\ stores' = Without(key[c], mine[c])
  /\ disposed' = disposed \cup {mine[c]}
  /\ Fails(c)
  /\ UNCHANGED <<created, asked, handed, settled, isDisposed, key, mine, reconnects>>

\* The connection is lost and there is a new one; the connected handler registers
\* the cached stores.  Errors of these registrations are logged.
Reconnect ==
  /\ ~isDisposed
  /\ reconnects < MaxReconnects /\ reconnects' = reconnects + 1
  /\ asked' = {stores[k] : k \in Keys} \ {NoStore}
  /\ standing' = [c \in Callers |-> IF standing[c] = "reconnecting" THEN "looking" ELSE standing[c]]
  /\ UNCHANGED <<stores, created, disposed, handed, settled, isDisposed, key, mine, retried,
                 faults>>

Dispose ==
  /\ ~isDisposed /\ isDisposed' = TRUE
  /\ disposed' = disposed \cup ({stores[k] : k \in Keys} \ {NoStore})
  /\ UNCHANGED <<stores, created, asked, handed, settled, callVars, faults, reconnects>>

StoresNext ==
  \/ \E c \in Callers, k \in Keys : Call(c, k)
  \/ \E c \in Callers : LookUp(c) \/ Ensured(c) \/ EnsureFails(c) \/ Registered(c)
       \/ RegistrationFails(c)
  \/ Reconnect
  \/ Dispose

StoresSpec == StoresInit /\ [][StoresNext]_storeVars

-----------------------------------------------------------------------------
(* Properties. *)

\* Once a cached store has been handed out and no other is being created for its
\* key, it is the store of that key for good: later calls share it, and a
\* reconnection and dispose reach it, whatever failed before.
SettledStoreStays ==
  [][\A k \in Keys : settled[k] # NoStore =>
       stores'[k] = settled[k] /\ settled'[k] = settled[k]]_storeVars

\* A call never finds a store whose registration has failed (its observations are
\* disposed of and would never start again).
CachedStoreIsLive ==
  ~isDisposed => \A k \in Keys : stores[k] \notin disposed

\* The failed registration of one call does not take the store that a concurrent
\* call has put in its place out of the cache.
OnlyFailedStoresAreDropped ==
  [][\A k \in Keys : stores[k] # NoStore /\ stores'[k] = NoStore =>
       stores[k] \in disposed']_storeVars

\* "it reconnects [...] and registers the artifacts again for every event store it
\* has handed out" (Documentation/connecting.md:106).
HandedOutIsRegisteredAgain == \A s \in handed \ disposed : s \in asked
=============================================================================
