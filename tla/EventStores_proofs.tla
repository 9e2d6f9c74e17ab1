-------------------------- MODULE EventStores_proofs --------------------------
(***************************************************************************)
(* What the event store cache keeps for any number of concurrent calls,    *)
(* keys, failures and reconnections.                                       *)
(***************************************************************************)
EXTENDS EventStores, TLAPS

-----------------------------------------------------------------------------
(* The inductive invariant. *)

Registering(c) == standing[c] = "registering"

\* Stores are numbered as they are created, and a call that registers has one.
Numbered ==
  /\ \A k \in Keys : stores[k] <= created
  /\ \A s \in disposed : s <= created
  /\ \A c \in Callers : Registering(c) => mine[c] # NoStore /\ mine[c] <= created

\* A store belongs to one call and is cached under the key of that call only.
OneOwner ==
  \A c, d \in Callers : Registering(c) /\ Registering(d) /\ mine[c] = mine[d] => c = d
OwnKey ==
  \A c \in Callers, k \in Keys : Registering(c) /\ stores[k] = mine[c] => key[c] = k
OneKey ==
  \A k, l \in Keys : stores[k] # NoStore /\ stores[k] = stores[l] => k = l

\* A store that is being registered has not been disposed of, as long as the
\* client has not.
OwnIsLive ==
  ~isDisposed => \A c \in Callers : Registering(c) => mine[c] \notin disposed

\* Nobody creates a store for a key whose store has settled.
Settled ==
  \A k \in Keys : settled[k] # NoStore => stores[k] = settled[k] /\ Creating(k) = {}

Inv ==
  StoresTypeOK /\ Numbered /\ OneOwner /\ OwnKey /\ OneKey /\ OwnIsLive /\ Settled
    /\ CachedStoreIsLive

-----------------------------------------------------------------------------
(* The initial states, and types. *)

LEMMA InitInv == StoresInit => Inv
<1> SUFFICES ASSUME StoresInit PROVE Inv
  OBVIOUS
<1>1. StoresTypeOK
  <2>1. created \in 0..MaxStores /\ faults \in Nat /\ reconnects \in Nat
    BY EventStoresAssumption DEF StoresInit
  <2>2. standing \in [Callers -> {"idle", "looking", "ensuring", "registering", "reconnecting"}]
    BY DEF StoresInit
  <2>3. /\ stores \in [Keys -> Stores \cup {NoStore}] /\ settled \in [Keys -> Stores \cup {NoStore}]
        /\ mine \in [Callers -> Stores \cup {NoStore}] /\ retried \in [Callers -> BOOLEAN]
    BY DEF StoresInit
  <2> QED BY <2>1, <2>2, <2>3 DEF StoresInit, StoresTypeOK
<1> QED BY <1>1, EventStoresAssumption DEF Inv, StoresInit, Numbered, OneOwner, OwnKey, OneKey, OwnIsLive, Settled,
  CachedStoreIsLive, Registering, NoStore

LEMMA HandOutTypes ==
  ASSUME StoresTypeOK, NEW c \in Callers, NEW s \in Stores, HandOut(c, s)
  PROVE  /\ handed' \subseteq Stores
         /\ settled' \in [Keys -> Stores \cup {NoStore}]
         /\ standing' \in [Callers -> {"idle", "looking", "ensuring", "registering", "reconnecting"}]
BY DEF StoresTypeOK, HandOut

\* The types of what a failure changes.
LEMMA FailsTypes ==
  ASSUME StoresTypeOK, NEW c \in Callers, Fails(c)
  PROVE  /\ faults' \in Nat
         /\ standing' \in [Callers -> {"idle", "looking", "ensuring", "registering", "reconnecting"}]
         /\ retried' \in [Callers -> BOOLEAN]
         /\ standing'[c] \in {"idle", "reconnecting"}
         /\ \A d \in Callers \ {c} : standing'[d] = standing[d]
<1>1. faults' \in Nat
  BY DEF StoresTypeOK, Fails
<1>2. PICK state \in {"idle", "reconnecting"} : standing' = [standing EXCEPT ![c] = state]
  BY DEF Fails
<1>3. retried' = retried \/ retried' = [retried EXCEPT ![c] = TRUE]
  BY DEF Fails
<1> QED BY <1>1, <1>2, <1>3 DEF StoresTypeOK

LEMMA TypeStep ==
  ASSUME Inv, [StoresNext]_storeVars
  PROVE  StoresTypeOK'
<1> USE DEF Inv, StoresTypeOK
<1>1. ASSUME NEW c \in Callers, NEW k \in Keys, Call(c, k) PROVE StoresTypeOK'
  BY <1>1 DEF Call
<1>2. ASSUME NEW c \in Callers, LookUp(c) PROVE StoresTypeOK'
  <2>1. CASE isDisposed
    BY <1>2, <2>1 DEF LookUp
  <2>2. CASE ~isDisposed /\ Existing(key[c]) # NoStore
    <3>1. Existing(key[c]) \in Stores
      BY <2>2 DEF Existing
    <3> QED BY <1>2, <2>2, <3>1, HandOutTypes DEF LookUp
  <2>3. CASE ~isDisposed /\ Existing(key[c]) = NoStore
    BY <1>2, <2>3 DEF LookUp
  <2> QED BY <2>1, <2>2, <2>3
<1>3. ASSUME NEW c \in Callers, Ensured(c) PROVE StoresTypeOK'
  <2>1. created + 1 \in Stores /\ created' \in 0..MaxStores
    BY <1>3, EventStoresAssumption DEF Ensured, Stores
  <2> QED BY <1>3, <2>1 DEF Ensured
<1>4. ASSUME NEW c \in Callers, EnsureFails(c) PROVE StoresTypeOK'
  BY <1>4, FailsTypes DEF EnsureFails
<1>5. ASSUME NEW c \in Callers, Registered(c) PROVE StoresTypeOK'
  <2>1. mine[c] \in Stores
    BY <1>5 DEF Registered, Numbered, Registering
  <2> QED BY <1>5, <2>1, HandOutTypes DEF Registered
<1>6. ASSUME NEW c \in Callers, RegistrationFails(c) PROVE StoresTypeOK'
  <2>1. mine[c] \in Stores
    BY <1>6 DEF RegistrationFails, Numbered, Registering
  <2>2. stores' \in [Keys -> Stores \cup {NoStore}]
    BY <1>6 DEF RegistrationFails, Without
  <2> QED BY <1>6, <2>1, <2>2, FailsTypes DEF RegistrationFails
<1>7. CASE Reconnect
  BY <1>7 DEF Reconnect
<1>8. CASE Dispose
  BY <1>8 DEF Dispose, callVars
<1>9. CASE UNCHANGED storeVars
  BY <1>9 DEF storeVars, callVars
<1> QED BY <1>1, <1>2, <1>3, <1>4, <1>5, <1>6, <1>7, <1>8, <1>9 DEF StoresNext

-----------------------------------------------------------------------------
(* Steps that create no store and register none. *)

\* What the cache relies on while no store comes or goes.
Core == Numbered /\ OneOwner /\ OwnKey /\ OneKey /\ OwnIsLive /\ CachedStoreIsLive

LEMMA QuietCore ==
  ASSUME Inv, UNCHANGED <<stores, created, mine>>,
         ~isDisposed' => ~isDisposed /\ disposed' = disposed,
         \A s \in disposed' : s <= created,
         \A c \in Callers : Registering(c)' => Registering(c) /\ key'[c] = key[c]
  PROVE  Core'
BY DEF Inv, Core, Numbered, OneOwner, OwnKey, OneKey, OwnIsLive, CachedStoreIsLive, Registering

\* A key stays settled while no call begins to create a store for it.
LEMMA QuietSettled ==
  ASSUME Inv, UNCHANGED <<stores, settled>>,
         \A c \in Callers : standing'[c] \in {"ensuring", "registering"} =>
           key'[c] = key[c] /\ (standing[c] \in {"ensuring", "registering"} \/ settled[key[c]] = NoStore)
  PROVE  Settled'
BY DEF Inv, Settled, Creating

\* Handing a store out settles its key only when nobody creates another.
LEMMA HandOutSettled ==
  ASSUME Inv, NEW c \in Callers, NEW s \in Stores, HandOut(c, s), UNCHANGED <<stores, key>>
  PROVE  Settled'
<1> SUFFICES ASSUME NEW k \in Keys, settled'[k] # NoStore
             PROVE  stores'[k] = settled'[k] /\ Creating(k)' = {}
  BY DEF Settled
<1>1. Creating(k)' \subseteq Creating(k) \ {c}
  BY DEF Creating, HandOut, Inv, StoresTypeOK
<1>2. CASE settled[k] # NoStore
  BY <1>1, <1>2 DEF HandOut, Inv, Settled, StoresTypeOK
<1>3. CASE settled[k] = NoStore
  BY <1>1, <1>3 DEF HandOut, Inv, StoresTypeOK
<1> QED BY <1>2, <1>3

LEMMA CreatedIsStore == ASSUME Inv PROVE created \in Nat
BY EventStoresAssumption DEF Inv, StoresTypeOK

-----------------------------------------------------------------------------
(* The step. *)

LEMMA StepInv ==
  ASSUME Inv, [StoresNext]_storeVars
  PROVE  Inv'
<1>1. StoresTypeOK'
  BY TypeStep
<1> SUFFICES Core' /\ Settled'
  BY <1>1 DEF Inv, Core
<1>2. ASSUME NEW c \in Callers, NEW k \in Keys, Call(c, k) PROVE Core' /\ Settled'
  <2>1. \A d \in Callers : standing'[d] \in {"ensuring", "registering"} => d # c /\ standing'[d] = standing[d] /\ key'[d] = key[d]
    BY <1>2 DEF Call, Inv, StoresTypeOK
  <2>2. Core'
    BY <1>2, <2>1, QuietCore DEF Call, Registering, Inv, Numbered
  <2>3. Settled'
    BY <1>2, <2>1, QuietSettled DEF Call
  <2> QED BY <2>2, <2>3
<1>3. ASSUME NEW c \in Callers, LookUp(c) PROVE Core' /\ Settled'
  <2>0. standing[c] \notin {"ensuring", "registering"}
    BY <1>3 DEF LookUp
  <2>1. \A d \in Callers : Registering(d)' => d # c /\ standing'[d] = standing[d]
    BY <1>3 DEF LookUp, HandOut, Registering, Inv, StoresTypeOK
  <2>2. Core'
    BY <1>3, <2>1, QuietCore DEF LookUp, Registering, Inv, Numbered
  <2>3. CASE isDisposed \/ Existing(key[c]) = NoStore
    <3>1. settled' = settled /\ \A d \in Callers \ {c} : standing'[d] = standing[d]
      BY <1>3, <2>3 DEF LookUp, Inv, StoresTypeOK
    <3>2. standing'[c] \in {"ensuring", "registering"} => settled[key[c]] = NoStore
      BY <1>3, <2>3 DEF LookUp, Existing, Inv, StoresTypeOK, Settled
    <3> QED BY <1>3, <2>2, <3>1, <3>2, QuietSettled DEF LookUp
  <2>4. CASE ~isDisposed /\ Existing(key[c]) # NoStore
    <3>1. Existing(key[c]) \in Stores
      BY <2>4 DEF Existing, Inv, StoresTypeOK
    <3> QED BY <1>3, <2>2, <2>4, <3>1, HandOutSettled DEF LookUp
  <2> QED BY <2>3, <2>4
<1>4. ASSUME NEW c \in Callers, Ensured(c) PROVE Core' /\ Settled'
  <2> DEFINE new == created + 1
  <2>1. created \in Nat
    BY CreatedIsStore
  <2>2. /\ created' = new /\ mine' = [mine EXCEPT ![c] = new]
        /\ stores' = [stores EXCEPT ![key[c]] = new]
        /\ \A d \in Callers : Registering(d)' <=> d = c \/ Registering(d)
        /\ UNCHANGED <<disposed, isDisposed, key, settled>>
    BY <1>4 DEF Ensured, Registering, Inv, StoresTypeOK
  <2>3. /\ \A k \in Keys : stores[k] \in Nat /\ stores[k] < new
        /\ \A s \in disposed : s \in Nat /\ s < new
        /\ \A d \in Callers : Registering(d) => mine[d] \in Nat /\ mine[d] < new
    BY <2>1, EventStoresAssumption DEF Inv, StoresTypeOK, Numbered, Stores, NoStore
  <2>4. /\ \A k \in Keys : stores'[k] = IF k = key[c] THEN new ELSE stores[k]
        /\ \A d \in Callers : mine'[d] = IF d = c THEN new ELSE mine[d]
        /\ key[c] \in Keys
    BY <2>2 DEF Inv, StoresTypeOK
  <2>5. Numbered'
    BY <2>1, <2>2, <2>3, <2>4 DEF Numbered, NoStore, Inv
  <2>6. OneOwner'
    <3> SUFFICES ASSUME NEW d \in Callers, NEW e \in Callers, Registering(d)', Registering(e)', mine'[d] = mine'[e]
                 PROVE  d = e
      BY DEF OneOwner
    <3> QED BY <2>1, <2>2, <2>3, <2>4 DEF OneOwner, Inv
  <2>7. OwnKey'
    <3> SUFFICES ASSUME NEW d \in Callers, NEW k \in Keys, Registering(d)', stores'[k] = mine'[d]
                 PROVE  key'[d] = k
      BY DEF OwnKey
    <3> QED BY <2>1, <2>2, <2>3, <2>4 DEF OwnKey, Inv
  <2>8. OneKey'
    <3> SUFFICES ASSUME NEW k \in Keys, NEW l \in Keys, stores'[k] # NoStore, stores'[k] = stores'[l]
                 PROVE  k = l
      BY DEF OneKey
    <3> QED BY <2>1, <2>3, <2>4 DEF OneKey, Inv
  <2>9. OwnIsLive' /\ CachedStoreIsLive'
    BY <2>1, <2>2, <2>3, <2>4 DEF OwnIsLive, CachedStoreIsLive, Inv
  <2>10. Settled'
    <3> SUFFICES ASSUME NEW k \in Keys, settled[k] # NoStore
                 PROVE  stores'[k] = settled[k] /\ Creating(k)' = {}
      BY <2>2 DEF Settled
    <3>1. stores[k] = settled[k] /\ Creating(k) = {}
      BY DEF Inv, Settled
    <3>2. k # key[c]
      BY <1>4, <3>1 DEF Ensured, Creating
    <3>3. Creating(k)' = Creating(k)
      BY <1>4, <3>2 DEF Ensured, Creating, Inv, StoresTypeOK
    <3> QED BY <2>4, <3>1, <3>2, <3>3
  <2> QED BY <2>5, <2>6, <2>7, <2>8, <2>9, <2>10 DEF Core
<1>5. ASSUME NEW c \in Callers, EnsureFails(c) PROVE Core' /\ Settled'
  <2>1. standing'[c] \in {"idle", "reconnecting"} /\ \A d \in Callers \ {c} : standing'[d] = standing[d]
    BY <1>5, FailsTypes DEF EnsureFails, Inv
  <2>2. Core'
    BY <1>5, <2>1, QuietCore DEF EnsureFails, Registering, Inv, Numbered
  <2>3. Settled'
    BY <1>5, <2>1, QuietSettled DEF EnsureFails
  <2> QED BY <2>2, <2>3
<1>6. ASSUME NEW c \in Callers, Registered(c) PROVE Core' /\ Settled'
  <2>1. mine[c] \in Stores
    BY <1>6 DEF Registered, Inv, StoresTypeOK, Numbered, Registering
  <2>2. \A d \in Callers : Registering(d)' => Registering(d)
    BY <1>6 DEF Registered, HandOut, Registering, Inv, StoresTypeOK
  <2>3. Core'
    BY <1>6, <2>2, QuietCore DEF Registered, Inv, Numbered
  <2>4. Settled'
    BY <1>6, <2>1, HandOutSettled DEF Registered
  <2> QED BY <2>3, <2>4
<1>7. ASSUME NEW c \in Callers, RegistrationFails(c) PROVE Core' /\ Settled'
  <2>1. Registering(c) /\ mine[c] \in Stores /\ mine[c] <= created
    BY <1>7 DEF RegistrationFails, Inv, StoresTypeOK, Numbered, Registering
  <2>2. \A d \in Callers : standing'[d] \in {"ensuring", "registering"} => d # c /\ standing'[d] = standing[d]
    BY <1>7, FailsTypes DEF RegistrationFails, Inv
  <2>3. \A k \in Keys : stores'[k] = IF stores[k] = mine[c] THEN NoStore ELSE stores[k]
    <3> SUFFICES ASSUME NEW k \in Keys PROVE stores'[k] = IF stores[k] = mine[c] THEN NoStore ELSE stores[k]
      OBVIOUS
    <3>1. stores[k] = mine[c] => k = key[c]
      BY <2>1 DEF Inv, OwnKey
    <3> QED BY <1>7, <3>1 DEF RegistrationFails, Without, Inv, StoresTypeOK
  <2>4. UNCHANGED <<created, mine, key, isDisposed, settled>> /\ disposed' = disposed \cup {mine[c]}
    BY <1>7 DEF RegistrationFails
  <2>5. created \in Nat
    BY CreatedIsStore
  <2>6. Numbered'
    BY <2>1, <2>2, <2>3, <2>4, <2>5 DEF Numbered, Registering, NoStore, Inv
  <2>7. OneOwner'
    BY <2>2, <2>4 DEF OneOwner, Registering, Inv
  <2>8. OwnKey'
    BY <2>2, <2>3, <2>4 DEF OwnKey, Registering, Inv, Numbered
  <2>9. OneKey'
    BY <2>3 DEF OneKey, Inv
  <2>10. OwnIsLive'
    BY <2>1, <2>2, <2>4 DEF OwnIsLive, OneOwner, Registering, Inv
  <2>11. CachedStoreIsLive'
    <3>1. NoStore \notin disposed'
      BY <1>1 DEF StoresTypeOK, Stores, NoStore
    <3> QED BY <2>3, <2>4, <3>1 DEF CachedStoreIsLive, Inv
  <2>12. Settled'
    <3> SUFFICES ASSUME NEW k \in Keys, settled[k] # NoStore
                 PROVE  stores'[k] = settled[k] /\ Creating(k)' = {}
      BY <2>4 DEF Settled
    <3>1. stores[k] = settled[k] /\ Creating(k) = {}
      BY DEF Inv, Settled
    <3>2. key[c] # k
      BY <2>1, <3>1 DEF Creating, Registering
    <3>3. stores[k] # mine[c]
      BY <2>1, <3>2 DEF Inv, OwnKey
    <3>4. Creating(k)' \subseteq Creating(k)
      BY <2>2, <2>4 DEF Creating
    <3> QED BY <2>3, <3>1, <3>3, <3>4
  <2> QED BY <2>6, <2>7, <2>8, <2>9, <2>10, <2>11, <2>12 DEF Core
<1>8. CASE Reconnect
  <2>1. \A c \in Callers : standing'[c] \in {"ensuring", "registering"} => standing'[c] = standing[c]
    BY <1>8 DEF Reconnect
  <2>2. Core'
    BY <1>8, <2>1, QuietCore DEF Reconnect, Registering, Inv, Numbered
  <2>3. Settled'
    BY <1>8, <2>1, QuietSettled DEF Reconnect
  <2> QED BY <2>2, <2>3
<1>9. CASE Dispose
  <2>1. \A s \in disposed' : s <= created
    BY <1>9 DEF Dispose, Inv, Numbered
  <2>2. Core'
    BY <1>9, <2>1, QuietCore DEF Dispose, callVars, Registering
  <2>3. Settled'
    BY <1>9, QuietSettled DEF Dispose, callVars
  <2> QED BY <2>2, <2>3
<1>10. CASE UNCHANGED storeVars
  <2>1. Core'
    BY <1>10, QuietCore DEF storeVars, callVars, Registering, Inv, Numbered
  <2>2. Settled'
    BY <1>10, QuietSettled DEF storeVars, callVars
  <2> QED BY <2>1, <2>2
<1> QED BY <1>2, <1>3, <1>4, <1>5, <1>6, <1>7, <1>8, <1>9, <1>10 DEF StoresNext

LEMMA Invariant == StoresSpec => []Inv
<1>1. StoresInit => Inv
  BY InitInv
<1>2. Inv /\ [StoresNext]_storeVars => Inv'
  BY StepInv
<1> QED BY <1>1, <1>2, PTL DEF StoresSpec

-----------------------------------------------------------------------------
(* The theorems. *)

\* The variables of the cache keep their types (ChronicleClient.ts:176-210).
THEOREM TypeCorrect == StoresSpec => []StoresTypeOK
<1>1. Inv => StoresTypeOK
  BY DEF Inv
<1> QED BY <1>1, Invariant, PTL

\* The cache holds no store that is disposed of because its registration failed,
\* whatever calls overlap (the cleanup of ChronicleClient.ts:205-208).
THEOREM CachedStaysLive == StoresSpec => []CachedStoreIsLive
<1>1. Inv => CachedStoreIsLive
  BY DEF Inv
<1> QED BY <1>1, Invariant, PTL

\* A cached store that was handed out when no other was being created is the
\* store of its key for good (ChronicleClient.ts:179-186, 200-206).
THEOREM SettledForGood == StoresSpec => SettledStoreStays
<1>1. Inv /\ Inv' /\ [StoresNext]_storeVars =>
        [\A k \in Keys : settled[k] # NoStore => stores'[k] = settled[k] /\ settled'[k] = settled[k]]_storeVars
  <2> SUFFICES ASSUME Inv, Inv', StoresNext, NEW k \in Keys, settled[k] # NoStore
               PROVE  stores'[k] = settled[k] /\ settled'[k] = settled[k]
    OBVIOUS
  <2>1. stores[k] = settled[k] /\ Creating(k) = {}
    BY DEF Inv, Settled
  <2>2. settled'[k] = settled[k]
    <3>1. ASSUME NEW c \in Callers, NEW s, HandOut(c, s) PROVE settled'[k] = settled[k]
      BY <2>1, <3>1 DEF HandOut, Inv, StoresTypeOK
    <3> QED BY <3>1 DEF StoresNext, Call, LookUp, Ensured, EnsureFails, Registered, RegistrationFails, Reconnect, Dispose
  <2> QED BY <2>2 DEF Inv, Settled
<1> QED BY <1>1, Invariant, PTL DEF StoresSpec, SettledStoreStays

\* Only the store whose own registration failed leaves the cache
\* (ChronicleClient.ts:206).
THEOREM OnlyFailedAreDropped == StoresSpec => OnlyFailedStoresAreDropped
<1>1. Inv /\ [StoresNext]_storeVars =>
        [\A k \in Keys : stores[k] # NoStore /\ stores'[k] = NoStore => stores[k] \in disposed']_storeVars
  <2> SUFFICES ASSUME Inv, StoresNext, NEW k \in Keys, stores[k] # NoStore, stores'[k] = NoStore
               PROVE  stores[k] \in disposed'
    OBVIOUS
  <2>1. PICK c \in Callers : RegistrationFails(c)
    <3>1. stores' # stores
      BY DEF Inv, StoresTypeOK
    <3>2. ASSUME NEW c \in Callers, Ensured(c) PROVE FALSE
      BY <3>2, EventStoresAssumption DEF Ensured, Inv, StoresTypeOK, NoStore
    <3> QED BY <3>1, <3>2 DEF StoresNext, Call, LookUp, EnsureFails, Registered, Reconnect, Dispose
  <2> QED BY <2>1 DEF RegistrationFails, Without, Inv, StoresTypeOK
<1> QED BY <1>1, Invariant, PTL DEF StoresSpec, OnlyFailedStoresAreDropped
=============================================================================
