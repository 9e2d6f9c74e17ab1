---------------------------- MODULE TokenProvider ----------------------------
(***************************************************************************)
(* The access token that all calls on a connection share                   *)
(* (connection/TokenProvider.ts) and the middleware that puts it on every  *)
(* call (ChronicleConnection.createAuthMiddleware): cached until shortly   *)
(* before it expires, requested once for everyone, requested anew when the *)
(* kernel rejects it, and not requested again soon after a failure.        *)
(*                                                                         *)
(* A promise and those who await it settle in one step.                    *)
(***************************************************************************)
EXTENDS Naturals

CONSTANTS
  Calls,          \* concurrent calls to the kernel
  Margin,         \* TOKEN_REFRESH_MARGIN_MS
  RetryDelay,     \* FAILED_FETCH_RETRY_DELAY_MS
  Lifetimes,      \* what expires_in may say, 0 being nothing usable
  DefaultLifetime, \* DEFAULT_TOKEN_EXPIRY_SECONDS
  Never,          \* no failure to wait after
  MaxTime,        \* bound: the clock
  MaxTokens,      \* bound: tokens issued
  MaxFailures,    \* bound: token requests that fail
  MaxRejections   \* bound: calls the kernel rejects as unauthenticated

ASSUME TokenProviderAssumption ==
  /\ Margin \in Nat /\ RetryDelay \in Nat \ {0}
  /\ Lifetimes \subseteq Nat /\ DefaultLifetime \in Nat \ {0}
  /\ Never \notin Nat
  /\ MaxTime \in Nat /\ MaxTokens \in Nat /\ MaxFailures \in Nat /\ MaxRejections \in Nat

NoToken == 0

VARIABLES
  now,        \* the clock
  cache,      \* _accessToken, _expiresAt, _lastFailedFetch, _lastFetchError
  flight,     \* whether _refreshPromise is set
  requests,   \* token requests under way
  pc,         \* where each call stands
  used,       \* the token of each call
  issued,     \* tokens issued so far
  failures,   \* token requests that failed so far
  rejections, \* calls that were rejected so far
  outage      \* since the last token: the first failure, failures and refreshes

vars == <<now, cache, flight, requests, pc, used, issued, failures, rejections, outage>>

Empty == [token |-> NoToken, expiresAt |-> 0, lastFailed |-> Never, failure |-> "none"]
NoOutage == [since |-> Never, errors |-> 0, forced |-> 0]

TypeOK ==
  /\ now \in Nat
  /\ cache \in [token : Nat, expiresAt : Nat, lastFailed : Nat \cup {Never},
                failure : {"none", "error", "rejected"}]
  /\ flight \in BOOLEAN /\ requests \in Nat
  /\ pc \in [Calls -> {"idle", "acquiring", "sent", "refreshing", "resent"}]
  /\ used \in [Calls -> Nat]
  /\ issued \in Nat /\ failures \in Nat /\ rejections \in Nat
  /\ outage \in [since : Nat \cup {Never}, errors : Nat, forced : Nat]

Init ==
  /\ now = 0
  /\ cache = Empty
  /\ flight = FALSE /\ requests = 0
  /\ pc = [c \in Calls |-> "idle"]
  /\ used = [c \in Calls |-> NoToken]
  /\ issued = 0 /\ failures = 0 /\ rejections = 0
  /\ outage = NoOutage

-----------------------------------------------------------------------------

Fresh(known) == known.token # NoToken /\ known.expiresAt > now + Margin

\* cachedTokenWhileValid.  Mutant: whatever is cached.
WhateverIsCached(known) == known.token
CachedWhileValid(known) == IF now < known.expiresAt THEN known.token ELSE NoToken

\* isThrottled: a rejection of the credentials is not waited after.  Mutant:
\* only while there is a cached token to go on with.
ThrottledWithToken(known) ==
  known.token # NoToken /\ known.lastFailed # Never /\ now < known.lastFailed + RetryDelay
Throttled(known) ==
  known.failure # "rejected" /\ known.lastFailed # Never
    /\ now < known.lastFailed + RetryDelay

\* The token request that is under way is shared.  Mutant: only when a token is cached.
SharedIfCached(known) == flight /\ known.token # NoToken
Shared(known) == flight

\* What refresh() leaves of the cache.  Mutant: the token, to fall back on.
TokenKept(known) == [known EXCEPT !.lastFailed = Never, !.failure = "none"]
Cleared(known) == Empty

\* getAccessToken() of call c with the cache as known, which awaits the token at
\* "waiting" and goes on to "going".
GetAccessToken(c, known, waiting, going) ==
  LET at(state, token) == /\ pc' = [pc EXCEPT ![c] = state]
                          /\ used' = [used EXCEPT ![c] = token]
  IN /\ cache' = known
     /\ \/ Fresh(known) /\ at(going, known.token) /\ UNCHANGED <<flight, requests>>
        \/ ~Fresh(known) /\ Shared(known) /\ at(waiting, used[c]) /\ UNCHANGED <<flight, requests>>
        \/ ~Fresh(known) /\ ~Shared(known) /\ Throttled(known)
             /\ at(going, CachedWhileValid(known)) /\ UNCHANGED <<flight, requests>>
        \/ ~Fresh(known) /\ ~Shared(known) /\ ~Throttled(known)
             /\ at(waiting, used[c]) /\ flight' = TRUE /\ requests' = requests + 1

\* A call begins: authMiddleware asks for the token.
Begin(c) ==
  /\ pc[c] = "idle"
  /\ GetAccessToken(c, cache, "acquiring", "sent")
  /\ UNCHANGED <<now, issued, failures, rejections, outage>>

\* Those who await the token go on with it; without one, a call is sent all the
\* same, and a call that was rejected fails.
Settle(token) ==
  /\ flight' = FALSE /\ requests' = requests - 1
  /\ pc' = [c \in Calls |->
       CASE pc[c] = "acquiring" -> "sent"
         [] pc[c] = "refreshing" -> IF token # NoToken THEN "resent" ELSE "idle"
         [] OTHER -> pc[c]]
  /\ used' = [c \in Calls |->
       IF pc[c] = "acquiring" \/ (pc[c] = "refreshing" /\ token # NoToken) THEN token ELSE used[c]]

\* lifetimeSecondsFrom.
LifetimeOf(expiresIn) == IF expiresIn > 0 THEN expiresIn ELSE DefaultLifetime

FetchSucceeds ==
  /\ requests > 0
  /\ issued < MaxTokens /\ issued' = issued + 1
  /\ \E expiresIn \in Lifetimes :
       cache' = [Empty EXCEPT !.token = issued + 1, !.expiresAt = now + LifetimeOf(expiresIn)]
  /\ Settle(issued + 1)
  /\ outage' = NoOutage
  /\ UNCHANGED <<now, failures, rejections>>

FetchFails ==
  /\ requests > 0
  /\ failures < MaxFailures /\ failures' = failures + 1
  /\ \E failure \in {"error", "rejected"} :
       /\ cache' = [cache EXCEPT !.lastFailed = now, !.failure = failure]
       /\ outage' = [outage EXCEPT
            !.since = IF @ = Never THEN now ELSE @,
            !.errors = IF failure = "error" THEN @ + 1 ELSE @]
  /\ Settle(CachedWhileValid(cache))
  /\ UNCHANGED <<now, issued, rejections>>

\* The kernel answers, anything but UNAUTHENTICATED, or for the second time; or
\* the call is aborted, which leaves the token request to the others.
Ends(c) ==
  /\ pc[c] # "idle"
  /\ pc' = [pc EXCEPT ![c] = "idle"]
  /\ used' = [used EXCEPT ![c] = NoToken]
  /\ UNCHANGED <<now, cache, flight, requests, issued, failures, rejections, outage>>

\* The kernel rejects the token of a unary call: refresh(), to try once more.
Rejected(c) ==
  /\ pc[c] = "sent" /\ used[c] # NoToken
  /\ rejections < MaxRejections /\ rejections' = rejections + 1
  /\ GetAccessToken(c, Cleared(cache), "refreshing", "resent")
  /\ outage' = [outage EXCEPT !.forced = @ + 1]
  /\ UNCHANGED <<now, issued, failures>>

Tick ==
  /\ now < MaxTime /\ now' = now + 1
  /\ UNCHANGED <<cache, flight, requests, pc, used, issued, failures, rejections, outage>>

Next ==
  \/ \E c \in Calls : Begin(c) \/ Ends(c) \/ Rejected(c)
  \/ FetchSucceeds \/ FetchFails
  \/ Tick

Spec == Init /\ [][Next]_vars

-----------------------------------------------------------------------------
(* Properties. *)

\* However calls, refreshes and aborted calls fall together, at most one token
\* request is under way, and it is the one that calls are waiting for.
OneRequestAtATime ==
  /\ requests = (IF flight THEN 1 ELSE 0)
  /\ \A c \in Calls : pc[c] \in {"acquiring", "refreshing"} => flight

\* No call takes a token that has expired by then, fallbacks on the cached token
\* included ("while it is still actually valid", TokenProvider.ts:56-57).
TokenIsValidWhenTaken ==
  [][\A c \in Calls : used'[c] \notin {NoToken, used[c]} =>
       used'[c] = cache'.token /\ now < cache'.expiresAt]_vars

\* A call that is retried because the kernel rejected its token never takes that
\* token again, whoever asked for a token in between and whatever failed.
RetryTakesNewToken ==
  [][\A c \in Calls : pc'[c] = "resent" /\ pc[c] # "resent" => used'[c] # used[c]]_vars

\* "an auth outage does not turn every RPC into a token request"
\* (TokenProvider.ts:11-12): since the last token, one failure for each delay
\* that has passed, and one more for each token that the kernel rejected.
PacedInOutage ==
  outage.since # Never =>
    outage.errors <= 1 + (now - outage.since) \div RetryDelay + outage.forced
=============================================================================
