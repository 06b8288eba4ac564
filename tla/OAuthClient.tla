---------------------------- MODULE OAuthClient -----------------------------
(***************************************************************************)
(* OAuth access tokens for upstream calls (onr-core/pkg/oauthclient and    *)
(* its use in onr/internal/proxy): a memory cache, an optional file, one   *)
(* token request in flight whose outcome is shared with every request      *)
(* that waits for it, and the proxy's single retry after a 401.            *)
(*                                                                         *)
(* All state is kept per cache key (provider, identity, API key), so the   *)
(* module follows one key.  A token is the number of its issue; a flight   *)
(* is named by the request that owns it, which closes it before it does    *)
(* anything else.                                                          *)
(***************************************************************************)
EXTENDS Naturals

CONSTANTS
    Requests,       \* goroutines serving client requests
    MaxTokens,      \* bound on the tokens the endpoint issues
    Nil

ASSUME BoundsAssumption == MaxTokens \in Nat
ASSUME NilAssumption == Nil \notin Requests /\ Nil \notin Nat

VARIABLES
    persistEnabled, \* oauth.token_persist.enabled, read once
    cache,      \* Client.cache[key]
    file,       \* the persisted token
    flight,     \* the owner of Client.inFlight[key]
    step,       \* request -> where it is
    tok,        \* request -> token in hand; Nil stands for an error
    on,         \* request -> owner of the flight it waits for
    rejected,   \* request -> token its first attempt was refused for
    issued,     \* tokens issued so far
    stale       \* tokens within refresh skew of their expiry

tokenVars == <<persistEnabled, cache, file, flight, step, tok, on, rejected, issued, stale>>

Tokens == 1..MaxTokens
Flying == {"request", "store", "save", "land"}
Steps == Flying \cup {"idle", "get", "load", "fill", "begin", "wait", "close",
                      "send", "invalidate"}

TokenInit ==
    /\ persistEnabled \in BOOLEAN
    /\ cache = Nil /\ file = Nil /\ flight = Nil
    /\ step = [r \in Requests |-> "idle"]
    /\ tok = [r \in Requests |-> Nil]
    /\ on = [r \in Requests |-> Nil]
    /\ rejected = [r \in Requests |-> Nil]
    /\ issued = 0 /\ stale = {}

MoveTo(r, p) == step' = [step EXCEPT ![r] = p]
Hold(r, t) == tok' = [tok EXCEPT ![r] = t]
Fresh(t) == t # Nil /\ t \notin stale

\* doUpstreamRequest, first attempt.
Start(r) ==
    /\ step[r] = "idle"
    /\ MoveTo(r, "get")
    /\ UNCHANGED <<cache, file, flight, tok, on, rejected, issued, stale>>

\* GetToken up to getCachedValid, under the mutex.
GetCached(r) ==
    /\ step[r] = "get"
    /\ IF Fresh(cache)
       THEN Hold(r, cache) /\ MoveTo(r, "send")
       ELSE UNCHANGED tok /\ MoveTo(r, IF persistEnabled THEN "load" ELSE "begin")
    /\ UNCHANGED <<cache, file, flight, on, rejected, issued, stale>>

\* loadPersistedValid, without the mutex; the file may be unreadable.
LoadPersisted(r) ==
    /\ step[r] = "load"
    /\ \/ Fresh(file) /\ Hold(r, file) /\ MoveTo(r, "fill")
       \/ UNCHANGED tok /\ MoveTo(r, "begin")
    /\ UNCHANGED <<cache, file, flight, on, rejected, issued, stale>>

Fill(r) ==
    /\ step[r] = "fill"
    /\ cache' = tok[r]
    /\ MoveTo(r, "send")
    /\ UNCHANGED <<file, flight, tok, on, rejected, issued, stale>>

\* beginFlight: own the flight or wait for its owner.
BeginFlightMutNoSharing(r) ==
    /\ step[r] = "begin"
    /\ flight' = r /\ UNCHANGED on /\ MoveTo(r, "request")
    /\ UNCHANGED <<cache, file, tok, rejected, issued, stale>>

BeginFlight(r) ==
    /\ step[r] = "begin"
    /\ IF flight = Nil
       THEN flight' = r /\ UNCHANGED on /\ MoveTo(r, "request")
       ELSE UNCHANGED flight /\ on' = [on EXCEPT ![r] = flight] /\ MoveTo(r, "wait")
    /\ UNCHANGED <<cache, file, tok, rejected, issued, stale>>

\* requestToken with the owner's context: a token ...
RequestToken(r) ==
    /\ step[r] = "request" /\ issued < MaxTokens
    /\ issued' = issued + 1
    /\ Hold(r, issued')
    /\ MoveTo(r, "store")
    /\ UNCHANGED <<cache, file, flight, on, rejected, stale>>

\* ... or an error: bad credentials, a refusal, a bad answer, the timeout, or
\* the owner's client going away.
RequestFails(r) ==
    /\ step[r] = "request"
    /\ Hold(r, Nil)
    /\ MoveTo(r, "land")
    /\ UNCHANGED <<cache, file, flight, on, rejected, issued, stale>>

Store(r) ==
    /\ step[r] = "store"
    /\ cache' = tok[r]
    /\ MoveTo(r, IF persistEnabled THEN "save" ELSE "land")
    /\ UNCHANGED <<file, flight, tok, on, rejected, issued, stale>>

\* savePersisted writes a temporary file and renames it; errors are dropped.
SavePersistedMutInPlace(r) ==
    /\ step[r] = "save"
    /\ file' \in {Nil, tok[r]}
    /\ MoveTo(r, "land")
    /\ UNCHANGED <<cache, flight, tok, on, rejected, issued, stale>>

SavePersisted(r) ==
    /\ step[r] = "save"
    /\ file' \in {file, tok[r]}
    /\ MoveTo(r, "land")
    /\ UNCHANGED <<cache, flight, tok, on, rejected, issued, stale>>

\* endFlight leaves the map under the mutex ...
Land(r) ==
    /\ step[r] = "land"
    /\ flight' = IF flight = r THEN Nil ELSE flight
    /\ MoveTo(r, "close")
    /\ UNCHANGED <<cache, file, tok, on, rejected, issued, stale>>

\* ... and closes the channel: everybody who waits returns the owner's token
\* and error, which no longer change.
SharingMutOnlyOwner(r) == {r}
Sharing(r) == {q \in Requests : q = r \/ (step[q] = "wait" /\ on[q] = r)}

Deliver(r) ==
    /\ step' = [q \in Requests |-> IF q \notin Sharing(r) THEN step[q]
                                   ELSE IF tok[r] = Nil THEN "idle" ELSE "send"]
    /\ tok' = [q \in Requests |-> IF q \in Sharing(r) THEN tok[r] ELSE tok[q]]
    /\ rejected' = [q \in Requests |-> IF q \in Sharing(r) /\ tok[r] = Nil
                                       THEN Nil ELSE rejected[q]]
    /\ on' = [q \in Requests |-> IF q \in Sharing(r) THEN Nil ELSE on[q]]

CloseMutCachesAgain(r) ==
    /\ step[r] = "close"
    /\ Deliver(r)
    /\ cache' = IF tok[r] = Nil THEN cache ELSE tok[r]
    /\ UNCHANGED <<file, flight, issued, stale>>

Close(r) ==
    /\ step[r] = "close"
    /\ Deliver(r)
    /\ UNCHANGED <<cache, file, flight, issued, stale>>

\* httpc.Do: answered, or failed by the write timeout or the network.
Finish(r) ==
    /\ MoveTo(r, "idle") /\ Hold(r, Nil)
    /\ rejected' = [rejected EXCEPT ![r] = Nil]

Answered(r) ==
    /\ step[r] = "send"
    /\ Finish(r)
    /\ UNCHANGED <<cache, file, flight, on, issued, stale>>

UnauthorizedMutKeepsRetrying(r) ==
    /\ step[r] = "send"
    /\ rejected' = [rejected EXCEPT ![r] = tok[r]]
    /\ Hold(r, Nil)
    /\ MoveTo(r, "invalidate")
    /\ UNCHANGED <<cache, file, flight, on, issued, stale>>

\* A 401 to the first attempt, for whatever reason the upstream has.
Unauthorized(r) ==
    /\ step[r] = "send" /\ rejected[r] = Nil
    /\ rejected' = [rejected EXCEPT ![r] = tok[r]]
    /\ Hold(r, Nil)
    /\ MoveTo(r, "invalidate")
    /\ UNCHANGED <<cache, file, flight, on, issued, stale>>

\* Invalidate empties the memory cache, not the file; the second attempt asks again.
Invalidate(r) ==
    /\ step[r] = "invalidate"
    /\ cache' = Nil
    /\ MoveTo(r, "get")
    /\ UNCHANGED <<file, flight, tok, on, rejected, issued, stale>>

\* The environment: tokens age; the process restarts.
Expire(t) ==
    /\ t <= issued /\ t \notin stale
    /\ stale' = stale \cup {t}
    /\ UNCHANGED <<cache, file, flight, step, tok, on, rejected, issued>>

Restart ==
    /\ cache' = Nil /\ flight' = Nil
    /\ step' = [r \in Requests |-> "idle"]
    /\ tok' = [r \in Requests |-> Nil]
    /\ on' = [r \in Requests |-> Nil]
    /\ rejected' = [r \in Requests |-> Nil]
    /\ UNCHANGED <<file, issued, stale>>

\* What the code does by itself once it serves request r.
TokenStep(r) ==
    /\ \/ GetCached(r) \/ LoadPersisted(r) \/ Fill(r) \/ BeginFlight(r)
       \/ RequestToken(r) \/ RequestFails(r) \/ Store(r) \/ SavePersisted(r)
       \/ Land(r) \/ Close(r) \/ Answered(r) \/ Unauthorized(r) \/ Invalidate(r)
    /\ UNCHANGED persistEnabled

Environment ==
    /\ \/ \E r \in Requests : Start(r)
       \/ \E t \in Tokens : Expire(t)
       \/ Restart
    /\ UNCHANGED persistEnabled

TokenNext == Environment \/ \E r \in Requests : TokenStep(r)

\* Goroutines run; the token request and the upstream call have timeouts.
TokenSpec == TokenInit /\ [][TokenNext]_tokenVars /\ \A r \in Requests : WF_tokenVars(TokenStep(r))

-----------------------------------------------------------------------------

TokenTypeOK ==
    /\ persistEnabled \in BOOLEAN
    /\ cache \in Tokens \cup {Nil} /\ file \in Tokens \cup {Nil}
    /\ flight \in Requests \cup {Nil}
    /\ step \in [Requests -> Steps]
    /\ tok \in [Requests -> Tokens \cup {Nil}]
    /\ \A r \in Requests : step[r] = "send" => tok[r] # Nil
    /\ on \in [Requests -> Requests \cup {Nil}]
    /\ rejected \in [Requests -> Tokens \cup {Nil}]
    /\ issued \in 0..MaxTokens
    /\ stale \subseteq Tokens

\* At most one token request per key is on its way, and the map names its owner,
\* so whoever misses the cache meanwhile waits for it instead of asking too.  A
\* burst may still ask more than once, one after the other: GetToken does not look
\* at the cache again after beginFlight, so a request that missed before the
\* flight landed and begins after it asks for a token of its own.
SingleFlight ==
    \A r \in Requests : step[r] \in Flying <=> flight = r

WaitersHaveAFlight ==
    \A r \in Requests :
        step[r] = "wait" => on[r] # Nil /\ step[on[r]] \in Flying \cup {"close"}

\* Whoever waits, waits for a flight whose owner has yet to close it, though
\* the channel is closed after the flight left the map, and nobody goes on to
\* the upstream with the empty token that a failed flight shares.
WaitersAreServed ==
    /\ WaitersHaveAFlight
    /\ \A r \in Requests : step[r] = "send" => tok[r] # Nil

\* The file never goes back to an older token, though it is written after the
\* mutex was released.
DiskMovesForward ==
    [][file # Nil => file' # Nil /\ file' >= file]_tokenVars

\* As long as tokens are not reloaded from a file, only the newest token issued
\* enters the memory cache, and a request in flight was refused for older ones
\* only: what it invalidated is not put back by a slower request.
CacheMovesForward ==
    [][~persistEnabled => \A t \in Tokens : cache' = t /\ cache # t =>
          /\ t = issued
          /\ \A r \in Requests : rejected[r] # Nil => rejected[r] < t]_tokenVars

\* Neither place goes back: the file holds no older token after a newer one, over
\* restarts too, and without a file the cache takes in only the newest token, and
\* none that a request in flight was refused for.
TokensMoveForward == DiskMovesForward /\ CacheMovesForward

\* A request that starts ends: as the owner of a flight, as one that waits,
\* and on its second attempt.
RequestsEnd == \A r \in Requests : step[r] # "idle" ~> step[r] = "idle"

=============================================================================
