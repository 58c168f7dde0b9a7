------------------------------- MODULE KeySet -------------------------------
(***************************************************************************)
(* The issuer's signing keys, cached (keySet), under the verifications     *)
(* that need one.  One mutex is held across the fetch, so lookups queue    *)
(* behind it; time passes only while a fetch is out or nobody asks.  A     *)
(* token is the key id of its header: signatures and claims are the        *)
(* parser's.  The issuer rotates its keys and may fail to answer.  Times   *)
(* are kept as ages, which stop growing at MaxAge.                         *)
(***************************************************************************)
EXTENDS Integers, Sequences, FiniteSets

CONSTANTS
    Callers,    \* requests being authenticated
    Kids,       \* key ids, of the issuer or made up
    Ttl,        \* Config.CacheTTL
    Floor,      \* minRefreshInterval
    Patience,   \* the HTTP client's Timeout
    MaxAge      \* bound: ages, no less than any age that matters

ASSUME KeySetAssumption ==
    /\ Ttl \in Nat /\ Floor \in Nat /\ Patience \in Nat /\ MaxAge \in Nat
    /\ 0 < Floor /\ 0 < Ttl
    /\ Ttl + Patience <= MaxAge /\ Floor + Patience <= MaxAge

ASSUME CallersAssumption == IsFiniteSet(Callers)

VARIABLES
    issued,     \* keys the issuer publishes and this service can use
    since,      \* per key: how long ago it was published or retired
    keys,       \* keySet.keys; {} is nil: fetch never stores an empty map
    age,        \* how long ago keySet.fetchedAt was
    line,       \* lookups waiting for keySet.mu, first come first
    fetching,   \* the fetch under the mutex, if any: << >> or <<record>>
    lookup,     \* per caller: its key id, how long it has waited, how it ended
    extra       \* the last fetch an unknown id forced: how long ago, if it failed

cache   == <<keys, age>>
issuer  == <<issued, since>>
keyVars == <<issuer, cache, line, fetching, lookup, extra>>

Open  == {"waiting", "fetching"}
Ended == {"idle", "accepted", "kept", "refused", "failed"}
Idle  == [kid |-> CHOOSE k \in Kids : TRUE, waited |-> 0, stage |-> "idle"]

-----------------------------------------------------------------------------
(* The issuer and time.                                                     *)

\* The issuer publishes another set of keys.
Rotate(ks) ==
    /\ ks # issued
    /\ issued' = ks
    /\ since' = [k \in Kids |-> IF (k \in ks) = (k \in issued) THEN since[k] ELSE 0]
    /\ UNCHANGED <<cache, line, fetching, lookup, extra>>

Older(a) == IF a < MaxAge THEN a + 1 ELSE a

Age ==
    /\ since' = [k \in Kids |-> Older(since[k])]
    /\ age' = Older(age)
    /\ lookup' = [c \in Callers |->
                     IF lookup[c].stage \in Open
                     THEN [lookup[c] EXCEPT !.waited = Older(@)] ELSE Idle]
    /\ fetching' = [i \in DOMAIN fetching |-> [fetching[i] EXCEPT !.out = Older(@)]]
    /\ extra' = [extra EXCEPT !.ago = Older(@)]
    /\ UNCHANGED <<issued, keys, line>>

\* Fault: an HTTP client without a timeout.
PassTimeUnbounded == (fetching = << >> => line = << >>) /\ Age

\* A fetch is out for at most the client's timeout.
PassTime ==
    /\ fetching = << >> => line = << >>
    /\ fetching # << >> => fetching[1].out < Patience
    /\ Age

-----------------------------------------------------------------------------
(* keySet.key.                                                              *)

\* Authenticator.require: a token naming k is presented; Verify asks for the key.
Present(c, k) ==
    /\ lookup[c].stage \in Ended
    /\ lookup' = [lookup EXCEPT ![c] = [kid |-> k, waited |-> 0, stage |-> "waiting"]]
    /\ line' = Append(line, c)
    /\ UNCHANGED <<issuer, cache, fetching, extra>>

\* The lookup is over; nothing of it is kept but how it ended.
End(c, stage) == lookup' = [lookup EXCEPT ![c] = [Idle EXCEPT !.stage = stage]]

Stale == keys = {} \/ age >= Ttl

\* Fault: only the lifetime makes the set be fetched again.
RefreshDueLate == age >= Ttl

\* Fault: the floor is not looked at.
RefreshDueAlways == TRUE

\* An unknown id may force a fetch once the set is old enough.
RefreshDue == age >= Floor

\* The request goes out, under the mutex.
StartFetch(c, why) ==
    /\ fetching' = <<[by |-> c, why |-> why, out |-> 0, reply |-> << >>]>>
    /\ lookup' = [lookup EXCEPT ![c].stage = "fetching"]
    /\ extra' = IF why = "unknown" THEN [ago |-> 0, failed |-> FALSE] ELSE extra
    /\ UNCHANGED <<issuer, cache>>

Answer(c, stage) == End(c, stage) /\ UNCHANGED <<issuer, cache, fetching, extra>>

\* keySet.mu is held across the fetch.
MutexFree == fetching = << >>

\* Lock: the first in line looks the key up, or starts the fetch it needs.
Enter ==
    /\ MutexFree /\ line # << >>
    /\ line' = Tail(line)
    /\ LET c == Head(line)  k == lookup[c].kid
       IN  \/ Stale /\ StartFetch(c, "stale")
           \/ ~Stale /\ k \in keys /\ Answer(c, "accepted")
           \/ ~Stale /\ k \notin keys /\ RefreshDue /\ StartFetch(c, "unknown")
           \/ ~Stale /\ k \notin keys /\ ~RefreshDue /\ Answer(c, "refused")

-----------------------------------------------------------------------------
(* keySet.fetch.                                                            *)

\* The issuer answers with the keys it has now.
IssuerReplies ==
    /\ fetching # << >> /\ fetching[1].reply = << >>
    /\ fetching' = <<[fetching[1] EXCEPT !.reply = <<issued>>]>>
    /\ UNCHANGED <<issuer, cache, line, lookup, extra>>

\* The document has a key public() can use.
Usable == fetching # << >> /\ fetching[1].reply \notin {<< >>, <<{}>>}

\* The reply arrives: the set is replaced, dated now, and the lookup ends in it (a
\* set this fresh is below the floor).
FetchSucceeds ==
    /\ Usable
    /\ keys' = fetching[1].reply[1]
    /\ age' = 0
    /\ End(fetching[1].by, IF lookup[fetching[1].by].kid \in keys' THEN "accepted" ELSE "refused")
    /\ fetching' = << >>
    /\ UNCHANGED <<issuer, line, extra>>

\* The lookup of a failed fetch: an expired set still serves what it holds.
FailLookup ==
    /\ fetching # << >>
    /\ LET f == fetching[1]
           held == f.why = "stale" /\ lookup[f.by].kid \in keys
       IN  /\ End(f.by, IF held THEN "kept" ELSE "failed")
           /\ extra' = IF f.why = "unknown" THEN [extra EXCEPT !.failed = TRUE] ELSE extra
    /\ fetching' = << >>

\* No answer, an error status, a document that does not decode or has no usable key,
\* a caller that hung up: keys and date stay as they are.
FetchFails == FailLookup /\ UNCHANGED <<issuer, cache, line>>

-----------------------------------------------------------------------------
KeyInit ==
    /\ issued = Kids
    /\ since = [k \in Kids |-> MaxAge]
    /\ keys = {} /\ age = MaxAge
    /\ line = << >> /\ fetching = << >>
    /\ lookup = [c \in Callers |-> Idle]
    /\ extra = [ago |-> MaxAge, failed |-> FALSE]

KeyNext ==
    \/ \E ks \in SUBSET Kids : Rotate(ks)
    \/ PassTime
    \/ \E c \in Callers, k \in Kids : Present(c, k)
    \/ Enter \/ IssuerReplies \/ FetchSucceeds \/ FetchFails

KeySpec == KeyInit /\ [][KeyNext]_keyVars

-----------------------------------------------------------------------------
\* The cache and the mutex: one fetch at a time, made by the lookup that holds the
\* mutex, every other open lookup in line once.
KeyTypeOK ==
    /\ keys \subseteq Kids /\ issued \subseteq Kids
    /\ age \in 0 .. MaxAge /\ since \in [Kids -> 0 .. MaxAge]
    /\ \A c \in Callers :
          /\ lookup[c].stage \in Open \cup Ended
          /\ (lookup[c].stage = "waiting")
                <=> Cardinality({i \in DOMAIN line : line[i] = c}) = 1
          /\ (lookup[c].stage = "fetching") <=> (fetching # << >> /\ fetching[1].by = c)

Ends(c, stage) == lookup[c].stage \in Open /\ lookup'[c].stage = stage

\* What a lookup ends with is not far behind what the issuer publishes.
DecidedInTime ==
    \A c \in Callers :
        LET k == lookup[c].kid
        IN  /\ Ends(c, "accepted") /\ k \notin issued => since[k] < Ttl + Patience
            /\ Ends(c, "refused") /\ k \in issued => since[k] < Floor + Patience

\* The cache follows the issuer.  A key it retired is accepted for less than the
\* cache's lifetime and one slow fetch more, and past that only while the issuer
\* cannot be asked (the kept keys of keySet.key), never because a failure passed for a
\* refresh.  A key it publishes is refused for less than the floor and one slow fetch
\* more: rotation is picked up without waiting for the lifetime.
KeysFollowTheIssuer == [][DecidedInTime]_keyVars

Forced == fetching = << >> /\ fetching' # << >> /\ fetching'[1].why = "unknown"

FloorKept == Forced => extra.failed \/ extra.ago >= Floor

\* Unknown key ids force at most one request per floor while the issuer answers,
\* however many callers make them up.
FloorHoldsWhileAnswered == [][FloorKept]_keyVars

\* Nobody waits longer than one timeout for itself and each lookup ahead of it: the
\* mutex is held across the fetch, so an issuer that hangs delays even the callers
\* whose key is cached, but only by that much.
LookupsAreBounded ==
    \A c \in Callers : lookup[c].waited <= Cardinality(Callers) * Patience
=============================================================================
