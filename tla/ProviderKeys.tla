---------------------------- MODULE ProviderKeys ----------------------------
(***************************************************************************)
(* The identity provider's metadata and signing keys as one api process    *)
(* holds them (app/oidc.py).  Several sign-ins verify at once, each may    *)
(* fetch, and whichever fetch ends last replaces the keys; the provider    *)
(* publishes and withdraws keys meanwhile.  Assumed: a fetch ends within   *)
(* FetchMax in all, its request for metadata included; httpx bounds each   *)
(* operation of a request, not their sum.                                  *)
(***************************************************************************)
EXTENDS Integers

CONSTANTS
    Keys,       \* key ids, of tokens and of the provider
    FirstKey,   \* the key the provider publishes from the start
    Verifiers,  \* sign-ins under way
    JwksMinRefresh, JwksMaxAge,
    FetchMax,   \* longest a fetch takes, of one request or two
    MaxTime     \* bound: time the model runs

ProviderConstants ==
    /\ {JwksMinRefresh, JwksMaxAge, FetchMax, MaxTime} \subseteq Nat
    /\ FirstKey \in Keys

Never == -(JwksMaxAge + 1)      \* float("-inf")

VARIABLES
    now,
    published,  \* the provider's usable signing keys
    born, gone, \* key -> when it was published, withdrawn (Never before)
    fresh,      \* _metadata is there and younger than METADATA_TTL_S
    held,       \* _keys
    keysAt,     \* _keys_at
    verify      \* verifier -> its call of _signing_key

vars == <<now, published, born, gone, fresh, held, keysAt, verify>>
provider == <<published, born, gone>>
cached == <<fresh, held, keysAt>>

Idle == [stage |-> "idle", kid |-> FirstKey, at |-> 0, got |-> {}]

Init ==
    /\ now = 0 /\ published = {FirstKey}
    /\ born = [k \in Keys |-> IF k = FirstKey THEN 0 ELSE Never]
    /\ gone = [k \in Keys |-> Never]
    /\ fresh = FALSE /\ held = {} /\ keysAt = Never
    /\ verify = [v \in Verifiers |-> Idle]

-----------------------------------------------------------------------------
(* The provider, and time.                                                 *)

Publish(k) ==
    /\ born[k] = Never
    /\ published' = published \cup {k} /\ born' = [born EXCEPT ![k] = now]
    /\ UNCHANGED <<now, gone, cached, verify>>

Withdraw(k) ==
    /\ k \in published
    /\ published' = published \ {k} /\ gone' = [gone EXCEPT ![k] = now]
    /\ UNCHANGED <<now, born, cached, verify>>

Fetching == {"metadata", "keys", "answered"}

\* A fetch ends within FetchMax; metadata may get old; verdicts are over.
Tick ==
    /\ now < MaxTime
    /\ \A v \in Verifiers :
        verify[v].stage \in Fetching => now < verify[v].at + FetchMax
    /\ now' = now + 1 /\ fresh' \in {fresh, FALSE}
    /\ verify' = [v \in Verifiers |->
            IF verify[v].stage \in Fetching THEN verify[v] ELSE Idle]
    /\ UNCHANGED <<provider, held, keysAt>>

\* check(), every 30 s, fetches the metadata anew.  A failure changes nothing
\* held.
Check ==
    /\ fresh' = TRUE
    /\ UNCHANGED <<now, provider, held, keysAt, verify>>

-----------------------------------------------------------------------------
(* _signing_key.                                                           *)

Verdict(v, kid, keys) ==
    [verify EXCEPT ![v] = [stage |-> IF kid \in keys THEN "accepted" ELSE "refused",
                           kid |-> kid, at |-> now, got |-> {}]]

\* A key set too old for any key, or old enough to ask for an unknown one.
MustFetch(kid) ==
    \/ now - keysAt > JwksMaxAge
    \/ kid \notin held /\ now - keysAt > JwksMinRefresh

Start(v, kid) ==
    /\ verify[v].stage = "idle"
    /\ verify' = IF MustFetch(kid)
                 THEN [verify EXCEPT ![v] =
                        [stage |-> IF fresh THEN "keys" ELSE "metadata",
                         kid |-> kid, at |-> now, got |-> {}]]
                 ELSE Verdict(v, kid, held)
    /\ UNCHANGED <<now, provider, cached>>

FetchMetadata(v) ==
    /\ verify[v].stage = "metadata"
    /\ fresh' = TRUE
    /\ verify' = [verify EXCEPT ![v].stage = "keys"]
    /\ UNCHANGED <<now, provider, held, keysAt>>

\* The provider sends its keys as they are now ...
AnswerKeys(v) ==
    /\ verify[v].stage = "keys"
    /\ verify' = [verify EXCEPT ![v].stage = "answered", ![v].got = published]
    /\ UNCHANGED <<now, provider, cached>>

\* ... and they replace the ones held when the answer arrives.
KeepKeys(v) ==
    /\ verify[v].stage = "answered"
    /\ held' = verify[v].got /\ keysAt' = now
    /\ verify' = Verdict(v, verify[v].kid, verify[v].got)
    /\ UNCHANGED <<now, provider, fresh>>

\* Mutant of FetchFails: the time of the attempt is kept, not of the success.
FetchFailsStamped(v) ==
    /\ verify[v].stage \in Fetching
    /\ verify' = [verify EXCEPT ![v] = Idle]
    /\ keysAt' = now
    /\ UNCHANGED <<now, provider, fresh, held>>

\* ProviderUnavailable: nothing held changes, and no token is accepted.
FetchFails(v) ==
    /\ verify[v].stage \in Fetching
    /\ verify' = [verify EXCEPT ![v] = Idle]
    /\ UNCHANGED <<now, provider, cached>>

Next ==
    \/ Tick \/ Check
    \/ \E k \in Keys : Publish(k) \/ Withdraw(k)
    \/ \E v \in Verifiers :
        \/ \E kid \in Keys : Start(v, kid)
        \/ FetchMetadata(v) \/ AnswerKeys(v) \/ KeepKeys(v) \/ FetchFails(v)

Spec == Init /\ [][Next]_vars

-----------------------------------------------------------------------------
TypeOK ==
    /\ now \in 0..MaxTime
    /\ published \subseteq Keys /\ held \subseteq Keys
    /\ fresh \in BOOLEAN /\ keysAt \in {Never} \cup 0..now
    /\ \A k \in Keys : {born[k], gone[k]} \subseteq {Never} \cup 0..now
    /\ verify \in [Verifiers ->
            [stage : Fetching \cup {"idle", "accepted", "refused"},
             kid : Keys, at : 0..now, got : SUBSET Keys]]

\* What the keys held promise, although a slow fetch may overwrite a newer
\* one and fetches may fail: a withdrawn key is accepted for at most the
\* maximum age and one fetch after its withdrawal, and a key the provider has
\* published for longer than the refresh interval and one fetch is not
\* refused (oidc.py:44-50, 273-285).  "One fetch" is FetchMax, the total that
\* is assumed to bound it.
KeysFollowTheProvider ==
    \A v \in Verifiers :
        LET kid == verify[v].kid
            at == verify[v].at
        IN  /\ verify[v].stage = "accepted" =>
                /\ born[kid] # Never
                /\ gone[kid] # Never => at <= gone[kid] + JwksMaxAge + FetchMax
            /\ (verify[v].stage = "refused" /\ born[kid] # Never /\ gone[kid] = Never)
                => at <= born[kid] + JwksMinRefresh + FetchMax
=============================================================================
