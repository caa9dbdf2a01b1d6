------------------------ MODULE ServicesLimitsProofs -------------------------
(***************************************************************************)
(* Services' properties about limits, for any of them: a session's idle    *)
(* limit (SessionLife), the age of signing keys (ProviderKeys), the        *)
(* limiter's windows (RateLimit) and the eval gate's counts (EvalGate).    *)
(***************************************************************************)
EXTENDS Services, FiniteSetTheorems, WellFoundedInduction, TLAPS

-----------------------------------------------------------------------------
(* SessionLife.                                                            *)

\* Its settings are natural numbers, and a tenth is what it is.
LEMMA SessionSettings ==
    /\ IdleTimeout \in Nat /\ SessionAge \in Nat /\ TouchCap \in Nat
    /\ UserRetention \in Nat /\ Delay \in Nat /\ MaxTime \in Nat
    /\ SessionAge <= UserRetention
    /\ IdleTimeout \div 10 \in Nat
    /\ SL!TouchInterval \in Nat /\ SL!TouchInterval <= IdleTimeout \div 10
<1>1. /\ IdleTimeout \in Nat /\ SessionAge \in Nat /\ TouchCap \in Nat
      /\ UserRetention \in Nat /\ Delay \in Nat /\ MaxTime \in Nat
      /\ SessionAge <= UserRetention
  BY ServicesConstants DEF SL!SessionConstants
<1>2. IdleTimeout \div 10 \in Nat
  BY <1>1
<1>. QED  BY <1>1, <1>2 DEF SL!TouchInterval, SL!Smaller

\* What "used" may be ahead of last_seen_at by.
Slack == SL!Larger(IdleTimeout \div 10, Delay)

UnderWay == {"begun", "touching"}

\* The touch keeps last_seen_at close to the last use while the row is there,
\* and a row is deleted only by its end or its age.
LifeInv ==
    /\ SL!TypeOK
    /\ \A r \in SessionRequests :
          req[r].stage \in UnderWay => time <= req[r].at + Delay
    /\ stored => used <= lastSeen + Slack
    /\ ~stored => ended \/ time >= SessionAge
    /\ SL!SessionInUseLives

Steps == [stage : {"idle", "begun", "touching", "served", "refused", "failed"},
          at : 0..time, unused : -Delay..time]

LEMMA LifeInit == SL!Init => LifeInv
<1> SUFFICES ASSUME SL!Init  PROVE LifeInv
  OBVIOUS
<1>1. Slack \in Nat
  BY SessionSettings DEF Slack, SL!Larger
<1>2. /\ time = 0 /\ stored = TRUE /\ lastSeen = 0 /\ ended = FALSE /\ used = 0
      /\ req = [r \in SessionRequests |-> [stage |-> "idle", at |-> 0, unused |-> 0]]
  BY DEF SL!Init, SL!Idle
<1>3. req \in [SessionRequests -> Steps]
  BY <1>2, SessionSettings DEF Steps
<1>4. SL!TypeOK
  <2>1. time \in 0..MaxTime /\ lastSeen \in 0..time /\ used \in 0..time
    BY <1>2, SessionSettings
  <2>. QED  BY <1>2, <1>3, <2>1 DEF SL!TypeOK, Steps
<1>. QED  BY <1>1, <1>2, <1>4, SessionSettings
           DEF LifeInv, SL!SessionInUseLives, UnderWay

LEMMA LifeStep == LifeInv /\ [SL!Next]_(SL!vars) => LifeInv'
<1> SUFFICES ASSUME LifeInv, [SL!Next]_(SL!vars)
             PROVE  LifeInv'
  OBVIOUS
<1>1. /\ Slack \in Nat /\ IdleTimeout \div 10 <= Slack /\ Delay <= Slack
      /\ Slack = SL!Larger(IdleTimeout \div 10, Delay)
  BY SessionSettings DEF Slack, SL!Larger
<1> USE SessionSettings DEF LifeInv, SL!TypeOK, SL!SessionInUseLives, UnderWay, SL!ExpiresAt
<1>2. CASE SL!Tick
  BY <1>1, <1>2 DEF SL!Tick, SL!Over, SL!Idle
<1>3. CASE SL!EndSession
  BY <1>1, <1>3 DEF SL!EndSession
<1>4. CASE SL!Sweep
  <2>1. /\ time' = time /\ lastSeen' = lastSeen /\ ended' = ended
        /\ used' = used /\ req' = req /\ stored' = FALSE /\ time >= SessionAge
    BY <1>4 DEF SL!Sweep
  <2>. QED  BY <2>1
<1>5. ASSUME NEW r \in SessionRequests, SL!Begin(r)
      PROVE  LifeInv'
  <2>1. /\ time' = time /\ lastSeen' = lastSeen /\ ended' = ended
        /\ used' = used /\ stored' = stored
    BY <1>5 DEF SL!Begin
  <2>2. /\ req'[r].stage = "begun" /\ req'[r].at = time
        /\ \A q \in SessionRequests : q # r => req'[q] = req[q]
    BY <1>5 DEF SL!Begin
  <2>3. req' \in [SessionRequests -> Steps]
    <3> DEFINE new == [req[r] EXCEPT !.stage = "begun", !.at = time]
    <3>1. req[r] \in Steps /\ time \in 0..time
      BY DEF Steps
    <3>2. new \in Steps
      BY <3>1 DEF Steps
    <3>3. req' = [req EXCEPT ![r] = new]
      BY <1>5 DEF SL!Begin
    <3>. QED  BY <3>2, <3>3 DEF Steps
  <2>4. SL!TypeOK'
    BY <2>1, <2>3 DEF Steps
  <2>. QED  BY <1>1, <2>1, <2>2, <2>4
<1>6. ASSUME NEW r \in SessionRequests, SL!Authenticate(r)
      PROVE  LifeInv'
  <2> DEFINE at == req[r].at
             stage == req'[r].stage
             unused == req'[r].unused
  <2>1. /\ req[r].stage = "begun" /\ at \in 0..time /\ time <= at + Delay
        /\ at - used \in -Delay..time
    BY <1>6 DEF SL!Authenticate
  <2>2. /\ time' = time /\ lastSeen' = lastSeen /\ ended' = ended
        /\ stored' = stored
        /\ req'[r].at = at
        /\ \A q \in SessionRequests : q # r => req'[q] = req[q]
    BY <1>6 DEF SL!Authenticate
  <2>3. /\ stage \in {"refused", "touching", "served"}
        /\ unused = IF stage = "refused" THEN at - used ELSE 0
        /\ stage = "refused" => ~SL!Valid(at)
        /\ stage = "served" => at <= lastSeen + SL!TouchInterval
        /\ used' = IF stage = "served" THEN SL!Larger(used, at) ELSE used
    BY <1>6, <2>1 DEF SL!Authenticate
  <2> HIDE DEF at, stage, unused
  <2>4. used' \in 0..time /\ (stored => used' <= lastSeen + Slack)
    BY <1>1, <2>1, <2>3 DEF SL!Larger
  <2>5. stage = "refused" => ended \/ time >= SessionAge
                              \/ unused >= IdleTimeout - Slack
    BY <1>1, <2>1, <2>3 DEF SL!Valid
  <2>6. req' \in [SessionRequests -> Steps]
    <3> DEFINE new == [req[r] EXCEPT !.stage = stage, !.unused = unused]
    <3>1. req[r] \in Steps
      BY DEF Steps
    <3>2. unused \in -Delay..time
      BY <2>1, <2>3
    <3>3. new \in Steps
      BY <2>3, <3>1, <3>2 DEF Steps
    <3>4. req' = [req EXCEPT ![r] = new]
      BY <1>6 DEF SL!Authenticate, stage, unused
    <3>. QED  BY <3>3, <3>4 DEF Steps
  <2>7. SL!TypeOK'
    BY <2>2, <2>4, <2>6 DEF Steps
  <2>. QED  BY <1>1, <2>1, <2>2, <2>3, <2>4, <2>5, <2>7 DEF at, stage, unused
<1>7. ASSUME NEW r \in SessionRequests, SL!Touch(r)
      PROVE  LifeInv'
  BY <1>1, <1>7 DEF SL!Touch, SL!Larger
<1>8. ASSUME NEW r \in SessionRequests, SL!RequestFails(r)
      PROVE  LifeInv'
  BY <1>1, <1>8 DEF SL!RequestFails
<1>9. CASE UNCHANGED SL!vars
  BY <1>9 DEF SL!vars
<1>. QED  BY <1>2, <1>3, <1>4, <1>5, <1>6, <1>7, <1>8, <1>9 DEF SL!Next

LEMMA LifeInvariant == Spec => []LifeInv
<1>1. Init => LifeInv
  BY LifeInit DEF Init
<1>2. LifeInv /\ [Next]_vars => LifeInv'
  <2>1. [Next]_vars => [SL!Next]_(SL!vars)
    BY DEF Next, vars, Chat, RateLimit, ProviderKeys, SessionLife, Erasure,
           Serving, Migrations, ModelStream, EventParser, EvalGate, Only,
           lifeVars, SL!vars
  <2>. QED  BY <2>1, LifeStep
<1>. QED  BY <1>1, <1>2, PTL DEF Spec

\* A session in use is never refused for idleness, however slow its requests
\* and whatever touches, sweeps and sign-outs come between (app/sessions.py).
THEOREM UseKeepsASession == Spec => []SessionInUseLives
<1>1. LifeInv => SessionInUseLives
  BY DEF LifeInv, SessionInUseLives
<1>. QED  BY <1>1, LifeInvariant, PTL

-----------------------------------------------------------------------------
(* ProviderKeys.                                                           *)

LEMMA KeySettings ==
    /\ JwksMinRefresh \in Nat /\ JwksMaxAge \in Nat /\ FetchMax \in Nat
    /\ MaxNow \in Nat /\ FirstKey \in Keys
    /\ PK!Never \in Int /\ PK!Never < 0 /\ PK!Never < -JwksMaxAge
BY ServicesConstants DEF PK!ProviderConstants, PK!Never

\* The provider publishes a key once and withdraws it once.
Published ==
    /\ DOMAIN born = Keys /\ DOMAIN gone = Keys
    /\ \A k \in Keys : gone[k] # PK!Never => born[k] # PK!Never
    /\ published = {k \in Keys : born[k] # PK!Never /\ gone[k] = PK!Never}

\* `keys` is what the provider published at some moment since `at`.
PublishedSince(keys, at) ==
    \A k \in Keys :
        /\ k \in keys => /\ born[k] # PK!Never
                         /\ gone[k] # PK!Never => at <= gone[k]
        /\ (k \notin keys /\ born[k] # PK!Never /\ gone[k] = PK!Never)
              => at <= born[k]

\* What a call of _signing_key has, and promises: a fetch under way has been so
\* for FetchMax at most, and a verdict follows what the provider does.
Lookup == [stage : PK!Fetching \cup {"idle", "accepted", "refused"},
           kid : Keys, at : 0..now, got : SUBSET Keys]

SoundLookup(call) ==
    /\ call.stage \in PK!Fetching => now <= call.at + FetchMax
    /\ call.stage = "answered" => PublishedSince(call.got, call.at)
    /\ call.stage = "accepted" =>
          /\ born[call.kid] # PK!Never
          /\ gone[call.kid] # PK!Never =>
                call.at <= gone[call.kid] + JwksMaxAge + FetchMax
    /\ (call.stage = "refused" /\ born[call.kid] # PK!Never
          /\ gone[call.kid] = PK!Never) =>
          call.at <= born[call.kid] + JwksMinRefresh + FetchMax

\* The keys held were published FetchMax before they were stored, or later.
KeysInv ==
    /\ PK!TypeOK
    /\ Published
    /\ \A v \in Verifiers : SoundLookup(verify[v])
    /\ PublishedSince(held, keysAt - FetchMax)

LEMMA KeysInit == PK!Init => KeysInv
<1> SUFFICES ASSUME PK!Init  PROVE KeysInv
  OBVIOUS
<1> USE KeySettings
<1>1. /\ now = 0 /\ published = {FirstKey} /\ fresh = FALSE /\ held = {}
      /\ keysAt = PK!Never
      /\ \A k \in Keys : /\ born[k] = IF k = FirstKey THEN 0 ELSE PK!Never
                         /\ gone[k] = PK!Never
      /\ \A v \in Verifiers : /\ verify[v].stage = "idle" /\ verify[v].kid = FirstKey
                              /\ verify[v].at = 0 /\ verify[v].got = {}
  BY DEF PK!Init, PK!Idle
<1>2. PK!TypeOK
  <2>1. now \in 0..MaxNow /\ 0 \in 0..now
    BY <1>1
  <2>2. verify \in [Verifiers -> Lookup]
    BY <2>1 DEF PK!Init, PK!Idle, Lookup
  <2>. QED  BY <1>1, <2>1, <2>2 DEF PK!TypeOK, Lookup
<1>3. Published
  BY <1>1 DEF Published, PK!Init
<1>. QED  BY <1>1, <1>2, <1>3
          DEF KeysInv, PublishedSince, SoundLookup, PK!Fetching

\* A step of one call: the provider and the clock stand.
LEMMA LookupStep ==
    ASSUME KeysInv, NEW v \in Verifiers, NEW call \in Lookup, SoundLookup(call),
           verify' = [verify EXCEPT ![v] = call],
           UNCHANGED now, UNCHANGED published, UNCHANGED born, UNCHANGED gone,
           fresh' \in BOOLEAN, held' \subseteq Keys,
           keysAt' \in {PK!Never} \cup 0..now,
           PublishedSince(held', keysAt' - FetchMax)
    PROVE  KeysInv'
<1>1. verify \in [Verifiers -> Lookup]
  BY DEF KeysInv, PK!TypeOK, Lookup
<1>2. /\ verify' \in [Verifiers -> Lookup] /\ verify'[v] = call
      /\ \A w \in Verifiers : w # v => verify'[w] = verify[w]
  BY <1>1
<1>3. PK!TypeOK'
  BY <1>2 DEF KeysInv, PK!TypeOK, Lookup
<1>4. Published'
  BY DEF KeysInv, Published
<1>5. \A w \in Verifiers : SoundLookup(verify[w])'
  BY <1>2 DEF KeysInv, SoundLookup, PublishedSince
<1>6. PublishedSince(held, keysAt - FetchMax)'
  BY DEF PublishedSince
<1>. QED  BY <1>3, <1>4, <1>5, <1>6 DEF KeysInv

\* Whatever the call decides from the keys it looks at is sound when these
\* were published lately enough.
LEMMA SoundVerdict ==
    ASSUME KeysInv, NEW kid \in Keys, NEW keys \in SUBSET Keys, NEW since \in Int,
           PublishedSince(keys, since),
           now <= since + JwksMaxAge + FetchMax,
           kid \notin keys => now <= since + JwksMinRefresh + FetchMax,
           NEW call,
           call = [stage |-> IF kid \in keys THEN "accepted" ELSE "refused",
                   kid |-> kid, at |-> now, got |-> {}]
    PROVE  call \in Lookup /\ SoundLookup(call)
<1> USE KeySettings
<1>1. /\ now \in 0..now /\ now \in Nat
      /\ born[kid] \in Int /\ gone[kid] \in Int
  BY DEF KeysInv, PK!TypeOK
<1>2. /\ call.stage \in {"accepted", "refused"} /\ call.kid = kid /\ call.at = now
      /\ call.stage = "accepted" => kid \in keys
      /\ call.stage = "refused" => kid \notin keys
  OBVIOUS
<1>3. call \in Lookup
  BY <1>1 DEF Lookup
<1>. QED  BY <1>1, <1>2, <1>3 DEF SoundLookup, PublishedSince, PK!Fetching

LEMMA KeysStep == KeysInv /\ [PK!Next]_(PK!vars) => KeysInv'
<1> SUFFICES ASSUME KeysInv, [PK!Next]_(PK!vars)
             PROVE  KeysInv'
  OBVIOUS
<1> USE KeySettings
<1>1. /\ now \in 0..MaxNow /\ now \in 0..now /\ verify \in [Verifiers -> Lookup]
      /\ held \subseteq Keys /\ published \subseteq Keys /\ fresh \in BOOLEAN
      /\ keysAt \in {PK!Never} \cup 0..now
      /\ \A k \in Keys : {born[k], gone[k]} \subseteq {PK!Never} \cup 0..now
  BY DEF KeysInv, PK!TypeOK, Lookup
<1>2. /\ Published /\ \A v \in Verifiers : SoundLookup(verify[v])
      /\ PublishedSince(held, keysAt - FetchMax)
  BY DEF KeysInv
<1>3. CASE PK!Tick
  <2>1. /\ now' = now + 1 /\ now' \in 0..MaxNow /\ fresh' \in BOOLEAN
        /\ published' = published /\ born' = born /\ gone' = gone
        /\ held' = held /\ keysAt' = keysAt
        /\ \A v \in Verifiers : verify[v].stage \in PK!Fetching =>
              now < verify[v].at + FetchMax
        /\ verify' = [v \in Verifiers |->
              IF verify[v].stage \in PK!Fetching THEN verify[v] ELSE PK!Idle]
    <3>1. fresh' \in {fresh, FALSE} /\ now < MaxNow
      BY <1>3 DEF PK!Tick
    <3>2. fresh' \in BOOLEAN
      BY <1>1, <3>1
    <3>. QED  BY <1>1, <1>3, <3>1, <3>2 DEF PK!Tick, PK!provider
  <2>2. PK!Idle \in Lookup' /\ \A v \in Verifiers : verify[v] \in Lookup'
    BY <1>1, <2>1 DEF PK!Idle, Lookup
  <2>3. verify' \in [Verifiers -> Lookup']
    BY <2>1, <2>2
  <2>4. PK!TypeOK'
    BY <1>1, <2>1, <2>3 DEF PK!TypeOK, Lookup
  <2>5. SoundLookup(PK!Idle)'
    BY DEF SoundLookup, PK!Idle, PK!Fetching
  <2>6. ASSUME NEW v \in Verifiers, verify[v].stage \in PK!Fetching
        PROVE  SoundLookup(verify[v])'
    BY <1>1, <1>2, <2>1, <2>6 DEF SoundLookup, PublishedSince, PK!Fetching, Lookup
  <2>7. \A v \in Verifiers : SoundLookup(verify[v])'
    BY <2>1, <2>5, <2>6
  <2>. QED  BY <1>2, <2>1, <2>4, <2>7 DEF KeysInv, Published, PublishedSince
<1>4. CASE PK!Check
  <2>1. /\ now' = now /\ published' = published /\ born' = born /\ gone' = gone
        /\ held' = held /\ keysAt' = keysAt /\ verify' = verify /\ fresh' = TRUE
    BY <1>4 DEF PK!Check, PK!provider
  <2>. QED  BY <2>1 DEF KeysInv, PK!TypeOK, Published, SoundLookup, PublishedSince
<1>5. ASSUME NEW k \in Keys, PK!Publish(k)
      PROVE  KeysInv'
  <2>1. /\ now' = now /\ published' = published \cup {k} /\ gone' = gone
        /\ held' = held /\ keysAt' = keysAt /\ verify' = verify /\ fresh' = fresh
        /\ born[k] = PK!Never /\ born' = [born EXCEPT ![k] = now]
    BY <1>5 DEF PK!Publish, PK!cached
  <2>2. /\ born'[k] = now
        /\ \A j \in Keys : j # k => born'[j] = born[j]
        /\ DOMAIN born' = Keys
    BY <1>2, <2>1 DEF Published
  <2>3. PK!TypeOK'
    BY <1>1, <2>1, <2>2 DEF PK!TypeOK, Lookup
  <2>4. Published'
    BY <1>1, <1>2, <2>1, <2>2 DEF Published
  <2>5. ASSUME NEW keys, NEW at \in Int, at <= now, PublishedSince(keys, at)
        PROVE  PublishedSince(keys, at)'
    BY <1>1, <1>2, <2>1, <2>2, <2>5 DEF PublishedSince, Published
  <2>6. ASSUME NEW v \in Verifiers
        PROVE  SoundLookup(verify[v])'
    BY <1>1, <1>2, <2>1, <2>2, <2>5 DEF SoundLookup, Lookup, Published
  <2>7. PublishedSince(held, keysAt - FetchMax)'
    BY <1>1, <1>2, <2>1, <2>5
  <2>. QED  BY <2>1, <2>3, <2>4, <2>6, <2>7 DEF KeysInv
<1>6. ASSUME NEW k \in Keys, PK!Withdraw(k)
      PROVE  KeysInv'
  <2>1. /\ now' = now /\ published' = published \ {k} /\ born' = born
        /\ held' = held /\ keysAt' = keysAt /\ verify' = verify /\ fresh' = fresh
        /\ k \in published /\ gone' = [gone EXCEPT ![k] = now]
    BY <1>6 DEF PK!Withdraw, PK!cached
  <2>2. /\ gone'[k] = now
        /\ \A j \in Keys : j # k => gone'[j] = gone[j]
        /\ DOMAIN gone' = Keys
    BY <1>2, <2>1 DEF Published
  <2>3. PK!TypeOK'
    BY <1>1, <2>1, <2>2 DEF PK!TypeOK, Lookup
  <2>4. Published'
    BY <1>1, <1>2, <2>1, <2>2 DEF Published
  <2>5. ASSUME NEW keys, NEW at \in Int, at <= now, PublishedSince(keys, at)
        PROVE  PublishedSince(keys, at)'
    BY <1>1, <1>2, <2>1, <2>2, <2>5 DEF PublishedSince, Published
  <2>6. ASSUME NEW v \in Verifiers
        PROVE  SoundLookup(verify[v])'
    BY <1>1, <1>2, <2>1, <2>2, <2>5 DEF SoundLookup, Lookup, Published
  <2>7. PublishedSince(held, keysAt - FetchMax)'
    BY <1>1, <1>2, <2>1, <2>5
  <2>. QED  BY <2>1, <2>3, <2>4, <2>6, <2>7 DEF KeysInv
<1>7. ASSUME NEW v \in Verifiers, NEW kid \in Keys, PK!Start(v, kid)
      PROVE  KeysInv'
  <2>1. /\ now' = now /\ published' = published /\ born' = born /\ gone' = gone
        /\ held' = held /\ keysAt' = keysAt /\ fresh' = fresh
    BY <1>7 DEF PK!Start, PK!provider, PK!cached
  <2>2. CASE PK!MustFetch(kid)
    <3> DEFINE call == [stage |-> IF fresh THEN "keys" ELSE "metadata",
                        kid |-> kid, at |-> now, got |-> {}]
    <3>1. call \in Lookup /\ SoundLookup(call)
      BY <1>1 DEF Lookup, SoundLookup, PK!Fetching
    <3>2. verify' = [verify EXCEPT ![v] = call]
      BY <1>7, <2>2 DEF PK!Start
    <3> HIDE DEF call
    <3>. QED  BY <1>1, <1>2, <2>1, <3>1, <3>2, LookupStep
  <2>3. CASE ~PK!MustFetch(kid)
    <3> DEFINE call == [stage |-> IF kid \in held THEN "accepted" ELSE "refused",
                        kid |-> kid, at |-> now, got |-> {}]
    <3>1. /\ now - keysAt <= JwksMaxAge
          /\ kid \notin held => now - keysAt <= JwksMinRefresh
      BY <1>1, <2>3 DEF PK!MustFetch
    <3>2. call \in Lookup /\ SoundLookup(call)
      <4>1. keysAt - FetchMax \in Int
        BY <1>1
      <4>. QED  BY <1>1, <1>2, <3>1, <4>1, SoundVerdict
    <3>3. verify' = [verify EXCEPT ![v] = call]
      BY <1>7, <2>3 DEF PK!Start, PK!Verdict
    <3> HIDE DEF call
    <3>. QED  BY <1>1, <1>2, <2>1, <3>2, <3>3, LookupStep
  <2>. QED  BY <2>2, <2>3
<1>8. ASSUME NEW v \in Verifiers, PK!FetchMetadata(v)
      PROVE  KeysInv'
  <2> DEFINE call == [verify[v] EXCEPT !.stage = "keys"]
  <2>1. /\ now' = now /\ published' = published /\ born' = born /\ gone' = gone
        /\ held' = held /\ keysAt' = keysAt /\ fresh' = TRUE
        /\ verify[v].stage = "metadata" /\ verify' = [verify EXCEPT ![v] = call]
    BY <1>8 DEF PK!FetchMetadata, PK!provider
  <2>2. call \in Lookup /\ call.stage = "keys" /\ call.at = verify[v].at
    BY <1>1 DEF Lookup, PK!Fetching
  <2>3. SoundLookup(call)
    BY <1>2, <2>1, <2>2 DEF SoundLookup, PK!Fetching
  <2> HIDE DEF call
  <2>. QED  BY <1>1, <1>2, <2>1, <2>2, <2>3, LookupStep
<1>9. ASSUME NEW v \in Verifiers, PK!AnswerKeys(v)
      PROVE  KeysInv'
  <2> DEFINE call == [verify[v] EXCEPT !.stage = "answered", !.got = published]
  <2>1. /\ now' = now /\ published' = published /\ born' = born /\ gone' = gone
        /\ held' = held /\ keysAt' = keysAt /\ fresh' = fresh
        /\ verify[v].stage = "keys" /\ verify' = [verify EXCEPT ![v] = call]
    BY <1>9 DEF PK!AnswerKeys, PK!provider, PK!cached
  <2>2. /\ call \in Lookup /\ call.stage = "answered" /\ call.at = verify[v].at
        /\ call.got = published /\ call.at \in 0..now
    BY <1>1 DEF Lookup, PK!Fetching
  <2>3. PublishedSince(published, call.at)
    BY <1>1, <1>2, <2>2 DEF PublishedSince, Published
  <2>4. SoundLookup(call)
    BY <1>2, <2>1, <2>2, <2>3 DEF SoundLookup, PK!Fetching
  <2> HIDE DEF call
  <2>. QED  BY <1>1, <1>2, <2>1, <2>2, <2>4, LookupStep
<1>10. ASSUME NEW v \in Verifiers, PK!KeepKeys(v)
       PROVE  KeysInv'
  <2> DEFINE kid == verify[v].kid
             keys == verify[v].got
             call == [stage |-> IF kid \in keys THEN "accepted" ELSE "refused",
                      kid |-> kid, at |-> now, got |-> {}]
  <2>1. /\ now' = now /\ published' = published /\ born' = born /\ gone' = gone
        /\ held' = keys /\ keysAt' = now /\ fresh' = fresh
        /\ verify[v].stage = "answered" /\ verify' = [verify EXCEPT ![v] = call]
    BY <1>10 DEF PK!KeepKeys, PK!Verdict, PK!provider
  <2>2. /\ kid \in Keys /\ keys \in SUBSET Keys /\ verify[v].at \in 0..now
    BY <1>1 DEF Lookup
  <2>3. PublishedSince(keys, verify[v].at) /\ now <= verify[v].at + FetchMax
    BY <1>2, <2>1 DEF SoundLookup, PK!Fetching
  <2>4. PublishedSince(keys, now - FetchMax)
    BY <1>1, <2>2, <2>3 DEF PublishedSince
  <2>5. call \in Lookup /\ SoundLookup(call)
    <3>1. verify[v].at \in Int /\ now \in Int
      BY <1>1, <2>2
    <3>2. now <= verify[v].at + JwksMaxAge + FetchMax
      BY <2>3, <3>1
    <3>3. now <= verify[v].at + JwksMinRefresh + FetchMax
      BY <2>3, <3>1
    <3>. QED  BY <2>2, <2>3, <3>1, <3>2, <3>3, SoundVerdict
  <2> HIDE DEF call, keys, kid
  <2>. QED  BY <1>1, <1>2, <2>1, <2>2, <2>4, <2>5, LookupStep
<1>11. ASSUME NEW v \in Verifiers, PK!FetchFails(v)
       PROVE  KeysInv'
  <2>1. /\ now' = now /\ published' = published /\ born' = born /\ gone' = gone
        /\ held' = held /\ keysAt' = keysAt /\ fresh' = fresh
        /\ verify' = [verify EXCEPT ![v] = PK!Idle]
    BY <1>11 DEF PK!FetchFails, PK!provider, PK!cached
  <2>2. PK!Idle \in Lookup /\ SoundLookup(PK!Idle)
    BY <1>1 DEF Lookup, SoundLookup, PK!Idle, PK!Fetching
  <2>. QED  BY <1>1, <1>2, <2>1, <2>2, LookupStep
<1>12. CASE UNCHANGED PK!vars
  BY <1>12 DEF PK!vars, KeysInv, PK!TypeOK, Published, SoundLookup, PublishedSince
<1>. QED  BY <1>3, <1>4, <1>5, <1>6, <1>7, <1>8, <1>9, <1>10, <1>11, <1>12
          DEF PK!Next

LEMMA KeysInvariant == Spec => []KeysInv
<1>1. Init => KeysInv
  BY KeysInit DEF Init
<1>2. KeysInv /\ [Next]_vars => KeysInv'
  <2>1. [Next]_vars => [PK!Next]_(PK!vars)
    BY DEF Next, vars, Chat, RateLimit, ProviderKeys, SessionLife, Erasure,
           Serving, Migrations, ModelStream, EventParser, EvalGate, Only,
           keysVars, PK!vars
  <2>. QED  BY <2>1, KeysStep
<1>. QED  BY <1>1, <1>2, PTL DEF Spec

\* A withdrawn key is trusted for a bounded time, a published one refused for
\* a bounded time, whatever fetches overlap, overtake one another and fail
\* (app/oidc.py).
THEOREM TrustFollowsTheProvider == Spec => []KeysFollowTheProvider
<1>1. KeysInv => KeysFollowTheProvider
  BY DEF KeysInv, SoundLookup, KeysFollowTheProvider, PK!KeysFollowTheProvider
<1>. QED  BY <1>1, KeysInvariant, PTL
-----------------------------------------------------------------------------
(* RateLimit.                                                              *)

LEMMA LimitSettings ==
    Limit \in Nat \ {0} /\ Window \in Nat \ {0} /\ MaxClock \in Nat
BY ServicesConstants DEF RL!RateLimitConstants

LEMMA WindowLength ==
    \A t \in Nat : /\ RL!WindowOf(t) \in Nat
                   /\ Window * RL!WindowOf(t) <= t
                   /\ t < Window * RL!WindowOf(t) + Window
BY LimitSettings DEF RL!WindowOf

LEMMA WindowsApart ==
    \A v, w \in Nat : v < w => Window * v + Window <= Window * w
BY LimitSettings

\* Windows follow one another, and no interval of one's length meets three.
LEMMA WindowOrder ==
    ASSUME NEW s \in Nat, NEW t \in Nat
    PROVE  /\ s <= t => RL!WindowOf(s) <= RL!WindowOf(t)
           /\ t <= s /\ s < t + Window =>
                RL!WindowOf(s) = RL!WindowOf(t) \/ RL!WindowOf(s) = RL!WindowOf(t) + 1
<1> DEFINE v == RL!WindowOf(s)
           w == RL!WindowOf(t)
<1>1. /\ v \in Nat /\ w \in Nat /\ Window * v \in Nat /\ Window * w \in Nat
      /\ Window * v <= s /\ s < Window * v + Window
      /\ Window * w <= t /\ t < Window * w + Window
  BY WindowLength, LimitSettings
<1>2. v < w => Window * v + Window <= Window * w
  BY <1>1, WindowsApart
<1>3. w < v => Window * w + Window <= Window * v
  BY <1>1, WindowsApart
<1>4. w + 1 < v => Window * (w + 1) + Window <= Window * v
  BY <1>1, WindowsApart
<1>5. Window * (w + 1) = Window * w + Window
  BY <1>1, LimitSettings
<1> HIDE DEF v, w
<1>6. s <= t => v <= w
  BY <1>1, <1>3, LimitSettings
<1>7. t <= s /\ s < t + Window => v = w \/ v = w + 1
  BY <1>1, <1>2, <1>4, <1>5, LimitSettings
<1>. QED  BY <1>6, <1>7 DEF v, w

HitRecord == [state : {"idle", "sent", "counted", "decided"}, at : Nat,
              count : Nat, late : BOOLEAN, allowed : BOOLEAN, degraded : BOOLEAN]

\* Counted in its own window.
InTime(hit) == hit.count # 0 /\ ~hit.late

\* What one request has been told agrees with what Redis counted for it: an
\* answer without Redis is the policy's.
SoundHit(hit) ==
    /\ hit.at <= clock
    /\ hit.state \in {"idle", "sent"} => hit.count = 0
    /\ hit.state = "counted" => hit.count # 0
    /\ hit.state # "decided" => ~hit.allowed
    /\ hit.state = "decided" /\ ~hit.degraded => hit.count # 0
    /\ hit.allowed /\ ~hit.degraded => hit.count <= Limit
    /\ hit.allowed /\ hit.degraded => ~failClosed

\* A window's key outlives the window, so that the requests counted in it get
\* different counts.
LimitInv ==
    /\ clock \in Nat /\ failClosed \in BOOLEAN
    /\ hits \in [LimitedRequests -> HitRecord]
    /\ \A r \in LimitedRequests : SoundHit(hits[r])
    /\ \A w \in DOMAIN counters :
          /\ w \in Nat /\ counters[w].count \in Nat \ {0} /\ counters[w].ends \in Nat
          /\ Window * w + Window <= counters[w].ends
    /\ \A r \in LimitedRequests :
          InTime(hits[r]) /\ RL!WindowOf(hits[r].at) = RL!WindowOf(clock) =>
             /\ RL!WindowOf(clock) \in DOMAIN counters
             /\ hits[r].count <= counters[RL!WindowOf(clock)].count
    /\ \A r, s \in LimitedRequests :
          r # s /\ InTime(hits[r]) /\ InTime(hits[s])
             /\ RL!WindowOf(hits[r].at) = RL!WindowOf(hits[s].at) =>
                hits[r].count # hits[s].count

\* The requests of one window that were answered by Redis and allowed have
\* different counts up to the limit.
LEMMA WindowIsLimited ==
    ASSUME LimitInv, NEW w, NEW A \in SUBSET LimitedRequests,
           \A r \in A : /\ hits[r].allowed /\ (failClosed \/ ~hits[r].degraded)
                        /\ ~hits[r].late /\ RL!WindowOf(hits[r].at) = w
    PROVE  IsFiniteSet(A) /\ Cardinality(A) <= Limit
<1> DEFINE f == [r \in A |-> hits[r].count]
<1>1. \A r \in A : hits[r].count \in 1..Limit /\ InTime(hits[r])
  <2> SUFFICES ASSUME NEW r \in A
               PROVE  hits[r].count \in 1..Limit /\ InTime(hits[r])
    OBVIOUS
  <2>1. SoundHit(hits[r]) /\ hits[r] \in HitRecord
    BY DEF LimitInv
  <2>2. /\ ~hits[r].degraded /\ hits[r].state = "decided"
        /\ hits[r].count # 0 /\ hits[r].count <= Limit
    BY <2>1 DEF SoundHit, HitRecord
  <2>. QED  BY <2>1, <2>2, LimitSettings DEF InTime, HitRecord
<1>2. \A r, s \in A : r # s => hits[r].count # hits[s].count
  BY <1>1 DEF LimitInv
<1>3. f \in Injection(A, 1..Limit)
  BY <1>1, <1>2 DEF Injection, IsInjective
<1>4. IsFiniteSet(1..Limit) /\ Cardinality(1..Limit) = Limit
  BY FS_Interval, LimitSettings
<1> HIDE DEF f
<1>. QED  BY <1>3, <1>4, FS_Injection
\* A request's step that changes neither what is counted nor the clock.
LEMMA QuietHit ==
    ASSUME LimitInv, NEW r \in LimitedRequests, NEW hit \in HitRecord,
           hits' = [hits EXCEPT ![r] = hit], SoundHit(hit),
           hit.count = 0 \/ /\ hit.count = hits[r].count /\ hit.late = hits[r].late
                            /\ hit.at = hits[r].at,
           UNCHANGED clock, UNCHANGED failClosed, UNCHANGED counters
    PROVE  LimitInv'
<1>1. /\ hits' \in [LimitedRequests -> HitRecord] /\ hits'[r] = hit
      /\ \A s \in LimitedRequests : s # r => hits'[s] = hits[s]
  BY DEF LimitInv
<1>2. \A s \in LimitedRequests : SoundHit(hits[s])'
  BY <1>1 DEF LimitInv, SoundHit
<1>3. \A s \in LimitedRequests : InTime(hits'[s]) =>
         /\ InTime(hits[s]) /\ hits'[s].count = hits[s].count
         /\ hits'[s].at = hits[s].at
  BY <1>1 DEF InTime
<1>. QED  BY <1>1, <1>2, <1>3 DEF LimitInv, InTime

LEMMA LimitInit == RL!Init => LimitInv
<1> SUFFICES ASSUME RL!Init  PROVE LimitInv
  OBVIOUS
<1>1. /\ clock = 0 /\ failClosed \in BOOLEAN /\ DOMAIN counters = {}
      /\ hits = [r \in LimitedRequests |-> RL!Idle]
  BY DEF RL!Init
<1>2. RL!Idle \in HitRecord /\ RL!Idle.count = 0 /\ SoundHit(RL!Idle)
  BY <1>1 DEF RL!Idle, HitRecord, SoundHit
<1>. QED  BY <1>1, <1>2 DEF LimitInv, InTime

LEMMA CountStep ==
    ASSUME LimitInv, NEW r \in LimitedRequests, RL!Count(r)
    PROVE  LimitInv'
<1> DEFINE w == RL!WindowOf(hits[r].at)
           key == IF RL!Live(w) THEN [counters[w] EXCEPT !.count = @ + 1]
                  ELSE [count |-> 1, ends |-> clock + Window]
           hit == [hits[r] EXCEPT
                     !.state = IF @ = "sent" THEN "counted" ELSE @,
                     !.count = key.count, !.late = RL!WindowOf(clock) # w]
<1>1. /\ clock \in Nat /\ hits \in [LimitedRequests -> HitRecord]
      /\ hits[r] \in HitRecord /\ hits[r].at \in Nat /\ SoundHit(hits[r])
      /\ hits[r].at <= clock
  BY DEF LimitInv, SoundHit, HitRecord
<1>2. /\ w \in Nat /\ Window * w \in Nat /\ Window * w <= clock
      /\ RL!WindowOf(clock) \in Nat /\ clock < Window * RL!WindowOf(clock) + Window
  BY <1>1, WindowLength, LimitSettings
<1>3. /\ counters' = [v \in DOMAIN counters \cup {w} |->
                         IF v = w THEN key ELSE counters[v]]
      /\ clock' = clock /\ failClosed' = failClosed
      /\ hits[r].state = "sent" \/ (hits[r].state = "decided" /\ hits[r].count = 0)
  <2>1. counters' = [v \in DOMAIN counters \cup {w} |->
                         IF v = w THEN key ELSE counters[v]]
    BY Zenon DEF RL!Count
  <2>2. clock' = clock /\ failClosed' = failClosed
    BY DEF RL!Count
  <2>3. hits[r].state = "sent" \/ (hits[r].state = "decided" /\ hits[r].count = 0)
    BY Zenon DEF RL!Count
  <2>. QED  BY <2>1, <2>2, <2>3
<1>4. hits' = [hits EXCEPT ![r] = hit]
  <2>1. hits' = [hits EXCEPT
                    ![r].state = IF @ = "sent" THEN "counted" ELSE @,
                    ![r].count = key.count,
                    ![r].late = RL!WindowOf(clock) # w]
    BY Zenon DEF RL!Count
  <2> HIDE DEF key, w
  <2>. QED  BY <1>1, <2>1
<1>5. /\ key.count \in Nat \ {0} /\ key.ends \in Nat
      /\ Window * w + Window <= key.ends
      /\ RL!Live(w) => key.count = counters[w].count + 1
  BY <1>1, <1>2, LimitSettings DEF LimitInv, RL!Live
<1> HIDE DEF key
<1>6. /\ hit \in HitRecord /\ hit.count = key.count /\ hit.at = hits[r].at
      /\ hit.late = (RL!WindowOf(clock) # w)
      /\ hit.allowed = hits[r].allowed /\ hit.degraded = hits[r].degraded
      /\ hit.state = IF hits[r].state = "sent" THEN "counted" ELSE hits[r].state
  BY <1>1, <1>5 DEF HitRecord
<1>7. SoundHit(hit)
  BY <1>1, <1>3, <1>5, <1>6 DEF SoundHit, HitRecord
<1> HIDE DEF hit
<1>8. /\ hits' \in [LimitedRequests -> HitRecord] /\ hits'[r] = hit
      /\ \A s \in LimitedRequests : s # r => hits'[s] = hits[s]
  BY <1>1, <1>4, <1>6
<1>9. \A s \in LimitedRequests : SoundHit(hits[s])'
  BY <1>3, <1>7, <1>8 DEF LimitInv, SoundHit
<1>10. /\ DOMAIN counters' = DOMAIN counters \cup {w} /\ counters'[w] = key
       /\ \A v \in DOMAIN counters : v # w => counters'[v] = counters[v]
  BY <1>3
<1> HIDE DEF w
<1>11. \A v \in DOMAIN counters' :
          /\ v \in Nat /\ counters'[v].count \in Nat \ {0} /\ counters'[v].ends \in Nat
          /\ Window * v + Window <= counters'[v].ends
  BY <1>2, <1>5, <1>10 DEF LimitInv
\* Requests counted in time in the window of this one have counts below its.
<1>12. ASSUME NEW s \in LimitedRequests, s # r, InTime(hits[s]),
              RL!WindowOf(hits[s].at) = w, RL!WindowOf(clock) = w
       PROVE  hits[s].count < key.count /\ hits[s].count \in Nat
  <2>1. /\ w \in DOMAIN counters /\ hits[s].count <= counters[w].count
        /\ counters[w].count \in Nat /\ counters[w].ends \in Nat
        /\ Window * w + Window <= counters[w].ends
    BY <1>12 DEF LimitInv
  <2>2. RL!Live(w)
    BY <1>1, <1>2, <1>12, <2>1, LimitSettings DEF RL!Live
  <2>3. hits[s].count \in Nat
    BY <1>1 DEF HitRecord
  <2>. QED  BY <1>5, <2>1, <2>2, <2>3
<1>13. ASSUME NEW s \in LimitedRequests, InTime(hits'[s]),
              RL!WindowOf(hits'[s].at) = RL!WindowOf(clock)
       PROVE  /\ RL!WindowOf(clock) \in DOMAIN counters'
              /\ hits'[s].count <= counters'[RL!WindowOf(clock)].count
  <2>1. CASE s = r
    BY <1>5, <1>6, <1>8, <1>10, <1>13, <2>1 DEF w
  <2>2. CASE s # r /\ RL!WindowOf(clock) = w
    BY <1>5, <1>8, <1>10, <1>12, <1>13, <2>2
  <2>3. CASE s # r /\ RL!WindowOf(clock) # w
    BY <1>8, <1>10, <1>13, <2>3 DEF LimitInv
  <2>. QED  BY <2>1, <2>2, <2>3
<1>14. ASSUME NEW s \in LimitedRequests, s # r, InTime(hits'[r]), InTime(hits'[s]),
              RL!WindowOf(hits'[r].at) = RL!WindowOf(hits'[s].at)
       PROVE  hits'[r].count # hits'[s].count
  <2>1. /\ RL!WindowOf(clock) = w /\ RL!WindowOf(hits[s].at) = w /\ InTime(hits[s])
    BY <1>6, <1>8, <1>14 DEF InTime, w
  <2>2. hits[s].count < key.count /\ hits[s].count \in Nat
    BY <1>12, <1>14, <2>1
  <2>. QED  BY <1>5, <1>6, <1>8, <1>14, <2>2
<1>15. \A s, q \in LimitedRequests :
          s # q /\ InTime(hits'[s]) /\ InTime(hits'[q])
             /\ RL!WindowOf(hits'[s].at) = RL!WindowOf(hits'[q].at) =>
                hits'[s].count # hits'[q].count
  <2> SUFFICES ASSUME NEW s \in LimitedRequests, NEW q \in LimitedRequests, s # q,
                      InTime(hits'[s]), InTime(hits'[q]),
                      RL!WindowOf(hits'[s].at) = RL!WindowOf(hits'[q].at)
               PROVE  hits'[s].count # hits'[q].count
    OBVIOUS
  <2>1. CASE s = r
    BY <1>14, <2>1
  <2>2. CASE q = r
    BY <1>14, <2>2
  <2>3. CASE s # r /\ q # r
    BY <1>8, <2>3 DEF LimitInv
  <2>. QED  BY <2>1, <2>2, <2>3
<1>16. clock' \in Nat /\ failClosed' \in BOOLEAN
  BY <1>1, <1>3 DEF LimitInv
<1>17. RL!WindowOf(clock)' = RL!WindowOf(clock)
  BY <1>3
<1>. QED  BY <1>8, <1>9, <1>11, <1>13, <1>15, <1>16, <1>17 DEF LimitInv, RL!WindowOf

LEMMA LimitStep == LimitInv /\ [RL!Next]_(RL!vars) => LimitInv'
<1> SUFFICES ASSUME LimitInv, [RL!Next]_(RL!vars)
             PROVE  LimitInv'
  OBVIOUS
<1>1. CASE RL!Tick
  <2>1. /\ clock' = clock + 1 /\ failClosed' = failClosed /\ counters' = counters
        /\ hits' = hits
    BY <1>1 DEF RL!Tick
  <2>2. clock \in Nat /\ clock' \in Nat
    BY <2>1 DEF LimitInv
  <2>3. \A r \in LimitedRequests : SoundHit(hits[r])' /\ hits[r].at \in Nat
                                     /\ hits[r].at <= clock
    BY <2>1, <2>2 DEF LimitInv, SoundHit, HitRecord
  <2>4. ASSUME NEW r \in LimitedRequests, RL!WindowOf(hits[r].at) = RL!WindowOf(clock')
        PROVE  RL!WindowOf(hits[r].at) = RL!WindowOf(clock)
    <3>1. /\ RL!WindowOf(hits[r].at) <= RL!WindowOf(clock)
          /\ RL!WindowOf(clock) <= RL!WindowOf(clock')
      BY <2>1, <2>2, <2>3, WindowOrder
    <3>2. RL!WindowOf(clock) \in Nat /\ RL!WindowOf(clock') \in Nat
      BY <2>2, WindowLength
    <3>. QED  BY <2>4, <3>1, <3>2
  <2>. QED  BY <2>1, <2>2, <2>3, <2>4 DEF LimitInv, RL!WindowOf
<1>2. ASSUME NEW r \in LimitedRequests, RL!Hit(r)
      PROVE  LimitInv'
  <2> DEFINE hit == [hits[r] EXCEPT !.state = "sent", !.at = clock]
  <2>1. /\ hits' = [hits EXCEPT ![r] = hit] /\ hits[r].state = "idle"
        /\ clock' = clock /\ failClosed' = failClosed /\ counters' = counters
    BY <1>2 DEF RL!Hit
  <2>2. hits[r] \in HitRecord /\ SoundHit(hits[r]) /\ clock \in Nat
    BY DEF LimitInv
  <2>3. /\ hit \in HitRecord /\ hit.count = hits[r].count /\ hit.at = clock
        /\ hit.late = hits[r].late /\ hit.state = "sent"
        /\ hit.allowed = hits[r].allowed /\ hit.degraded = hits[r].degraded
    BY <2>2 DEF HitRecord
  <2>4. SoundHit(hit) /\ hit.count = 0
    BY <2>1, <2>2, <2>3 DEF SoundHit
  <2> HIDE DEF hit
  <2>. QED  BY <2>1, <2>3, <2>4, QuietHit
<1>3. ASSUME NEW r \in LimitedRequests, RL!Answer(r)
      PROVE  LimitInv'
  <2> DEFINE hit == [hits[r] EXCEPT !.state = "decided",
                                    !.allowed = hits[r].count <= Limit,
                                    !.degraded = FALSE]
  <2>1. /\ hits' = [hits EXCEPT ![r] = hit] /\ hits[r].state = "counted"
        /\ clock' = clock /\ failClosed' = failClosed /\ counters' = counters
    BY <1>3 DEF RL!Answer, RL!Decide
  <2>2. hits[r] \in HitRecord /\ SoundHit(hits[r]) /\ clock \in Nat
    BY DEF LimitInv
  <2>3. /\ hit \in HitRecord /\ hit.count = hits[r].count
        /\ hit.late = hits[r].late /\ hit.at = hits[r].at
        /\ hit.state = "decided" /\ ~hit.degraded
        /\ hit.allowed => hits[r].count <= Limit
    <3>1. (hits[r].count <= Limit) \in BOOLEAN
      BY <2>2, LimitSettings DEF HitRecord
    <3>2. hit \in HitRecord
      BY <2>2, <3>1, Zenon DEF HitRecord
    <3>. QED  BY <2>2, <3>2 DEF HitRecord
  <2>4. SoundHit(hit)
    BY <2>1, <2>2, <2>3 DEF SoundHit
  <2> HIDE DEF hit
  <2>. QED  BY <2>1, <2>3, <2>4, QuietHit
<1>4. ASSUME NEW r \in LimitedRequests, RL!Unavailable(r)
      PROVE  LimitInv'
  <2> DEFINE hit == [hits[r] EXCEPT !.state = "decided", !.allowed = ~failClosed,
                                    !.degraded = TRUE]
  <2>1. /\ hits' = [hits EXCEPT ![r] = hit]
        /\ clock' = clock /\ failClosed' = failClosed /\ counters' = counters
    BY <1>4 DEF RL!Unavailable, RL!Decide
  <2>2. hits[r] \in HitRecord /\ SoundHit(hits[r]) /\ clock \in Nat
    BY DEF LimitInv
  <2>3. /\ hit \in HitRecord /\ hit.count = hits[r].count
        /\ hit.late = hits[r].late /\ hit.at = hits[r].at
        /\ hit.state = "decided" /\ hit.degraded /\ hit.allowed = ~failClosed
    BY <2>2 DEF HitRecord
  <2>4. SoundHit(hit)
    BY <2>2, <2>3 DEF SoundHit
  <2> HIDE DEF hit
  <2>. QED  BY <2>1, <2>3, <2>4, QuietHit
<1>5. CASE UNCHANGED RL!vars
  BY <1>5 DEF RL!vars, LimitInv, SoundHit
<1>. QED  BY <1>1, <1>2, <1>3, <1>4, <1>5, CountStep DEF RL!Next

LEMMA LimitInvariant == Spec => []LimitInv
<1>1. Init => LimitInv
  BY LimitInit DEF Init
<1>2. LimitInv /\ [Next]_vars => LimitInv'
  <2>1. [Next]_vars => [RL!Next]_(RL!vars)
    BY DEF Next, vars, Chat, RateLimit, ProviderKeys, SessionLife, Erasure,
           Serving, Migrations, ModelStream, EventParser, EvalGate, Only,
           limitVars, RL!vars
  <2>. QED  BY <2>1, LimitStep
<1>. QED  BY <1>1, <1>2, PTL DEF Spec

\* The rate limiter's own instance of Cardinality is Cardinality.
LEMMA SameCardinality == \A S : RL!Cardinality(S) = Cardinality(S)
  BY DEF RL!Cardinality, Cardinality

\* No interval of a window's length holds more than twice the limit of allowed
\* requests, for any limit, window and number of requests, whatever Redis
\* loses and whenever it counts (app/ratelimit.py).
THEOREM TwiceTheLimitAtMost == Spec => []AtMostTwicePerWindow
<1>1. LimitInv => AtMostTwicePerWindow
  <2> SUFFICES ASSUME LimitInv, NEW t \in 0..MaxClock
               PROVE  Cardinality({r \in LimitedRequests :
                         /\ hits[r].allowed /\ (failClosed \/ ~hits[r].degraded)
                         /\ ~hits[r].late /\ hits[r].at \in t..(t + Window - 1)})
                        <= 2 * Limit
    BY SameCardinality, Zenon DEF AtMostTwicePerWindow, RL!AtMostTwicePerWindow
  <2> DEFINE S == {r \in LimitedRequests :
                         /\ hits[r].allowed /\ (failClosed \/ ~hits[r].degraded)
                         /\ ~hits[r].late /\ hits[r].at \in t..(t + Window - 1)}
             w == RL!WindowOf(t)
             A == {r \in S : RL!WindowOf(hits[r].at) = w}
             B == {r \in S : RL!WindowOf(hits[r].at) = w + 1}
  <2>1. S = A \cup B
    <3> SUFFICES ASSUME NEW r \in S
                 PROVE  r \in A \cup B
      OBVIOUS
    <3>1. /\ t \in Nat /\ hits[r].at \in Nat /\ t <= hits[r].at
          /\ hits[r].at < t + Window
      BY LimitSettings DEF LimitInv, HitRecord
    <3>. QED  BY <3>1, WindowOrder
  <2>2. /\ A \in SUBSET LimitedRequests
        /\ \A r \in A : /\ hits[r].allowed /\ (failClosed \/ ~hits[r].degraded)
                        /\ ~hits[r].late /\ RL!WindowOf(hits[r].at) = w
    OBVIOUS
  <2>3. /\ B \in SUBSET LimitedRequests
        /\ \A r \in B : /\ hits[r].allowed /\ (failClosed \/ ~hits[r].degraded)
                        /\ ~hits[r].late /\ RL!WindowOf(hits[r].at) = w + 1
    OBVIOUS
  <2> HIDE DEF S, A, B, w
  <2>4. IsFiniteSet(A) /\ Cardinality(A) <= Limit
    BY <2>2, WindowIsLimited
  <2>5. IsFiniteSet(B) /\ Cardinality(B) <= Limit
    BY <2>3, WindowIsLimited
  <2>6. /\ Cardinality(A \cup B) = Cardinality(A) + Cardinality(B) - Cardinality(A \cap B)
        /\ IsFiniteSet(A \cap B)
    BY <2>4, <2>5, FS_Union, FS_Intersection
  <2>7. Cardinality(A) \in Nat /\ Cardinality(B) \in Nat /\ Cardinality(A \cap B) \in Nat
    BY <2>4, <2>5, <2>6, FS_CardinalityType
  <2>8. Cardinality(S) <= 2 * Limit
    BY <2>1, <2>4, <2>5, <2>6, <2>7, LimitSettings
  <2>. QED  BY <2>8 DEF S
<1>. QED  BY <1>1, LimitInvariant, PTL
-----------------------------------------------------------------------------
(* EvalGate, and the ways to draw its cases (Combinatorics).                *)

LEMMA HasLeast ==
    ASSUME NEW T \in SUBSET Nat, T # {}
    PROVE  \E m \in T : \A k \in T : ~(k < m)
<1>1. IsWellFoundedOn(OpToRel(<, Nat), Nat)
  BY NatLessThanWellFounded, Zenon
<1>2. PICK m \in T : \A k \in T : ~(<<k, m>> \in OpToRel(<, Nat))
  BY ONLY <1>1, T \in SUBSET Nat, T # {}, WFMin, Zenon
<1>3. \A k \in T : ~(k < m)
  BY <1>2 DEF OpToRel
<1>. QED  BY <1>3

\* Factorials up to m: one function, and all of them agree.
IsFactorial(f, m) == f = [n \in 0..m |-> IF n = 0 THEN 1 ELSE n * f[n - 1]]

LEMMA FactorialUpTo ==
    ASSUME NEW m \in Nat
    PROVE  \E f : IsFactorial(f, m)
<1> DEFINE T == {k \in Nat : ~\E f : IsFactorial(f, k)}
<1>1. T = {}
  <2> SUFFICES ASSUME T # {}  PROVE FALSE
    OBVIOUS
  <2> HIDE DEF T
  <2>1. PICK k \in T : \A l \in T : ~(l < k)
    BY HasLeast DEF T
  <2>2. k \in Nat /\ ~\E f : IsFactorial(f, k)
    BY <2>1 DEF T
  <2>3. CASE k = 0
    <3> DEFINE f == [n \in 0..0 |-> 1]
    <3>1. IsFactorial(f, 0)
      BY DEF IsFactorial
    <3>. QED  BY <2>2, <2>3, <3>1
  <2>4. CASE k # 0
    <3>1. k - 1 \in Nat /\ k - 1 < k
      BY <2>2, <2>4
    <3>2. PICK f : IsFactorial(f, k - 1)
      BY <2>1, <3>1 DEF T
    <3> DEFINE g == [n \in 0..k |-> IF n = k THEN k * f[k - 1] ELSE f[n]]
    <3>3. \A n \in 0..(k - 1) : f[n] = IF n = 0 THEN 1 ELSE n * f[n - 1]
      BY <3>2, Zenon DEF IsFactorial
    <3>4. ASSUME NEW n \in 0..k
          PROVE  g[n] = IF n = 0 THEN 1 ELSE n * g[n - 1]
      <4>1. n # 0 => n - 1 \in 0..k /\ n - 1 # k
        BY <2>2
      <4>2. n # 0 => g[n - 1] = f[n - 1]
        BY <4>1
      <4>3. CASE n = k
        BY <2>4, <4>2, <4>3
      <4>4. CASE n # k
        <5>1. n \in 0..(k - 1)
          BY <2>2, <4>4
        <5>. QED  BY <3>3, <4>2, <4>4, <5>1
      <4>. QED  BY <4>3, <4>4
    <3>5. IsFactorial(g, k)
      BY <3>4, Zenon DEF IsFactorial
    <3>. QED  BY <2>2, <3>5
  <2>. QED  BY <2>3, <2>4
<1>. QED  BY <1>1

LEMMA FactorialsAgree ==
    ASSUME NEW m \in Nat, NEW k \in Nat, m <= k,
           NEW f, IsFactorial(f, m), NEW g, IsFactorial(g, k)
    PROVE  \A n \in 0..m : f[n] = g[n]
<1> DEFINE T == {n \in 0..m : f[n] # g[n]}
<1>0. \A n \in 0..m : n \in 0..k
  OBVIOUS
<1>1. \A n \in 0..m : /\ f[n] = IF n = 0 THEN 1 ELSE n * f[n - 1]
                      /\ g[n] = IF n = 0 THEN 1 ELSE n * g[n - 1]
  BY <1>0, Zenon DEF IsFactorial
<1>2. T = {}
  <2> SUFFICES ASSUME T # {}  PROVE FALSE
    OBVIOUS
  <2>1. T \in SUBSET Nat
    OBVIOUS
  <2> HIDE DEF T
  <2>2. PICK n \in T : \A l \in T : ~(l < n)
    BY <2>1, HasLeast
  <2>3. n \in 0..m /\ f[n] # g[n]
    BY <2>2 DEF T
  <2>4. n # 0
    BY <1>1, <2>3
  <2>5. n - 1 \in 0..m /\ n - 1 < n
    BY <2>3, <2>4
  <2>6. f[n - 1] = g[n - 1]
    BY <2>2, <2>5 DEF T
  <2>. QED  BY <1>1, <2>3, <2>4, <2>6
<1>. QED  BY <1>2

LEMMA FactorialDef ==
    EG!factorial = [n \in Nat |-> IF n = 0 THEN 1 ELSE n * EG!factorial[n - 1]]
<1> DEFINE upTo(m) == CHOOSE f : IsFactorial(f, m)
           g == [n \in Nat |-> upTo(n)[n]]
<1>1. \A m \in Nat : IsFactorial(upTo(m), m)
  BY FactorialUpTo, Zenon
<1>2. ASSUME NEW n \in Nat
      PROVE  g[n] = IF n = 0 THEN 1 ELSE n * g[n - 1]
  <2> HIDE DEF upTo
  <2>1. upTo(n)[n] = IF n = 0 THEN 1 ELSE n * upTo(n)[n - 1]
    <3>1. n \in 0..n
      OBVIOUS
    <3>. QED  BY <1>1, <3>1, Zenon DEF IsFactorial
  <2>2. CASE n = 0
    BY <2>1, <2>2
  <2>3. CASE n # 0
    <3>1. n - 1 \in Nat /\ n - 1 <= n /\ n - 1 \in 0..(n - 1)
      BY <2>3
    <3>2. upTo(n - 1)[n - 1] = upTo(n)[n - 1]
      BY <1>1, <3>1, FactorialsAgree
    <3>. QED  BY <2>1, <2>3, <3>1, <3>2
  <2>. QED  BY <2>2, <2>3
<1>3. g = [n \in Nat |-> IF n = 0 THEN 1 ELSE n * g[n - 1]]
  <2> HIDE DEF upTo
  <2>. QED  BY <1>2, Zenon
<1> HIDE DEF g
<1>. QED  BY <1>3, Zenon DEF EG!factorial

LEMMA FactorialsArePositive ==
    /\ EG!factorial[0] = 1
    /\ \A n \in Nat : EG!factorial[n] \in Nat \ {0}
<1>1. \A n \in Nat : EG!factorial[n] = IF n = 0 THEN 1 ELSE n * EG!factorial[n - 1]
  BY FactorialDef, Zenon
<1> DEFINE T == {n \in Nat : EG!factorial[n] \notin Nat \ {0}}
<1>2. T = {}
  <2> SUFFICES ASSUME T # {}  PROVE FALSE
    OBVIOUS
  <2> HIDE DEF T
  <2>1. PICK n \in T : \A l \in T : ~(l < n)
    BY HasLeast DEF T
  <2>2. n \in Nat /\ EG!factorial[n] \notin Nat \ {0}
    BY <2>1 DEF T
  <2>3. n # 0
    BY <1>1, <2>2
  <2>4. n - 1 \in Nat /\ n - 1 < n
    BY <2>2, <2>3
  <2>5. EG!factorial[n - 1] \in Nat \ {0}
    BY <2>1, <2>4 DEF T
  <2>6. \A a, b \in Nat \ {0} : a * b \in Nat \ {0}
    OBVIOUS
  <2>. QED  BY <1>1, <2>2, <2>3, <2>5, <2>6
<1>. QED  BY <1>1, <1>2

\* Of n things there is one way to choose all, and one to choose none.
LEMMA AllOrNone ==
    ASSUME NEW n \in Nat
    PROVE  EG!choose(n, n) = 1 /\ EG!choose(n, 0) = 1
<1>1. n - n = 0 /\ n - 0 = n
  OBVIOUS
<1>2. \A f \in Nat \ {0} : f \div (f * 1) = 1 /\ f \div (1 * f) = 1
  OBVIOUS
<1>. QED  BY <1>1, <1>2, FactorialsArePositive DEF EG!choose

\* When every attempt fails, and none failed before, there is no worse way to
\* draw, and one as bad.
LEMMA OneWayAsBad ==
    ASSUME NEW r \in Nat, NEW b \in Nat
    PROVE  EG!WaysAsBad(r, r, 0, b) = 1
<1> DEFINE fails == r + 0
           passes == r + b - fails
           S == {x \in r..r : x <= fails /\ r - x <= passes}
           term(x) == EG!choose(fails, x) * EG!choose(passes, r - x)
           ways[s \in SUBSET S] ==
              IF s = {} THEN 0
              ELSE LET x == CHOOSE x \in s : TRUE
                   IN  term(x) + ways[s \ {x}]
<1>1. EG!WaysAsBad(r, r, 0, b) = ways[S]
  BY Zenon DEF EG!WaysAsBad, EG!MapThenSumSet, EG!MapThenFoldSet
<1>2. S = {r} /\ fails = r /\ passes = b /\ r - r = 0
  OBVIOUS
<1>3. term(r) = 1
  BY <1>2, AllOrNone
<1> HIDE DEF term, S, fails, passes
<1>4. \E f : f = [s \in SUBSET S |->
                    IF s = {} THEN 0
                    ELSE LET x == CHOOSE x \in s : TRUE
                         IN  term(x) + f[s \ {x}]]
  <2> DEFINE f == [s \in SUBSET S |-> IF s = {} THEN 0 ELSE 1]
  <2>1. ASSUME NEW s \in SUBSET S
        PROVE  f[s] = IF s = {} THEN 0
                      ELSE LET x == CHOOSE x \in s : TRUE
                           IN  term(x) + f[s \ {x}]
    <3>1. CASE s = {}
      BY <3>1
    <3>2. CASE s # {}
      <4>1. (CHOOSE x \in s : TRUE) = r /\ s \ {r} = {}
        BY <1>2, <3>2
      <4>2. f[s] = 1 /\ f[s \ {r}] = 0
        BY <3>2, <4>1
      <4>. QED  BY <1>3, <3>2, <4>1, <4>2
    <3>. QED  BY <3>1, <3>2
  <2>2. f = [s \in SUBSET S |->
                    IF s = {} THEN 0
                    ELSE LET x == CHOOSE x \in s : TRUE
                         IN  term(x) + f[s \ {x}]]
    BY <2>1, Zenon
  <2>. QED  BY <2>2
<1>5. ways = [s \in SUBSET S |->
                    IF s = {} THEN 0
                    ELSE LET x == CHOOSE x \in s : TRUE
                         IN  term(x) + ways[s \ {x}]]
  BY <1>4, Zenon
<1> HIDE DEF ways
<1>6. ways[{}] = 0
  BY <1>5
<1>7. (CHOOSE x \in S : TRUE) = r /\ S \ {r} = {} /\ S # {}
  BY <1>2
<1>8. ways[S] = term(r) + ways[{}]
  BY <1>5, <1>7
<1>. QED  BY <1>1, <1>3, <1>6, <1>8
LEMMA GateNumbers ==
    /\ CaseCount \in Nat \ {0} /\ Repeat \in Nat \ {0} /\ Before \in Nat \ {0}
    /\ Needed \in Nat /\ Of \in Nat \ {0}
  BY ServicesConstants DEF EG!EvalConstants

\* The module's own instance of Cardinality.
LEMMA GateCardinality == \A S : EG!Cardinality(S) = Cardinality(S)
  BY DEF EG!Cardinality, Cardinality

\* A case that passed no repeat after a clean baseline regressed.
LEMMA NoPassIsARegression ==
    ASSUME EG!CanShowRegression, NEW n \in EG!Names, tally[n].passes = 0, tally[n].runs = Repeat,
           NEW before, before = [runs |-> Before, fails |-> 0]
    PROVE  EG!Regressed(n, before)
<1>1. Repeat - 0 = Repeat /\ 20 * 1 < EG!choose(Repeat + Before, Repeat)
  BY GateNumbers DEF EG!CanShowRegression
<1>2. EG!WaysAsBad(Repeat, Repeat, 0, Before) = 1
  BY GateNumbers, OneWayAsBad
<1>3. before.runs = Before /\ before.fails = 0 /\ Before # 0
  BY GateNumbers
<1>. QED  BY <1>1, <1>2, <1>3 DEF EG!Regressed

Tally == [runs : Nat, passes : Nat, gated : BOOLEAN]

\* A safety case always has a check to run, so that every attempt at it is
\* gated as the first one was.
SafetyIsGated(n) ==
    suite[n].safety /\ tally[n].runs > 0 =>
        tally[n].gated = (mode = "quality" \/ suite[n].plumbing)

GateInv ==
    /\ target \in {"model", "api"} /\ mode \in {"quality", "plumbing"}
    /\ judging \in BOOLEAN /\ missing \in BOOLEAN
    /\ broken \in BOOLEAN /\ lapsed \in BOOLEAN
    /\ verdict \in {"running", "accepted", "rejected", "aborted"}
    /\ suite \in [EG!Names -> EG!Cases] /\ tally \in [EG!Names -> Tally]
    /\ target = "model" => \A n \in EG!Names : suite[n].safety => suite[n].text
    /\ \A n \in EG!Names :
          tally[n].passes <= tally[n].runs /\ tally[n].runs <= Repeat
    /\ \A n \in EG!Names : SafetyIsGated(n)
    /\ broken => \E n \in EG!Names :
          suite[n].safety /\ tally[n].gated /\ tally[n].passes < tally[n].runs
    /\ EG!GateMeansChecked

LEMMA GateInit == EG!Init => GateInv
<1> SUFFICES ASSUME EG!Init  PROVE GateInv
  OBVIOUS
<1>1. tally \in [EG!Names -> Tally]
  BY DEF EG!Init, Tally
<1>2. /\ target \in {"model", "api"} /\ mode \in {"quality", "plumbing"}
      /\ judging \in BOOLEAN /\ suite \in [EG!Names -> EG!Cases]
      /\ target = "model" => \A n \in EG!Names : suite[n].safety => suite[n].text
  BY Zenon DEF EG!Init
<1>3. /\ missing = FALSE /\ verdict = "running" /\ broken = FALSE /\ lapsed = FALSE
      /\ \A n \in EG!Names : tally[n].runs = 0 /\ tally[n].passes = 0
  BY DEF EG!Init
<1>4. \A n \in EG!Names :
          /\ tally[n].passes <= tally[n].runs /\ tally[n].runs <= Repeat
          /\ SafetyIsGated(n)
  BY <1>3, GateNumbers DEF SafetyIsGated
<1>. QED  BY <1>1, <1>2, <1>3, <1>4 DEF GateInv, EG!GateMeansChecked

\* What an attempt at a safety case is checked by.
LEMMA SafetyIsChecked ==
    ASSUME GateInv, NEW n \in EG!Names, suite[n].safety, NEW answer
    PROVE  EG!Checked(suite[n], answer)
<1>1. suite[n] \in EG!Cases
  BY DEF GateInv
<1>2. suite[n].text \/ suite[n].context
  BY <1>1 DEF EG!Cases
<1>3. suite[n].text \/ (target = "api" /\ suite[n].context)
  BY <1>2 DEF GateInv
<1>. QED  BY <1>3 DEF EG!Checked, EG!Checks

LEMMA AttemptKeeps ==
    ASSUME GateInv, NEW n \in EG!Names, EG!Attempt(n)
    PROVE  GateInv'
<1>1. PICK answer \in EG!Answers :
        /\ tally' = [tally EXCEPT ![n] =
                    [runs |-> @.runs + 1,
                     passes |-> @.passes + IF EG!Passed(suite[n], answer) THEN 1 ELSE 0,
                     gated |-> IF @.runs = 0 THEN EG!Gated(suite[n], answer) ELSE @.gated]]
        /\ missing' = (missing \/ (EG!AsksJudge(suite[n], answer)
                                        /\ answer.verdict = "none"))
        /\ broken' = (broken \/ (suite[n].safety /\ EG!Gated(suite[n], answer)
                                      /\ ~EG!Passed(suite[n], answer)))
  BY DEF EG!Attempt
<1>2. /\ verdict = "running" /\ tally[n].runs < Repeat
      /\ UNCHANGED <<target, mode, judging, suite, verdict, lapsed>>
  BY DEF EG!Attempt
<1> DEFINE passed == EG!Passed(suite[n], answer)
           gates == EG!Gated(suite[n], answer)
           new == [runs |-> tally[n].runs + 1,
                   passes |-> tally[n].passes + IF passed THEN 1 ELSE 0,
                   gated |-> IF tally[n].runs = 0 THEN gates ELSE tally[n].gated]
<1>3. tally[n] \in Tally /\ tally[n].passes <= tally[n].runs
  BY DEF GateInv
<1>4. gates \in BOOLEAN /\ passed \in BOOLEAN
  BY DEF EG!Gated, EG!Passed, EG!Checked
<1>5. suite[n].safety => gates = (mode = "quality" \/ suite[n].plumbing)
  BY SafetyIsChecked DEF EG!Gated
<1>6. tally' = [tally EXCEPT ![n] = new]
  BY <1>1, Zenon
<1>7. /\ broken' = (broken \/ (suite[n].safety /\ gates /\ ~passed))
      /\ missing' \in BOOLEAN
  BY <1>1, Zenon DEF GateInv, EG!AsksJudge
<1> HIDE DEF passed, gates
<1>8. /\ new \in Tally /\ new.runs = tally[n].runs + 1 /\ new.passes <= new.runs
      /\ new.runs <= Repeat
      /\ new.passes = tally[n].passes + IF passed THEN 1 ELSE 0
      /\ new.gated = IF tally[n].runs = 0 THEN gates ELSE tally[n].gated
  BY <1>2, <1>3, <1>4, GateNumbers DEF Tally
<1> HIDE DEF new
<1>9. /\ tally' \in [EG!Names -> Tally] /\ tally'[n] = new
      /\ \A m \in EG!Names : m # n => tally'[m] = tally[m]
  BY <1>6, <1>8 DEF GateInv
<1>10. \A m \in EG!Names :
          tally'[m].passes <= tally'[m].runs /\ tally'[m].runs <= Repeat
  BY <1>8, <1>9 DEF GateInv
<1>11. \A m \in EG!Names : SafetyIsGated(m)'
  <2>1. SafetyIsGated(n)'
    <3>1. CASE tally[n].runs = 0
      BY <1>2, <1>5, <1>8, <1>9, <3>1 DEF SafetyIsGated
    <3>2. CASE tally[n].runs # 0
      <4>1. tally[n].runs > 0
        BY <1>3, <3>2 DEF Tally
      <4>. QED  BY <1>2, <1>8, <1>9, <3>2, <4>1 DEF SafetyIsGated, GateInv
    <3>. QED  BY <3>1, <3>2
  <2>2. ASSUME NEW m \in EG!Names, m # n  PROVE SafetyIsGated(m)'
    BY <1>2, <1>9, <2>2 DEF SafetyIsGated, GateInv
  <2>. QED  BY <2>1, <2>2
<1>12. broken' => \E m \in EG!Names :
          suite'[m].safety /\ tally'[m].gated /\ tally'[m].passes < tally'[m].runs
  <2>1. CASE broken
    <3>1. PICK m \in EG!Names :
            suite[m].safety /\ tally[m].gated /\ tally[m].passes < tally[m].runs
      BY <2>1 DEF GateInv
    <3>2. CASE m # n
      BY <1>2, <1>9, <3>1, <3>2
    <3>3. CASE m = n
      <4>1. new.passes < new.runs
        BY <1>3, <1>8, <3>1, <3>3 DEF Tally
      <4>2. new.gated
        BY <1>3, <1>8, <3>1, <3>3 DEF Tally
      <4>. QED  BY <1>2, <1>9, <3>1, <3>3, <4>1, <4>2
    <3>. QED  BY <3>2, <3>3
  <2>2. CASE suite[n].safety /\ gates /\ ~passed
    <3>1. new.passes < new.runs
      BY <1>3, <1>8, <2>2 DEF Tally
    <3>2. new.gated
      <4>1. CASE tally[n].runs = 0
        BY <1>8, <2>2, <4>1
      <4>2. CASE tally[n].runs # 0
        <5>1. tally[n].runs > 0
          BY <1>3, <4>2 DEF Tally
        <5>2. tally[n].gated
          BY <1>5, <2>2, <5>1 DEF GateInv, SafetyIsGated
        <5>. QED  BY <1>8, <4>2, <5>2
      <4>. QED  BY <4>1, <4>2
    <3>. QED  BY <1>2, <1>9, <2>2, <3>1, <3>2
  <2>. QED  BY <1>7, <2>1, <2>2
<1>13. EG!GateMeansChecked'
  BY <1>2 DEF EG!GateMeansChecked
<1>14. broken' \in BOOLEAN
  BY <1>7 DEF GateInv
<1>. QED
  BY <1>2, <1>7, <1>9, <1>10, <1>11, <1>12, <1>13, <1>14 DEF GateInv

LEMMA GateKeeps ==
    ASSUME GateInv, EG!Gate
    PROVE  GateInv'
<1> DEFINE gated == {n \in EG!Names : tally[n].gated}
           quality == {n \in gated : ~suite[n].safety}
           passing == {n \in quality : EG!CasePassed(n)}
<1>1. PICK before \in [EG!Names -> EG!Baselines] :
        /\ verdict' \in {"accepted", "rejected"}
        /\ verdict' = "accepted" =>
              /\ gated # {}
              /\ \A n \in gated \ quality : EG!CasePassed(n)
              /\ EG!Cardinality(passing) * Of >= Needed * EG!Cardinality(quality)
              /\ \A n \in EG!Names : ~EG!Regressed(n, before[n])
        /\ lapsed' = \E n \in EG!Names :
                before[n] = [runs |-> Before, fails |-> 0] /\ tally[n].passes = 0
  BY Zenon DEF EG!Gate
<1>2. /\ \A n \in EG!Names : tally[n].runs = Repeat
      /\ UNCHANGED <<target, mode, judging, suite, tally, missing, broken>>
  BY DEF EG!Gate
<1>3. EG!GateMeansChecked'
  <2> SUFFICES ASSUME verdict' = "accepted"
               PROVE  /\ ~broken
                      /\ EG!CanShowRegression => ~lapsed'
                      /\ (Needed = 0 \/ \E n \in EG!Names : tally[n].passes > 0)
    BY <1>2 DEF EG!GateMeansChecked
  <2>1. ~broken
    <3> SUFFICES ASSUME broken  PROVE FALSE
      OBVIOUS
    <3>1. PICK n \in EG!Names :
            suite[n].safety /\ tally[n].gated /\ tally[n].passes < tally[n].runs
      BY DEF GateInv
    <3>2. tally[n].passes = tally[n].runs
      BY <1>1, <3>1 DEF EG!CasePassed
    <3>3. tally[n].runs \in Nat
      BY DEF GateInv, Tally
    <3>. QED  BY <3>1, <3>2, <3>3
  <2>2. ASSUME EG!CanShowRegression  PROVE ~lapsed'
    <3> SUFFICES ASSUME NEW n \in EG!Names, tally[n].passes = 0,
                        before[n] = [runs |-> Before, fails |-> 0]
                 PROVE  FALSE
      BY <1>1
    <3>. QED  BY <1>1, <1>2, <2>2, NoPassIsARegression
  <2>3. ASSUME Needed # 0
        PROVE  \E n \in EG!Names : tally[n].passes > 0
    <3>1. \A n \in EG!Names : EG!CasePassed(n) => tally[n].passes > 0
      BY <1>2, GateNumbers DEF EG!CasePassed
    <3>2. PICK g \in gated : TRUE
      BY <1>1
    <3>3. CASE g \notin quality
      BY <1>1, <3>1, <3>3
    <3>4. CASE g \in quality
      <4>1. IsFiniteSet(quality) /\ IsFiniteSet(passing)
        <5>1. IsFiniteSet(EG!Names)
          BY GateNumbers, FS_Interval DEF EG!Names
        <5>. QED  BY <5>1, FS_Subset
      <4>2. Cardinality(quality) \in Nat \ {0}
        BY <3>4, <4>1, FS_CardinalityType, FS_EmptySet
      <4>3. Needed * Cardinality(quality) > 0
        <5>1. \A a, b \in Nat \ {0} : a * b > 0
          OBVIOUS
        <5>. QED  BY <2>3, <4>2, <5>1, GateNumbers
      <4>4. Cardinality(passing) * Of > 0
        <5>1. Cardinality(passing) \in Nat
          BY <4>1, FS_CardinalityType
        <5>2. Cardinality(passing) * Of >= Needed * Cardinality(quality)
          BY <1>1, GateCardinality
        <5>3. \A i, j \in Int : i >= j /\ j > 0 => i > 0
          OBVIOUS
        <5>4. Cardinality(passing) * Of \in Int /\ Needed * Cardinality(quality) \in Int
          BY <4>2, <5>1, GateNumbers
        <5> HIDE DEF passing, quality, gated
        <5>. QED  BY <4>3, <5>2, <5>3, <5>4
      <4>5. passing # {}
        <5>1. 0 * Of = 0
          BY GateNumbers
        <5>2. passing = {} => Cardinality(passing) = 0
          BY ONLY FS_EmptySet
        <5> HIDE DEF passing
        <5>. QED  BY ONLY <4>4, <5>1, <5>2
      <4>. QED  BY <3>1, <4>5
    <3>. QED  BY <3>3, <3>4
  <2>. QED  BY <2>1, <2>2, <2>3
<1>4. lapsed' \in BOOLEAN
  BY <1>1
<1>. QED  BY <1>1, <1>2, <1>3, <1>4 DEF GateInv, SafetyIsGated

LEMMA GateStep == GateInv /\ [EG!Next]_(EG!vars) => GateInv'
<1> SUFFICES ASSUME GateInv, [EG!Next]_(EG!vars)
             PROVE  GateInv'
  OBVIOUS
<1>1. CASE EG!SeedingFails
  BY <1>1 DEF EG!SeedingFails, GateInv, SafetyIsGated, EG!GateMeansChecked
<1>2. CASE UNCHANGED EG!vars
  BY <1>2 DEF EG!vars, GateInv, SafetyIsGated, EG!GateMeansChecked
<1>. QED  BY <1>1, <1>2, AttemptKeeps, GateKeeps DEF EG!Next

LEMMA GateInvariant == Spec => []GateInv
<1>1. Init => GateInv
  BY GateInit DEF Init
<1>2. GateInv /\ [Next]_vars => GateInv'
  <2>1. [Next]_vars => [EG!Next]_(EG!vars)
    BY DEF Next, vars, Chat, RateLimit, ProviderKeys, SessionLife, Erasure,
           Serving, Migrations, ModelStream, EventParser, EvalGate, Only,
           evalVars, EG!vars
  <2>. QED  BY <2>1, GateStep
<1>. QED  BY <1>1, <1>2, PTL DEF Spec

\* A run that is accepted broke no safety case its mode gates, whichever
\* attempts failed or went unchecked; let no case stop passing since its
\* baseline, where Fisher's test can tell from that many attempts; and passed
\* something where anything had to (evals/run.py), for any cases, repeats and
\* baseline.
THEOREM AcceptedRunsAreChecked == Spec => []GateMeansChecked
<1>1. GateInv => GateMeansChecked
  BY DEF GateInv, GateMeansChecked
<1>. QED  BY <1>1, GateInvariant, PTL

-----------------------------------------------------------------------------
(* The types of these components, and what a key can count.                *)

\* RateLimit's CountedIn, of any requests.
CountedOf(h, w) ==
    {r \in LimitedRequests : h[r].count # 0 /\ RL!WindowOf(h[r].at) = w}

\* No key, and no request, has counted more than Redis counted in the window.
CountsAreReal ==
    /\ clock <= MaxClock
    /\ \A w : IsFiniteSet(CountedOf(hits, w))
    /\ \A r \in LimitedRequests :
          hits[r].count <= Cardinality(CountedOf(hits, RL!WindowOf(hits[r].at)))
    /\ \A w \in DOMAIN counters :
          /\ w <= RL!WindowOf(MaxClock)
          /\ counters[w].count <= Cardinality(CountedOf(hits, w))
          /\ counters[w].ends <= MaxClock + Window

LEMMA RealAtFirst == RL!Init => CountsAreReal
<1> SUFFICES ASSUME RL!Init  PROVE CountsAreReal
  OBVIOUS
<1>1. /\ clock = 0 /\ DOMAIN counters = {}
      /\ \A r \in LimitedRequests : hits[r].count = 0
  BY DEF RL!Init, RL!Idle
<1>2. \A w : CountedOf(hits, w) = {}
  BY <1>1 DEF CountedOf
<1>3. \A w : IsFiniteSet(CountedOf(hits, w)) /\ Cardinality(CountedOf(hits, w)) = 0
  BY <1>2, FS_EmptySet
<1>4. \A r \in LimitedRequests :
          hits[r].count <= Cardinality(CountedOf(hits, RL!WindowOf(hits[r].at)))
  BY <1>1, <1>3
<1>. QED  BY <1>1, <1>3, <1>4, LimitSettings DEF CountsAreReal

\* A step that counts no request.
LEMMA NothingCounted ==
    ASSUME LimitInv, CountsAreReal, LimitInv', clock' <= MaxClock, UNCHANGED counters,
           \A r \in LimitedRequests :
              /\ hits'[r].count = hits[r].count
              /\ hits[r].count # 0 => hits'[r].at = hits[r].at
    PROVE  CountsAreReal'
<1>1. \A w : CountedOf(hits', w) = CountedOf(hits, w)
  BY DEF CountedOf
<1>2. ASSUME NEW r \in LimitedRequests
      PROVE  hits'[r].count <= Cardinality(CountedOf(hits', RL!WindowOf(hits'[r].at)))
  <2> DEFINE w == RL!WindowOf(hits'[r].at)
             seen == CountedOf(hits', w)
  <2>1. Cardinality(seen) \in Nat
    BY <1>1, FS_CardinalityType DEF CountsAreReal
  <2>2. CASE hits[r].count = 0
    BY <2>1, <2>2
  <2>3. CASE hits[r].count # 0
    <3>1. seen = CountedOf(hits, RL!WindowOf(hits[r].at))
      BY <1>1, <2>3
    <3>. QED  BY <3>1 DEF CountsAreReal
  <2>. QED  BY <2>2, <2>3
<1>. QED  BY <1>1, <1>2 DEF CountsAreReal, RL!WindowOf

LEMMA CountIsReal ==
    ASSUME LimitInv, CountsAreReal, NEW r \in LimitedRequests, RL!Count(r)
    PROVE  CountsAreReal'
<1> DEFINE w == RL!WindowOf(hits[r].at)
           key == IF RL!Live(w) THEN [counters[w] EXCEPT !.count = @ + 1]
                  ELSE [count |-> 1, ends |-> clock + Window]
           others == CountedOf(hits, w)
<1>1. /\ counters' = [v \in DOMAIN counters \cup {w} |->
                         IF v = w THEN key ELSE counters[v]]
      /\ hits' = [hits EXCEPT
                    ![r].state = IF @ = "sent" THEN "counted" ELSE @,
                    ![r].count = key.count,
                    ![r].late = RL!WindowOf(clock) # w]
  BY Zenon DEF RL!Count
<1>2. /\ clock' = clock /\ hits[r].count = 0
      /\ hits[r].at \in Nat /\ hits[r].at <= clock /\ clock \in Nat /\ clock <= MaxClock
  <2>1. /\ clock' = clock
        /\ hits[r].state = "sent" \/ (hits[r].state = "decided" /\ hits[r].count = 0)
    BY Zenon DEF RL!Count
  <2>2. hits[r] \in HitRecord /\ SoundHit(hits[r]) /\ clock \in Nat
    BY DEF LimitInv
  <2>. QED  BY <2>1, <2>2 DEF HitRecord, SoundHit, CountsAreReal
<1>3. IsFiniteSet(others) /\ Cardinality(others) \in Nat /\ r \notin others
  BY <1>2, FS_CardinalityType DEF CountsAreReal, CountedOf
<1>4. /\ key.count \in Nat \ {0} /\ key.count <= Cardinality(others) + 1
      /\ key.ends <= MaxClock + Window
  <2>1. CASE RL!Live(w)
    <3>1. w \in DOMAIN counters
      BY <2>1 DEF RL!Live
    <3>2. /\ counters[w].count \in Nat \ {0} /\ counters[w].ends <= MaxClock + Window
          /\ counters[w].count <= Cardinality(others)
      BY <3>1 DEF LimitInv, CountsAreReal
    <3>3. key.count = counters[w].count + 1 /\ key.ends = counters[w].ends
      BY <2>1, <3>1 DEF LimitInv
    <3> HIDE DEF key, w, others
    <3>. QED  BY <1>3, <3>2, <3>3
  <2>2. CASE ~RL!Live(w)
    BY <1>2, <1>3, <2>2, LimitSettings
  <2>. QED  BY <2>1, <2>2
<1> HIDE DEF key
<1>5. /\ hits'[r].count = key.count /\ hits'[r].at = hits[r].at
      /\ \A s \in LimitedRequests : s # r => hits'[s] = hits[s]
  BY <1>1 DEF LimitInv, HitRecord
<1>6. /\ CountedOf(hits', w) = others \cup {r}
      /\ \A v : v # w => CountedOf(hits', v) = CountedOf(hits, v)
  BY <1>4, <1>5 DEF CountedOf
<1>7. IsFiniteSet(others \cup {r}) /\ Cardinality(others \cup {r}) = Cardinality(others) + 1
  BY <1>3, FS_AddElement
<1>8. \A v : IsFiniteSet(CountedOf(hits', v))
  BY <1>6, <1>7 DEF CountsAreReal
<1>9. ASSUME NEW s \in LimitedRequests
      PROVE  hits'[s].count <= Cardinality(CountedOf(hits', RL!WindowOf(hits'[s].at)))
  <2>1. CASE s = r
    BY <1>4, <1>5, <1>6, <1>7, <2>1
  <2>2. CASE s # r /\ RL!WindowOf(hits[s].at) = w
    <3>1. hits[s].count <= Cardinality(others) /\ hits[s].count \in Nat
      BY <2>2 DEF CountsAreReal, LimitInv, HitRecord
    <3>2. CountedOf(hits', RL!WindowOf(hits'[s].at)) = others \cup {r}
      BY <1>5, <1>6, <2>2
    <3>3. hits'[s].count = hits[s].count
      BY <1>5, <2>2
    <3> HIDE DEF others, w
    <3>. QED  BY <1>3, <1>7, <3>1, <3>2, <3>3
  <2>3. CASE s # r /\ RL!WindowOf(hits[s].at) # w
    BY <1>5, <1>6, <2>3 DEF CountsAreReal
  <2>. QED  BY <2>1, <2>2, <2>3
<1>10. ASSUME NEW v \in DOMAIN counters'
       PROVE  /\ v <= RL!WindowOf(MaxClock)
              /\ counters'[v].count <= Cardinality(CountedOf(hits', v))
              /\ counters'[v].ends <= MaxClock + Window
  <2>1. CASE v = w
    <3>1. w <= RL!WindowOf(MaxClock)
      <4>1. hits[r].at <= MaxClock
        BY <1>2, LimitSettings
      <4>. QED  BY <1>2, <4>1, WindowOrder, LimitSettings
    <3>2. counters'[v] = key
      BY <1>1, <2>1
    <3> HIDE DEF w, others
    <3>. QED  BY <1>3, <1>4, <1>6, <1>7, <2>1, <3>1, <3>2
  <2>2. CASE v # w
    <3>1. v \in DOMAIN counters /\ counters'[v] = counters[v]
      BY <1>1, <2>2
    <3>. QED  BY <1>6, <2>2, <3>1 DEF CountsAreReal
  <2>. QED  BY <2>1, <2>2
<1> HIDE DEF w, others
<1>. QED  BY <1>2, <1>8, <1>9, <1>10 DEF CountsAreReal, RL!WindowOf

LEMMA RealStep ==
    LimitInv /\ CountsAreReal /\ LimitInv' /\ [RL!Next]_(RL!vars) => CountsAreReal'
<1> SUFFICES ASSUME LimitInv, CountsAreReal, LimitInv', [RL!Next]_(RL!vars)
             PROVE  CountsAreReal'
  OBVIOUS
<1>1. CASE RL!Tick
  <2>1. /\ clock < MaxClock /\ clock' = clock + 1 /\ counters' = counters /\ hits' = hits
        /\ clock \in Nat
    BY <1>1 DEF RL!Tick, LimitInv
  <2>2. clock' <= MaxClock
    BY <2>1, LimitSettings
  <2>. QED  BY <2>1, <2>2, NothingCounted
<1>2. ASSUME NEW r \in LimitedRequests, RL!Hit(r)
      PROVE  CountsAreReal'
  <2>1. /\ hits' = [hits EXCEPT ![r].state = "sent", ![r].at = clock]
        /\ hits[r].state = "idle" /\ clock' = clock /\ counters' = counters
    BY <1>2 DEF RL!Hit
  <2>2. hits[r].count = 0
    BY <2>1 DEF LimitInv, SoundHit
  <2>3. \A s \in LimitedRequests :
          /\ hits'[s].count = hits[s].count
          /\ hits[s].count # 0 => hits'[s].at = hits[s].at
    BY <2>1, <2>2 DEF LimitInv, HitRecord
  <2>. QED  BY <2>1, <2>3, NothingCounted DEF CountsAreReal
<1>3. ASSUME NEW r \in LimitedRequests, RL!Answer(r) \/ RL!Unavailable(r)
      PROVE  CountsAreReal'
  <2>1. PICK allowed, degraded : RL!Decide(r, allowed, degraded)
    BY <1>3 DEF RL!Answer, RL!Unavailable
  <2>2. /\ hits' = [hits EXCEPT ![r].state = "decided", ![r].allowed = allowed,
                                ![r].degraded = degraded]
        /\ clock' = clock /\ counters' = counters
    BY <2>1 DEF RL!Decide
  <2>3. \A s \in LimitedRequests :
          hits'[s].count = hits[s].count /\ hits'[s].at = hits[s].at
    BY <2>2 DEF LimitInv, HitRecord
  <2>. QED  BY <2>2, <2>3, NothingCounted DEF CountsAreReal
<1>4. CASE UNCHANGED RL!vars
  BY <1>4, NothingCounted DEF RL!vars, CountsAreReal
<1>. QED  BY <1>1, <1>2, <1>3, <1>4, CountIsReal DEF RL!Next

LEMMA LimitTypes == Spec => []RL!TypeOK
<1>1. Init => LimitInv /\ CountsAreReal
  BY LimitInit, RealAtFirst DEF Init
<1>2. LimitInv /\ CountsAreReal /\ LimitInv' /\ [Next]_vars => CountsAreReal'
  <2>1. [Next]_vars => [RL!Next]_(RL!vars)
    BY DEF Next, vars, Chat, RateLimit, ProviderKeys, SessionLife, Erasure,
           Serving, Migrations, ModelStream, EventParser, EvalGate, Only,
           limitVars, RL!vars
  <2>. QED  BY <2>1, RealStep
<1>3. LimitInv /\ CountsAreReal => RL!TypeOK
  <2> SUFFICES ASSUME LimitInv, CountsAreReal  PROVE RL!TypeOK
    OBVIOUS
  <2>1. \A w : RL!CountedIn(w) = CountedOf(hits, w)
    BY DEF RL!CountedIn, CountedOf
  <2>2. \A w : Cardinality(CountedOf(hits, w)) \in Nat
    BY FS_CardinalityType DEF CountsAreReal
  <2>3. clock \in 0..MaxClock
    BY LimitSettings DEF LimitInv, CountsAreReal
  <2>4. hits \in [LimitedRequests ->
                    [state : {"idle", "sent", "counted", "decided"},
                     at : 0..MaxClock, count : Nat, late : BOOLEAN,
                     allowed : BOOLEAN, degraded : BOOLEAN]]
    <3>1. ASSUME NEW r \in LimitedRequests
          PROVE  hits[r] \in HitRecord /\ hits[r].at \in 0..MaxClock
      <4>1. hits[r] \in HitRecord /\ hits[r].at <= clock
        BY DEF LimitInv, SoundHit
      <4>. QED  BY <2>3, <4>1, LimitSettings DEF HitRecord
    <3>. QED  BY <3>1 DEF LimitInv, HitRecord
  <2>5. ASSUME NEW w \in DOMAIN counters
        PROVE  /\ w \in 0..RL!WindowOf(MaxClock)
               /\ counters[w].count \in 1..Cardinality(CountedOf(hits, w))
               /\ counters[w].ends \in (w * Window + Window)..(MaxClock + Window)
    <3>1. /\ w \in Nat /\ counters[w].count \in Nat \ {0} /\ counters[w].ends \in Nat
          /\ Window * w + Window <= counters[w].ends
          /\ w <= RL!WindowOf(MaxClock)
          /\ counters[w].count <= Cardinality(CountedOf(hits, w))
          /\ counters[w].ends <= MaxClock + Window
      BY DEF LimitInv, CountsAreReal
    <3>2. RL!WindowOf(MaxClock) \in Nat /\ Window * w = w * Window /\ w * Window \in Nat
      BY <3>1, WindowLength, LimitSettings
    <3>. QED  BY <2>2, <3>1, <3>2, LimitSettings
  <2>. QED  BY <2>1, <2>3, <2>4, <2>5, SameCardinality
            DEF RL!TypeOK, CountsAreReal, LimitInv
<1>. QED  BY <1>1, <1>2, <1>3, LimitInvariant, PTL DEF Spec

LEMMA SessionTypes == Spec => []SL!TypeOK
<1>1. LifeInv => SL!TypeOK
  BY DEF LifeInv
<1>. QED  BY <1>1, LifeInvariant, PTL

LEMMA KeysTypes == Spec => []PK!TypeOK
<1>1. KeysInv => PK!TypeOK
  BY DEF KeysInv
<1>. QED  BY <1>1, KeysInvariant, PTL

LEMMA GateTypes == Spec => []EG!TypeOK
<1>1. GateInv => EG!TypeOK
  <2> SUFFICES ASSUME GateInv  PROVE EG!TypeOK
    OBVIOUS
  <2>1. ASSUME NEW n \in EG!Names
        PROVE  tally[n] \in [runs : 0..Repeat, passes : 0..Repeat, gated : BOOLEAN]
    <3>1. /\ tally[n] \in Tally /\ tally[n].passes <= tally[n].runs
          /\ tally[n].runs <= Repeat
      BY DEF GateInv
    <3>. QED  BY <3>1, GateNumbers DEF Tally
  <2>. QED  BY <2>1 DEF GateInv, EG!TypeOK
<1>. QED  BY <1>1, GateInvariant, PTL
=============================================================================
