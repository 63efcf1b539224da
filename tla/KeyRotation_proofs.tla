-------------------------- MODULE KeyRotation_proofs --------------------------
(***************************************************************************)
(* Theorems about KeyRotation, for any number of replicas, verifiers, keys *)
(* and tokens, and any lifetimes.                                          *)
(***************************************************************************)
EXTENDS KeyRotation, TLAPS

Loaded == [up : BOOLEAN, current : 0 .. MaxKeys, previous : SUBSET Keys,
           matches : BOOLEAN, version : Nat]

\* What a verification leaves alone.
keyVars == <<time, env, replica, tokens, made, introduced, left, revoked,
             published>>

(***************************************************************************)
(* Type correctness.                                                       *)
(***************************************************************************)

LEMMA TtlType == ASSUME NEW kind PROVE Ttl(kind) \in Nat
BY KeyAssumption DEF Ttl

LEMMA LoadKeysType ==
  ASSUME TypeOK, LoadKeys.current <= MaxKeys
  PROVE  /\ LoadKeys \in Loaded
         /\ LoadKeys.up <=> LoadKeys.current # 0
         /\ LoadKeys.version <= env.version
         /\ LoadKeys.previous \subseteq env.previous
         /\ LoadKeys.current \in {0, env.current, made + 1}
<1>1. /\ env.current \in 0 .. MaxKeys /\ env.previous \subseteq Keys
      /\ env.version \in Nat /\ made \in 0 .. MaxKeys /\ MaxKeys \in Nat
      /\ env.matches \in BOOLEAN
  BY KeyAssumption DEF TypeOK, Environment
<1>2. CASE env.current = 0 /\ env.production
  BY <1>1, <1>2 DEF LoadKeys, Down, Loaded
<1>3. CASE ~(env.current = 0 /\ env.production) /\ env.current = 0
  BY <1>1, <1>3 DEF LoadKeys, Loaded
<1>4. CASE env.current # 0
  BY <1>1, <1>4 DEF LoadKeys, Loaded
<1>5. QED
  BY <1>2, <1>3, <1>4

LEMMA RunningType ==
  ASSUME TypeOK, NEW r \in Replicas, replica[r].up
  PROVE  /\ replica[r].current \in Keys
         /\ VerificationKeys(replica[r]) \subseteq Keys
<1>1. replica[r] \in Loaded /\ replica[r].current # 0
  BY DEF TypeOK, Loaded
<1>2. replica[r].current \in Keys
  BY <1>1, KeyAssumption DEF Loaded, Keys
<1>3. QED
  BY <1>1, <1>2 DEF Loaded, VerificationKeys

\* How the operator's changes read, field by field.
LEMMA RotateEnv ==
  ASSUME TypeOK, Rotate
  PROVE  /\ env' \in Environment /\ made + 1 \in Keys /\ made' = made + 1
         /\ env'.current = made + 1 /\ env'.version = env.version + 1
         /\ env'.previous = env.previous \cup ({env.current} \ {0})
         /\ env'.production = env.production
<1> DEFINE old == env.previous \cup ({env.current} \ {0})
           e1  == [env EXCEPT !.current = made + 1]
           e2  == [e1 EXCEPT !.previous = old]
           e3  == [e2 EXCEPT !.matches = TRUE]
<1>1. env \in Environment /\ made + 1 \in Keys /\ made' = made + 1
  BY KeyAssumption DEF Rotate, TypeOK, Keys
<1>2. old \in SUBSET Keys
  <2>1. env.previous \in SUBSET Keys /\ env.current \in 0 .. MaxKeys
    BY <1>1 DEF Environment
  <2>2. {env.current} \ {0} \subseteq Keys
    BY <2>1, KeyAssumption DEF Keys
  <2>3. QED
    BY <2>1, <2>2
<1>3. env' = [e3 EXCEPT !.version = env.version + 1]
  BY DEF Rotate
<1> HIDE DEF old
<1>4. /\ e1 \in Environment /\ e1.current = made + 1 /\ e1.version = env.version
      /\ e1.production = env.production
  BY <1>1, KeyAssumption DEF Environment, Keys
<1> HIDE DEF e1
<1>5. /\ e2 \in Environment /\ e2.current = made + 1 /\ e2.previous = old
      /\ e2.version = env.version /\ e2.production = env.production
  BY <1>2, <1>4 DEF Environment
<1> HIDE DEF e2
<1>6. /\ e3 \in Environment /\ e3.current = made + 1 /\ e3.previous = old
      /\ e3.version = env.version /\ e3.production = env.production
  BY <1>5 DEF Environment
<1> HIDE DEF e3
<1>7. QED
  BY <1>1, <1>3, <1>6 DEF Environment, old

LEMMA HalfEnv ==
  ASSUME TypeOK, RotateHalf
  PROVE  /\ env' \in Environment /\ made + 1 \in Keys /\ made' = made + 1
         /\ env'.current = env.current /\ env'.previous = env.previous
         /\ env'.version = env.version /\ env'.production = env.production
<1>1. env \in Environment /\ env' = [env EXCEPT !.matches = FALSE]
  BY DEF TypeOK, RotateHalf
<1>2. /\ env' \in Environment /\ env'.current = env.current
      /\ env'.previous = env.previous /\ env'.version = env.version
      /\ env'.production = env.production
  BY <1>1 DEF Environment
<1>3. made + 1 \in Keys /\ made' = made + 1
  BY KeyAssumption DEF RotateHalf, TypeOK, Keys
<1>4. QED
  BY <1>2, <1>3

LEMMA WithoutEnv ==
  ASSUME TypeOK, NEW k \in Keys, Without(k)
  PROVE  /\ env' \in Environment /\ env'.current = env.current
         /\ env'.previous = env.previous \ {k} /\ env'.version = env.version
         /\ env'.production = env.production
<1> DEFINE old == env.previous \ {k}
<1>1. env \in Environment /\ old \in SUBSET Keys
  BY DEF TypeOK, Environment
<1>2. env' = [env EXCEPT !.previous = old]
  BY DEF Without
<1> HIDE DEF old
<1>3. QED
  BY <1>1, <1>2 DEF Environment, old

LEMMA OperatorType ==
  ASSUME TypeOK, Rotate \/ RotateHalf \/ \E k \in Keys : Retire(k) \/ Revoke(k)
  PROVE  TypeOK'
<1>1. CASE Rotate
  <2>1. env' \in Environment /\ made + 1 \in Keys /\ made' = made + 1
    BY <1>1, RotateEnv
  <2>2. introduced' \in [Keys -> Nat]
    BY <1>1, <2>1 DEF Rotate, TypeOK, Environment
  <2>3. QED
    BY <1>1, <2>1, <2>2 DEF Rotate, TypeOK, Keys
<1>2. ASSUME NEW k \in Keys, Retire(k) \/ Revoke(k)
      PROVE  TypeOK'
  <2>1. env' \in Environment
    BY <1>2, WithoutEnv DEF Retire, Revoke
  <2>2. QED
    BY <1>2, <2>1 DEF Retire, Revoke, TypeOK
<1>3. CASE RotateHalf
  <2>1. env' \in Environment /\ made' \in 0 .. MaxKeys
    BY <1>3, HalfEnv DEF Keys
  <2>2. UNCHANGED <<time, replica, tokens, cache, introduced, left, revoked, published>>
    BY <1>3 DEF RotateHalf
  <2>3. QED
    BY <2>1, <2>2 DEF TypeOK
<1>4. QED
  BY <1>1, <1>2, <1>3

LEMMA StartType ==
  ASSUME TypeOK, NEW r \in Replicas, Start(r)
  PROVE  TypeOK'
<1> DEFINE new == LoadKeys
<1>1. new \in Loaded /\ (new.up <=> new.current # 0)
  BY LoadKeysType DEF Start
<1>2. /\ replica' = [replica EXCEPT ![r] = new]
      /\ made' = IF new.current > made THEN new.current ELSE made
      /\ left' = [k \in Keys |-> IF k = replica[r].current /\ k # new.current
                                 THEN time ELSE left[k]]
      /\ published' = [k \in Keys |-> IF k \in {new.current} \cup new.previous
                                      THEN time ELSE published[k]]
      /\ UNCHANGED <<time, env, tokens, cache, introduced, revoked>>
  BY DEF Start
<1> HIDE DEF new
<1>3. /\ replica' \in [Replicas -> Loaded]
      /\ \A q \in Replicas : replica'[q].up <=> replica'[q].current # 0
  BY <1>1, <1>2 DEF TypeOK, Loaded
<1>4. made' \in 0 .. MaxKeys
  BY <1>1, <1>2 DEF TypeOK, Loaded
<1>5. left' \in [Keys -> Nat] /\ published' \in [Keys -> Nat]
  BY <1>2 DEF TypeOK
<1>6. QED
  BY <1>2, <1>3, <1>4, <1>5 DEF TypeOK, Loaded

LEMMA SignType ==
  ASSUME TypeOK, NEW r \in Replicas, NEW kind \in Kinds, Sign(r, kind)
  PROVE  TypeOK'
<1>1. /\ replica[r].current \in Keys /\ replica[r].matches \in BOOLEAN
      /\ time + Ttl(kind) \in Nat
  BY RunningType, TtlType DEF Sign, TypeOK
<1>2. tokens' \subseteq Token
  BY <1>1 DEF Sign, Token, TypeOK
<1>3. QED
  BY <1>2 DEF Sign, TypeOK

\* A verification changes nothing but the verifier's key set.
LEMMA VerifyFrame ==
  ASSUME NEW token \in tokens,
         \/ \E r \in Replicas, kind \in Kinds : VerifyAtReplica(r, kind, token)
         \/ \E v \in Verifiers : VerifyCached(v, token)
         \/ \E v \in Verifiers, r, again \in Replicas :
              VerifyFetched(v, token, r, again)
  PROVE  /\ UNCHANGED keyVars
         /\ \/ cache' = cache
            \/ \E v \in Verifiers, r \in Replicas :
                 /\ replica[r].up
                 /\ cache' = [cache EXCEPT ![v] =
                                [keys |-> VerificationKeys(replica[r]), at |-> time]]
<1>1. ASSUME NEW r \in Replicas, NEW kind \in Kinds, VerifyAtReplica(r, kind, token)
      PROVE  UNCHANGED <<keyVars, cache>>
  BY <1>1 DEF VerifyAtReplica, keyVars
<1>2. ASSUME NEW v \in Verifiers, VerifyCached(v, token)
      PROVE  UNCHANGED <<keyVars, cache>>
  BY <1>2 DEF VerifyCached, keyVars
<1>3. ASSUME NEW v \in Verifiers, NEW r \in Replicas, NEW again \in Replicas,
             VerifyFetched(v, token, r, again)
      PROVE  /\ UNCHANGED keyVars
             /\ \E q \in Replicas :
                  /\ replica[q].up
                  /\ cache' = [cache EXCEPT ![v] =
                                 [keys |-> VerificationKeys(replica[q]), at |-> time]]
  BY <1>3 DEF VerifyFetched, keyVars, GetJwks
<1>4. QED
  BY <1>1, <1>2, <1>3

LEMMA TickType ==
  ASSUME TypeOK, Tick
  PROVE  TypeOK'
BY DEF TypeOK, Tick

\* The environment, the replicas, the tokens and the key sets keep their
\* types, and a replica that runs has a key to sign with (crypto.py, _load).
THEOREM TypeCorrect == Spec => []TypeOK
<1>1. Init => TypeOK
  <2> SUFFICES ASSUME Init
               PROVE  TypeOK
    OBVIOUS
  <2>1. env \in Environment
    <3>1. 0 \in 0 .. MaxKeys /\ {} \in SUBSET Keys /\ 0 \in Nat
      BY KeyAssumption
    <3>2. QED
      BY <3>1 DEF Init, Environment
  <2>2. Down \in Loaded /\ ~Down.up /\ Down.current = 0
    BY KeyAssumption DEF Down, Loaded, Keys
  <2>3. QED
    BY <2>1, <2>2, KeyAssumption DEF Init, TypeOK, Loaded, Keys
<1>2. TypeOK /\ [Next]_vars => TypeOK'
  <2> SUFFICES ASSUME TypeOK, [Next]_vars
               PROVE  TypeOK'
    OBVIOUS
  <2>1. ASSUME NEW token \in tokens,
               \/ \E r \in Replicas, kind \in Kinds : VerifyAtReplica(r, kind, token)
               \/ \E v \in Verifiers : VerifyCached(v, token)
               \/ \E v \in Verifiers, r, again \in Replicas :
                    VerifyFetched(v, token, r, again)
        PROVE  TypeOK'
    <3>1. cache' \in [Verifiers -> [keys : SUBSET Keys, at : Nat]]
      <4>1. cache \in [Verifiers -> [keys : SUBSET Keys, at : Nat]] /\ time \in Nat
        BY DEF TypeOK
      <4>2. \A r \in Replicas : replica[r].up =>
              [keys |-> VerificationKeys(replica[r]), at |-> time]
                \in [keys : SUBSET Keys, at : Nat]
        BY <4>1, RunningType
      <4>3. QED
        BY <2>1, <4>1, <4>2, VerifyFrame
    <3>2. QED
      BY <2>1, <3>1, VerifyFrame DEF TypeOK, keyVars
  <2>2. CASE UNCHANGED vars
    BY <2>2 DEF TypeOK, vars
  <2>3. QED
    BY <2>1, <2>2, OperatorType, StartType, SignType, TickType DEF Next
<1>3. QED
  BY <1>1, <1>2, PTL DEF Spec

(***************************************************************************)
(* Verifications.  WithdrawnKeyDies rests on when a key was last           *)
(* published: a key in a cached set was published when the set was         *)
(* fetched, or later.                                                      *)
(***************************************************************************)

PublishedNow ==
  \A r \in Replicas, k \in Keys :
    k \in VerificationKeys(replica[r]) => published[k] = time

PublishedPast == \A k \in Keys : published[k] <= time

CachedPublished ==
  \A v \in Verifiers : \A k \in cache[v].keys : cache[v].at <= published[k]

PublishInv == PublishedNow /\ PublishedPast /\ CachedPublished

\* A step that records no verification leaves NoCheck behind.
LEMMA NoVerification ==
  ASSUME \/ Rotate \/ RotateHalf \/ Tick \/ \E k \in Keys : Retire(k) \/ Revoke(k)
         \/ \E r \in Replicas : Start(r) \/ \E kind \in Kinds : Sign(r, kind)
  PROVE  last'.outcome = "none"
BY DEF Rotate, RotateHalf, Tick, Retire, Revoke, Start, Sign, NoCheck

\* What the recorded outcome says about the keys that were looked at.
LEMMA OutcomeMeans ==
  ASSUME NEW token, NEW kind, NEW keys
  PROVE  /\ Outcome(token, kind, keys) = "unknown_key" => token.kid \notin keys
         /\ Outcome(token, kind, keys) = "accepted" => token.kid \in keys
<1>1. CASE token.kind # kind
  BY <1>1 DEF Outcome
<1>2. CASE token.kind = kind /\ token.kid \notin keys
  BY <1>2 DEF Outcome
<1>3. CASE token.kind = kind /\ token.kid \in keys
  BY <1>3 DEF Outcome
<1>4. QED
  BY <1>1, <1>2, <1>3

\* Publication dates only move forward, and never past the clock.
LEMMA PublishFrame ==
  ASSUME TypeOK, TypeOK', PublishInv, UNCHANGED <<time, replica, published>>
  PROVE  /\ PublishedNow' /\ PublishedPast'
         /\ cache' = cache => CachedPublished'
BY DEF PublishInv, PublishedNow, PublishedPast, CachedPublished, VerificationKeys

LEMMA PublishStart ==
  ASSUME TypeOK, TypeOK', PublishInv, NEW r \in Replicas, Start(r)
  PROVE  PublishInv'
<1> DEFINE new == LoadKeys
<1>1. /\ \A k \in Keys : published'[k] = IF k \in {new.current} \cup new.previous
                                         THEN time ELSE published[k]
      /\ replica'[r] = new /\ \A q \in Replicas \ {r} : replica'[q] = replica[q]
      /\ UNCHANGED <<time, cache>>
  BY DEF Start, TypeOK
<1> HIDE DEF new
<1>2. \A k \in Keys : published[k] \in Nat /\ published[k] <= time /\ time \in Nat
  BY DEF PublishInv, PublishedPast, TypeOK
<1>3. \A k \in Keys : published[k] <= published'[k] /\ published'[k] <= time
  BY <1>1, <1>2
<1>4. PublishedNow'
  BY <1>1 DEF PublishInv, PublishedNow, VerificationKeys
<1>5. PublishedPast'
  BY <1>1, <1>3 DEF PublishedPast
<1>6. CachedPublished'
  <2> SUFFICES ASSUME NEW v \in Verifiers, NEW k \in cache[v].keys
               PROVE  cache[v].at <= published'[k]
    BY <1>1 DEF CachedPublished
  <2>1. k \in Keys /\ cache[v].at \in Nat /\ published'[k] \in Nat
    BY DEF TypeOK
  <2>2. cache[v].at <= published[k]
    BY DEF PublishInv, CachedPublished
  <2>3. QED
    BY <1>2, <1>3, <2>1, <2>2
<1>7. QED
  BY <1>4, <1>5, <1>6 DEF PublishInv

LEMMA PublishTick ==
  ASSUME TypeOK, TypeOK', PublishInv, Tick
  PROVE  PublishInv'
<1>1. /\ time' = time + 1 /\ UNCHANGED <<replica, cache>>
      /\ \A k \in Keys : published'[k] =
           IF \E r \in Replicas : k \in {replica[r].current} \cup replica[r].previous
           THEN time + 1 ELSE published[k]
  BY DEF Tick
<1>2. \A k \in Keys : published[k] \in Nat /\ published[k] <= time /\ time \in Nat
  BY DEF PublishInv, PublishedPast, TypeOK
<1>3. \A k \in Keys : published[k] <= published'[k] /\ published'[k] <= time + 1
  BY <1>1, <1>2
<1>4. PublishedNow'
  BY <1>1 DEF PublishedNow, VerificationKeys
<1>5. PublishedPast'
  BY <1>1, <1>3 DEF PublishedPast
<1>6. CachedPublished'
  <2> SUFFICES ASSUME NEW v \in Verifiers, NEW k \in cache[v].keys
               PROVE  cache[v].at <= published'[k]
    BY <1>1 DEF CachedPublished
  <2>1. k \in Keys /\ cache[v].at \in Nat /\ published'[k] \in Nat
    BY DEF TypeOK
  <2>2. cache[v].at <= published[k]
    BY DEF PublishInv, CachedPublished
  <2>3. QED
    BY <1>2, <1>3, <2>1, <2>2
<1>7. QED
  BY <1>4, <1>5, <1>6 DEF PublishInv

LEMMA PublishVerify ==
  ASSUME TypeOK, TypeOK', PublishInv, NEW token \in tokens,
         \/ \E r \in Replicas, kind \in Kinds : VerifyAtReplica(r, kind, token)
         \/ \E v \in Verifiers : VerifyCached(v, token)
         \/ \E v \in Verifiers, r, again \in Replicas :
              VerifyFetched(v, token, r, again)
  PROVE  PublishInv'
<1>1. UNCHANGED <<time, replica, published>>
  BY VerifyFrame DEF keyVars
<1>2. CASE cache' = cache
  BY <1>1, <1>2, PublishFrame DEF PublishInv
<1>3. ASSUME NEW v \in Verifiers, NEW r \in Replicas, replica[r].up,
             cache' = [cache EXCEPT ![v] =
                         [keys |-> VerificationKeys(replica[r]), at |-> time]]
      PROVE  PublishInv'
  <2>1. \A k \in VerificationKeys(replica[r]) : published[k] = time
    BY <1>3, RunningType DEF PublishInv, PublishedNow
  <2>2. time \in Nat
    BY DEF TypeOK
  <2>3. /\ cache'[v].keys = VerificationKeys(replica[r]) /\ cache'[v].at = time
        /\ \A u \in Verifiers \ {v} : cache'[u] = cache[u]
    BY <1>3 DEF TypeOK
  <2>4. CachedPublished'
    BY <1>1, <2>1, <2>2, <2>3 DEF PublishInv, CachedPublished
  <2>5. QED
    BY <1>1, <2>4, PublishFrame DEF PublishInv
<1>4. QED
  BY <1>2, <1>3, VerifyFrame

LEMMA PublishInvariant == Spec => []PublishInv
<1>1. Init => PublishInv
  BY DEF Init, PublishInv, PublishedNow, PublishedPast, CachedPublished,
         VerificationKeys, Down, Keys
<1>2. TypeOK /\ TypeOK' /\ PublishInv /\ [Next]_vars => PublishInv'
  <2> SUFFICES ASSUME TypeOK, TypeOK', PublishInv, [Next]_vars
               PROVE  PublishInv'
    OBVIOUS
  <2>1. ASSUME \/ Rotate \/ RotateHalf
               \/ \E k \in Keys : Retire(k) \/ Revoke(k)
               \/ \E r \in Replicas, kind \in Kinds : Sign(r, kind)
        PROVE  PublishInv'
    BY <2>1, PublishFrame DEF Rotate, RotateHalf, Retire, Revoke, Sign, PublishInv
  <2>2. CASE UNCHANGED vars
    BY <2>2, PublishFrame DEF vars, PublishInv
  <2>3. QED
    BY <2>1, <2>2, PublishStart, PublishTick, PublishVerify DEF Next
<1>3. QED
  BY <1>1, <1>2, TypeCorrect, PTL DEF Spec

\* A key that no replica publishes any more is accepted nowhere once the key
\* sets that were fetched before are too old.
THEOREM WithdrawnKey == Spec => []WithdrawnKeyDies
<1>1. Init => WithdrawnKeyDies
  BY DEF Init, WithdrawnKeyDies, NoCheck
<1>2. TypeOK /\ PublishInv /\ WithdrawnKeyDies /\ [Next]_vars => WithdrawnKeyDies'
  <2> DEFINE Fine == \/ published'[last'.token.kid] = time'
                     \/ time' < published'[last'.token.kid] + CacheTime
  <2> SUFFICES ASSUME TypeOK, PublishInv, WithdrawnKeyDies, [Next]_vars,
                      last'.outcome = "accepted"
               PROVE  Fine
    BY DEF WithdrawnKeyDies
  <2>1. ASSUME NEW r \in Replicas, replica[r].up,
               last'.token.kid \in VerificationKeys(replica[r]),
               UNCHANGED <<time, published>>
        PROVE  Fine
    BY <2>1, RunningType DEF PublishInv, PublishedNow
  <2>2. ASSUME NEW token \in tokens, NEW r \in Replicas, NEW kind \in Kinds,
               VerifyAtReplica(r, kind, token)
        PROVE  Fine
    <3>1. /\ last'.token = token /\ replica[r].up /\ UNCHANGED <<time, published>>
          /\ last'.outcome = Outcome(token, kind, VerificationKeys(replica[r]))
      BY <2>2 DEF VerifyAtReplica
    <3>2. token.kid \in VerificationKeys(replica[r])
      BY <3>1, OutcomeMeans
    <3>3. QED
      BY <2>1, <3>1, <3>2
  <2>3. ASSUME NEW token \in tokens, NEW v \in Verifiers, VerifyCached(v, token)
        PROVE  Fine
    <3>1. /\ last'.token = token /\ UNCHANGED <<time, published>>
          /\ token.kid \in cache[v].keys /\ time < cache[v].at + CacheTime
      BY <2>3 DEF VerifyCached, Fresh
    <3>2. /\ cache[v].at \in Nat /\ token.kid \in Keys /\ time \in Nat
          /\ published[token.kid] \in Nat /\ CacheTime \in Nat
      BY <3>1, KeyAssumption DEF TypeOK
    <3>3. cache[v].at <= published[token.kid]
      BY <3>1 DEF PublishInv, CachedPublished
    <3>4. QED
      BY <3>1, <3>2, <3>3
  <2>4. ASSUME NEW token \in tokens, NEW v \in Verifiers, NEW r \in Replicas,
               NEW again \in Replicas, VerifyFetched(v, token, r, again)
        PROVE  Fine
    <3> DEFINE from == IF token.kid \in GetJwks(replica[r]) THEN r ELSE again
    <3>1. /\ last'.token = token /\ UNCHANGED <<time, published>>
          /\ last'.outcome = Outcome(token, "passport", GetJwks(replica[from]))
          /\ from \in Replicas /\ replica[from].up
      BY <2>4 DEF VerifyFetched
    <3> HIDE DEF from
    <3>2. token.kid \in VerificationKeys(replica[from])
      BY <3>1, OutcomeMeans DEF GetJwks
    <3>3. QED
      BY <2>1, <3>1, <3>2
  <2>5. CASE UNCHANGED vars
    BY <2>5 DEF vars, WithdrawnKeyDies
  <2>6. QED
    BY <2>2, <2>3, <2>4, <2>5, NoVerification DEF Next
<1>3. QED
  BY <1>1, <1>2, TypeCorrect, PublishInvariant, PTL DEF Spec

(***************************************************************************)
(* Rotation.  LiveTokenKnown speaks of a replica and a token; what keeps   *)
(* it is a fact about the environment: a key that left it without being    *)
(* revoked is dead, no replica signs with it and its tokens have expired   *)
(* (DroppedIsDead).  It holds because Retire waits from the time the last  *)
(* replica stopped signing with the key, and a token expires within its    *)
(* lifetime from then (TokenLife).  A replica that started after a key was *)
(* introduced knows it while it is in the environment (RolledKnows).       *)
(***************************************************************************)

EnvKeys == {env.current} \cup env.previous

Signs(k) == \E r \in Replicas : replica[r].current = k

IntroducedMade == \A k \in Keys : introduced[k] # 0 => k <= made

VersionBound == \A r \in Replicas : replica[r].version <= env.version

ProductionKeys ==
  env.production =>
    /\ env.current # 0 => introduced[env.current] # 0
    /\ \A r \in Replicas : replica[r].up => introduced[replica[r].current] # 0
    /\ \A token \in tokens : introduced[token.kid] # 0

TokenLife ==
  \A token \in tokens :
    /\ token.exp <= time + Ttl(token.kind)
    /\ Signs(token.kid) \/ token.exp <= left[token.kid] + Ttl(token.kind)

Dead(k) ==
  /\ ~Signs(k)
  /\ \A token \in tokens :
       token.kid = k /\ Ttl(token.kind) <= RetireAfter => token.exp <= time

DroppedIsDead ==
  \A k \in Keys :
    introduced[k] # 0 /\ k \notin EnvKeys /\ k \notin revoked => Dead(k)

RolledKnows ==
  \A r \in Replicas, k \in Keys :
    replica[r].up /\ Rolled(r, k) /\ k \in EnvKeys
      => k \in VerificationKeys(replica[r])

KeyInv ==
  /\ IntroducedMade /\ VersionBound /\ ProductionKeys /\ TokenLife
  /\ DroppedIsDead /\ RolledKnows

LEMMA TokenType ==
  ASSUME TypeOK, NEW token \in tokens
  PROVE  /\ token.kid \in Keys /\ token.exp \in Nat /\ left[token.kid] \in Nat
         /\ Ttl(token.kind) \in Nat
BY TtlType DEF TypeOK, Token

LEMMA KeyFrame ==
  ASSUME KeyInv, UNCHANGED keyVars
  PROVE  KeyInv'
BY DEF KeyInv, keyVars, IntroducedMade, VersionBound, ProductionKeys, TokenLife,
       Signs, DroppedIsDead, Dead, EnvKeys, RolledKnows, Rolled, VerificationKeys

LEMMA KeyRotate ==
  ASSUME TypeOK, KeyInv, Rotate
  PROVE  KeyInv'
<1>1. /\ made + 1 \in Keys /\ made' = made + 1 /\ made \in Nat
      /\ env'.current = made + 1 /\ env'.version = env.version + 1
      /\ env'.previous = env.previous \cup ({env.current} \ {0})
      /\ env'.production = env.production /\ env.version \in Nat
  BY RotateEnv, KeyAssumption DEF TypeOK, Environment
<1>2. /\ introduced'[made + 1] = env.version + 1
      /\ \A k \in Keys \ {made + 1} : introduced'[k] = introduced[k]
      /\ UNCHANGED <<time, replica, tokens, left, revoked>>
  BY <1>1 DEF Rotate, TypeOK
<1>3. \A k \in Keys : k \in EnvKeys' <=> k \in EnvKeys \/ k = made + 1
  BY <1>1 DEF EnvKeys, Keys
<1>4. introduced[made + 1] = 0
  BY <1>1 DEF KeyInv, IntroducedMade
<1>5. IntroducedMade'
  BY <1>1, <1>2 DEF KeyInv, IntroducedMade, Keys
<1>6. \A r \in Replicas : replica[r].version \in Nat /\ replica[r].version <= env.version
  BY DEF KeyInv, VersionBound, TypeOK
<1>7. VersionBound'
  BY <1>1, <1>2, <1>6 DEF VersionBound
<1>8. ProductionKeys'
  <2> SUFFICES ASSUME env.production
               PROVE  /\ introduced'[made + 1] # 0
                      /\ \A r \in Replicas :
                           replica[r].up => introduced'[replica[r].current] # 0
                      /\ \A token \in tokens : introduced'[token.kid] # 0
    BY <1>1, <1>2 DEF ProductionKeys
  <2>1. \A k \in Keys : introduced[k] # 0 => introduced'[k] # 0
    BY <1>2, <1>4
  <2>2. QED
    BY <1>1, <1>2, <2>1, RunningType, TokenType DEF KeyInv, ProductionKeys
<1>9. TokenLife'
  BY <1>2 DEF KeyInv, TokenLife, Signs
<1>10. DroppedIsDead'
  BY <1>2, <1>3 DEF KeyInv, DroppedIsDead, Dead, Signs
<1>11. RolledKnows'
  <2> SUFFICES ASSUME NEW r \in Replicas, NEW k \in Keys, replica[r].up,
                      Rolled(r, k)', k \in EnvKeys'
               PROVE  k \in VerificationKeys(replica[r])
    BY <1>2 DEF RolledKnows, VerificationKeys
  <2>1. k # made + 1
    BY <1>1, <1>2, <1>6 DEF Rolled
  <2>2. Rolled(r, k) /\ k \in EnvKeys
    BY <1>2, <1>3, <2>1 DEF Rolled
  <2>3. QED
    BY <2>2 DEF KeyInv, RolledKnows
<1>12. QED
  BY <1>5, <1>7, <1>8, <1>9, <1>10, <1>11 DEF KeyInv

LEMMA KeyHalf ==
  ASSUME TypeOK, KeyInv, RotateHalf
  PROVE  KeyInv'
<1>1. /\ made' = made + 1 /\ made \in Nat
      /\ env'.current = env.current /\ env'.version = env.version
      /\ env'.previous = env.previous /\ env'.production = env.production
      /\ UNCHANGED <<time, replica, tokens, introduced, left, revoked>>
  BY HalfEnv, KeyAssumption DEF TypeOK, RotateHalf
<1>2. IntroducedMade'
  BY <1>1 DEF KeyInv, IntroducedMade, Keys
<1>3. VersionBound' /\ TokenLife' /\ ProductionKeys'
  BY <1>1 DEF KeyInv, VersionBound, TokenLife, Signs, ProductionKeys
<1>4. DroppedIsDead' /\ RolledKnows'
  BY <1>1 DEF KeyInv, DroppedIsDead, Dead, Signs, EnvKeys, RolledKnows, Rolled,
              VerificationKeys
<1>5. QED
  BY <1>2, <1>3, <1>4 DEF KeyInv

\* A key leaves the environment: revoked, or dead by then.
LEMMA KeyWithout ==
  ASSUME TypeOK, KeyInv, NEW k \in Keys, Retire(k) \/ Revoke(k)
  PROVE  KeyInv'
<1>1. /\ env'.current = env.current /\ env'.previous = env.previous \ {k}
      /\ env'.version = env.version /\ env'.production = env.production
      /\ env.version \in Nat
  BY WithoutEnv DEF Retire, Revoke, TypeOK, Environment
<1>2. UNCHANGED <<time, replica, tokens, made, introduced, left>>
      /\ revoked \subseteq revoked'
  BY DEF Retire, Revoke
<1>3. EnvKeys' \subseteq EnvKeys /\ \A j \in EnvKeys \ {k} : j \in EnvKeys'
  BY <1>1 DEF EnvKeys
<1>4. IntroducedMade' /\ TokenLife'
  BY <1>2 DEF KeyInv, IntroducedMade, TokenLife, Signs
<1>5. VersionBound'
  BY <1>1, <1>2 DEF KeyInv, VersionBound, TypeOK
<1>6. ProductionKeys'
  BY <1>1, <1>2 DEF KeyInv, ProductionKeys
<1>7. RolledKnows'
  BY <1>2, <1>3 DEF KeyInv, RolledKnows, Rolled, VerificationKeys
<1>8. k \notin revoked' => Dead(k)
  <2> SUFFICES ASSUME k \notin revoked'
               PROVE  Dead(k)
    OBVIOUS
  <2>1. /\ \A r \in Replicas : replica[r].current # k
        /\ time >= left[k] + RetireAfter
    BY DEF Retire, Revoke
  <2>2. ASSUME NEW token \in tokens, token.kid = k, Ttl(token.kind) <= RetireAfter
        PROVE  token.exp <= time
    <3>1. token.exp <= left[k] + Ttl(token.kind)
      BY <2>1, <2>2 DEF KeyInv, TokenLife, Signs
    <3>2. /\ token.exp \in Nat /\ left[k] \in Nat /\ Ttl(token.kind) \in Nat
          /\ RetireAfter \in Nat /\ time \in Nat
      BY <2>2, TokenType, KeyAssumption DEF TypeOK
    <3>3. QED
      BY <2>1, <2>2, <3>1, <3>2
  <2>3. QED
    BY <2>1, <2>2 DEF Dead, Signs
<1>9. DroppedIsDead'
  <2> SUFFICES ASSUME NEW j \in Keys, introduced[j] # 0, j \notin EnvKeys',
                      j \notin revoked'
               PROVE  Dead(j)
    BY <1>2 DEF DroppedIsDead, Dead, Signs
  <2>1. CASE j = k
    BY <1>8, <2>1
  <2>2. CASE j # k
    BY <1>2, <1>3, <2>2 DEF KeyInv, DroppedIsDead
  <2>3. QED
    BY <2>1, <2>2
<1>10. QED
  BY <1>4, <1>5, <1>6, <1>7, <1>9 DEF KeyInv

LEMMA KeyStart ==
  ASSUME TypeOK, KeyInv, NEW r \in Replicas, Start(r)
  PROVE  KeyInv'
<1> DEFINE new == LoadKeys
<1>1. /\ new \in Loaded /\ (new.up <=> new.current # 0)
      /\ new.version <= env.version
      /\ new.current \in {0, env.current, made + 1}
  BY LoadKeysType DEF Start
<1>2. /\ replica'[r] = new /\ \A q \in Replicas \ {r} : replica'[q] = replica[q]
      /\ made' = IF new.current > made THEN new.current ELSE made
      /\ \A k \in Keys : left'[k] = IF k = replica[r].current /\ k # new.current
                                    THEN time ELSE left[k]
      /\ UNCHANGED <<time, env, tokens, introduced, revoked>>
  BY DEF Start, TypeOK
\* A running replica has loaded every key of the environment, and in
\* production it signs with a key of the environment.
<1>3. /\ new.up => EnvKeys \ {0} \subseteq {new.current} \cup new.previous
      /\ env.production /\ new.up => new.current = env.current
      /\ new.current = made + 1 \/ new.current = 0 \/ new.current = env.current
  BY DEF LoadKeys, Down, EnvKeys
<1> HIDE DEF new
<1>4. made \in Nat /\ made' \in Nat /\ made <= made'
  BY <1>1, <1>2, KeyAssumption DEF TypeOK, Loaded
<1>5. IntroducedMade'
  BY <1>2, <1>4 DEF KeyInv, IntroducedMade, Keys
<1>6. VersionBound'
  BY <1>1, <1>2 DEF KeyInv, VersionBound
<1>7. ProductionKeys'
  BY <1>1, <1>2, <1>3 DEF KeyInv, ProductionKeys
\* A key that nobody signed with, and that has left, is not signed with now.
<1>8. ASSUME NEW k \in Keys, introduced[k] # 0, k \notin EnvKeys
      PROVE  k # new.current
  BY <1>3, <1>4, <1>8 DEF KeyInv, IntroducedMade, EnvKeys, Keys
<1>9. DroppedIsDead'
  <2> SUFFICES ASSUME NEW k \in Keys, introduced[k] # 0, k \notin EnvKeys,
                      k \notin revoked
               PROVE  Dead(k)'
    BY <1>2 DEF DroppedIsDead, EnvKeys
  <2>1. Dead(k) /\ k # new.current
    BY <1>8 DEF KeyInv, DroppedIsDead
  <2>2. QED
    BY <1>2, <2>1 DEF Dead, Signs
<1>10. TokenLife'
  <2> SUFFICES ASSUME NEW token \in tokens
               PROVE  /\ token.exp <= time + Ttl(token.kind)
                      /\ \/ Signs(token.kid)'
                         \/ token.exp <= left'[token.kid] + Ttl(token.kind)
    BY <1>2 DEF TokenLife, Signs
  <2>1. token.exp <= time + Ttl(token.kind) /\ token.kid \in Keys
    BY TokenType DEF KeyInv, TokenLife
  <2>2. CASE token.kid = new.current
    BY <1>2, <2>1, <2>2 DEF Signs
  <2>3. CASE token.kid # new.current /\ token.kid = replica[r].current
    BY <1>2, <2>1, <2>3
  <2>4. CASE token.kid # new.current /\ token.kid # replica[r].current
    <3>1. left'[token.kid] = left[token.kid]
      BY <1>2, <2>1, <2>4
    <3>2. Signs(token.kid) => Signs(token.kid)'
      BY <1>2, <2>4 DEF Signs
    <3>3. QED
      BY <2>1, <3>1, <3>2 DEF KeyInv, TokenLife
  <2>5. QED
    BY <2>2, <2>3, <2>4
<1>11. RolledKnows'
  <2> SUFFICES ASSUME NEW q \in Replicas, NEW k \in Keys, replica'[q].up,
                      Rolled(q, k)', k \in EnvKeys
               PROVE  k \in VerificationKeys(replica'[q])
    BY <1>2 DEF RolledKnows, EnvKeys, VerificationKeys
  <2>1. CASE q = r
    BY <1>2, <1>3, <2>1 DEF VerificationKeys, Keys
  <2>2. CASE q # r
    BY <1>2, <2>2 DEF KeyInv, RolledKnows, Rolled
  <2>3. QED
    BY <2>1, <2>2
<1>12. QED
  BY <1>5, <1>6, <1>7, <1>9, <1>10, <1>11 DEF KeyInv

LEMMA KeySign ==
  ASSUME TypeOK, KeyInv, NEW r \in Replicas, NEW kind \in Kinds, Sign(r, kind)
  PROVE  KeyInv'
<1> DEFINE new == [kid |-> replica[r].current, kind |-> kind,
                   sound |-> replica[r].matches, exp |-> time + Ttl(kind)]
<1>1. /\ replica[r].up /\ tokens' = tokens \cup {new}
      /\ UNCHANGED <<time, env, replica, made, introduced, left, revoked>>
  BY DEF Sign
<1>2. /\ new.kid = replica[r].current /\ new.kind = kind
      /\ new.exp = time + Ttl(kind)
  OBVIOUS
<1> HIDE DEF new
<1>3. time + Ttl(kind) \in Nat
  BY TtlType DEF TypeOK
<1>4. IntroducedMade' /\ VersionBound' /\ RolledKnows'
  BY <1>1 DEF KeyInv, IntroducedMade, VersionBound, RolledKnows, Rolled, EnvKeys,
              VerificationKeys
<1>5. ProductionKeys'
  BY <1>1, <1>2 DEF KeyInv, ProductionKeys
<1>6. TokenLife'
  BY <1>1, <1>2, <1>3 DEF KeyInv, TokenLife, Signs
<1>7. DroppedIsDead'
  BY <1>1, <1>2 DEF KeyInv, DroppedIsDead, Dead, Signs, EnvKeys
<1>8. QED
  BY <1>4, <1>5, <1>6, <1>7 DEF KeyInv

LEMMA KeyTick ==
  ASSUME TypeOK, KeyInv, Tick
  PROVE  KeyInv'
<1>1. /\ time' = time + 1 /\ time \in Nat
      /\ UNCHANGED <<env, replica, tokens, made, introduced, left, revoked>>
  BY DEF Tick, TypeOK
<1>2. IntroducedMade' /\ VersionBound' /\ RolledKnows' /\ ProductionKeys'
  BY <1>1 DEF KeyInv, IntroducedMade, VersionBound, RolledKnows, Rolled, EnvKeys,
              VerificationKeys, ProductionKeys
<1>3. ASSUME NEW token \in tokens
      PROVE  /\ token.exp <= time => token.exp <= time'
             /\ token.exp <= time + Ttl(token.kind)
                  => token.exp <= time' + Ttl(token.kind)
  BY <1>1, TokenType
<1>4. TokenLife'
  BY <1>1, <1>3 DEF KeyInv, TokenLife, Signs
<1>5. DroppedIsDead'
  BY <1>1, <1>3 DEF KeyInv, DroppedIsDead, Dead, Signs, EnvKeys
<1>6. QED
  BY <1>2, <1>4, <1>5 DEF KeyInv

LEMMA KeyInvariant == Spec => []KeyInv
<1>1. Init => KeyInv
  BY DEF Init, KeyInv, IntroducedMade, VersionBound, ProductionKeys, TokenLife,
         DroppedIsDead, RolledKnows, Rolled, Down
<1>2. TypeOK /\ KeyInv /\ [Next]_vars => KeyInv'
  <2> SUFFICES ASSUME TypeOK, KeyInv, [Next]_vars
               PROVE  KeyInv'
    OBVIOUS
  <2>1. ASSUME NEW token \in tokens,
               \/ \E r \in Replicas, kind \in Kinds : VerifyAtReplica(r, kind, token)
               \/ \E v \in Verifiers : VerifyCached(v, token)
               \/ \E v \in Verifiers, r, again \in Replicas :
                    VerifyFetched(v, token, r, again)
        PROVE  KeyInv'
    BY <2>1, VerifyFrame, KeyFrame
  <2>2. CASE UNCHANGED vars
    BY <2>2, KeyFrame DEF vars, keyVars
  <2>3. QED
    BY <2>1, <2>2, KeyRotate, KeyHalf, KeyWithout, KeyStart, KeySign, KeyTick DEF Next
<1>3. QED
  BY <1>1, <1>2, TypeCorrect, PTL DEF Spec

LEMMA KnownWhileLive == TypeOK /\ KeyInv => LiveTokenKnown
<1>1. TypeOK /\ KeyInv => LiveTokenKnown
  <2> SUFFICES ASSUME TypeOK, KeyInv, NEW token \in tokens
               PROVE  /\ env.production => introduced[token.kid] # 0
                      /\ \A r \in Replicas :
                           (/\ replica[r].up /\ Live(token)
                            /\ Ttl(token.kind) <= RetireAfter
                            /\ Rolled(r, token.kid) /\ token.kid \notin revoked)
                             => token.kid \in VerificationKeys(replica[r])
    BY DEF LiveTokenKnown
  <2>1. env.production => introduced[token.kid] # 0
    BY DEF KeyInv, ProductionKeys
  <2>2. ASSUME NEW r \in Replicas, replica[r].up, Live(token),
               Ttl(token.kind) <= RetireAfter, Rolled(r, token.kid),
               token.kid \notin revoked
        PROVE  token.kid \in VerificationKeys(replica[r])
    <3>1. token.kid \in Keys /\ token.exp \in Nat /\ time \in Nat
      BY TokenType DEF TypeOK
    <3>2. ~Dead(token.kid)
      BY <2>2, <3>1 DEF Dead, Live
    <3>3. token.kid \in EnvKeys
      BY <2>2, <3>1, <3>2 DEF KeyInv, DroppedIsDead, Rolled
    <3>4. QED
      BY <2>2, <3>1, <3>3 DEF KeyInv, RolledKnows
  <2>3. QED
    BY <2>1, <2>2
<1>2. QED
  BY <1>1

\* Rotations, restarts and retirements in any order never cost a live token
\* that lives no longer than the operator waits: every replica that started
\* with its key, or after it, knows the key until it is revoked.  In
\* production no token is signed with any other key.
THEOREM RotationKeepsTokens == Spec => []LiveTokenKnown
BY KnownWhileLive, TypeCorrect, KeyInvariant, PTL

\* A live token is refused for want of its key only with a set that came from
\* a replica which had not been rolled since the key came; never with one the
\* verifier had cached before (SDK 82-90), and never by a replica that was
\* rolled, whatever keys were retired since (crypto.py:134-161).
THEOREM RefusalCause == Spec => []RefusalHasCause
<1>1. Init => RefusalHasCause
  BY DEF Init, RefusalHasCause, NoCheck
<1>2. TypeOK /\ KeyInv /\ RefusalHasCause /\ [Next]_vars => RefusalHasCause'
  <2> DEFINE Late(r, token) ==
        /\ ~Rolled(r, token.kid)
        /\ env.production => replica[r].version < introduced[token.kid]
  <2> SUFFICES ASSUME TypeOK, KeyInv, RefusalHasCause, [Next]_vars,
                      last'.outcome = "unknown_key"
               PROVE  RefusalHasCause'
    BY DEF RefusalHasCause
\* A replica that does not have the key of a live token has not been rolled.
  <2>1. ASSUME NEW token \in tokens, NEW r \in Replicas, replica[r].up,
               token.kid \notin VerificationKeys(replica[r]), Live(token),
               Ttl(token.kind) <= RetireAfter, token.kid \notin revoked
        PROVE  Late(r, token)
    <3>1. ~Rolled(r, token.kid) /\ (env.production => introduced[token.kid] # 0)
      BY <2>1, KnownWhileLive DEF LiveTokenKnown
    <3>2. token.kid \in Keys /\ replica[r].version \in Nat /\ introduced[token.kid] \in Nat
      BY <2>1, TokenType DEF TypeOK
    <3>3. QED
      BY <3>1, <3>2 DEF Rolled
  <2>2. ASSUME NEW token \in tokens, NEW r \in Replicas, last'.token = token,
               last'.asked = r, replica[r].up,
               token.kid \notin VerificationKeys(replica[r]), UNCHANGED keyVars
        PROVE  RefusalHasCause'
    <3>1. (Live(token) /\ Ttl(token.kind) <= RetireAfter /\ token.kid \notin revoked)
            => Late(r, token)
      BY <2>1, <2>2
    <3>2. QED
      BY <2>2, <3>1 DEF RefusalHasCause, keyVars, Rolled, Live
  <2>3. ASSUME NEW token \in tokens, NEW r \in Replicas, NEW kind \in Kinds,
               VerifyAtReplica(r, kind, token)
        PROVE  RefusalHasCause'
    <3>1. /\ last'.asked = r /\ last'.token = token /\ replica[r].up
          /\ UNCHANGED keyVars
          /\ last'.outcome = Outcome(token, kind, VerificationKeys(replica[r]))
      BY <2>3 DEF VerifyAtReplica, keyVars
    <3>2. token.kid \notin VerificationKeys(replica[r])
      BY <3>1, OutcomeMeans
    <3>3. QED
      BY <2>2, <3>1, <3>2
  <2>4. ASSUME NEW token \in tokens, NEW v \in Verifiers, VerifyCached(v, token)
        PROVE  FALSE
    <3>1. /\ token.kid \in cache[v].keys
          /\ last'.outcome = Outcome(token, "passport", cache[v].keys)
      BY <2>4 DEF VerifyCached
    <3>2. QED
      BY <3>1, OutcomeMeans
  <2>5. ASSUME NEW token \in tokens, NEW v \in Verifiers, NEW r \in Replicas,
               NEW again \in Replicas, VerifyFetched(v, token, r, again)
        PROVE  RefusalHasCause'
    <3> DEFINE from == IF token.kid \in GetJwks(replica[r]) THEN r ELSE again
    <3>1. /\ last'.asked = from /\ last'.token = token /\ UNCHANGED keyVars
          /\ last'.outcome = Outcome(token, "passport", GetJwks(replica[from]))
          /\ from \in Replicas /\ replica[from].up
      BY <2>5 DEF VerifyFetched, keyVars
    <3> HIDE DEF from
    <3>2. token.kid \notin VerificationKeys(replica[from])
      BY <3>1, OutcomeMeans DEF GetJwks
    <3>3. QED
      BY <2>2, <3>1, <3>2
  <2>6. CASE UNCHANGED vars
    BY <2>6 DEF vars, RefusalHasCause, Live, Rolled
  <2>7. QED
    BY <2>3, <2>4, <2>5, <2>6, NoVerification DEF Next
<1>3. QED
  BY <1>1, <1>2, TypeCorrect, KeyInvariant, PTL DEF Spec

=============================================================================
