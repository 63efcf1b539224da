------------------------------ MODULE KeyRotation ------------------------------
(***************************************************************************)
(* Signing keys: replicas of AXG that load their keys when they start, an  *)
(* operator who rotates and retires keys, and the verifiers of the tokens: *)
(* AXG itself (approval tickets, introspection) and the SDK with its       *)
(* cached key set.                                                         *)
(*                                                                         *)
(* A key is a number, which stands for its kid; 0 is no key.  The          *)
(* environment of the next start and of a replica is a record of           *)
(* AXG_PUBLIC_KEY, AXG_PREVIOUS_PUBLIC_KEYS, whether AXG_PRIVATE_KEY is    *)
(* the private half of that public key, and a version that counts the key  *)
(* pairs it got; production says that AXG_ENV is "production".             *)
(***************************************************************************)
EXTENDS Integers, FiniteSets

CONSTANTS
  Replicas,      \* processes of one AXG deployment
  Verifiers,     \* services with a long-lived key-set client
  PassportTtl,   \* lifetime of a Passport
  TicketTtl,     \* lifetime of an approval ticket
  RetireAfter,   \* how long the operator keeps a key nobody signs with
  CacheTime,     \* how long a key-set client keeps what it fetched
  MaxKeys, MaxTime, MaxTokens   \* bounds of a behaviour

ASSUME KeyAssumption ==
  {PassportTtl, TicketTtl, RetireAfter, CacheTime, MaxKeys, MaxTime, MaxTokens}
    \subseteq Nat

VARIABLES
  time,
  env,           \* the environment a process gets when it starts
  replica,       \* the keys each replica has loaded
  tokens,        \* Passports and tickets that were issued
  cache,         \* the key set each verifier has fetched, and when
  last,          \* the verification that was just made
  made,          \* how many keys were generated
  introduced,    \* history: the version that brought a key, 0 if none
  left,          \* history: when a replica last stopped signing with a key
  revoked,       \* history: keys withdrawn without waiting
  published      \* history: when a replica last published a key

vars == <<time, env, replica, tokens, cache, last, made, introduced, left,
          revoked, published>>

Keys    == 1 .. MaxKeys
Kinds   == {"passport", "ticket"}
NoCheck == [outcome |-> "none"]
Down    == [up |-> FALSE, current |-> 0, previous |-> {}, matches |-> TRUE,
            version |-> 0]

Ttl(kind) == IF kind = "passport" THEN PassportTtl ELSE TicketTtl

Live(token) == time < token.exp

\* Mutant of VerificationKeys: only the current key is looked at.
VerificationKeysCurrent(r) == {r.current}

\* The keys verification_key finds: the current one and the retired ones.
VerificationKeys(r) == {r.current} \cup r.previous

\* Mutant of GetJwks: a key that was published once stays published.
GetJwksAll(r) == 1 .. r.current

GetJwks(r) == VerificationKeys(r)

-----------------------------------------------------------------------------
Init ==
  /\ time = 0
  /\ \E production \in BOOLEAN :
       env = [production |-> production, current |-> 0, previous |-> {},
              matches |-> TRUE, version |-> 0]
  /\ replica = [r \in Replicas |-> Down]
  /\ tokens = {}
  /\ cache = [v \in Verifiers |-> [keys |-> {}, at |-> 0]]
  /\ last = NoCheck
  /\ made = 0
  /\ introduced = [k \in Keys |-> 0]
  /\ left = [k \in Keys |-> 0]
  /\ revoked = {}
  /\ published = [k \in Keys |-> 0]

(* The operator. *)

\* A new key pair; the old public key joins the previous ones.
Rotate ==
  /\ made < MaxKeys
  /\ made' = made + 1
  /\ env' = [env EXCEPT !.current = made + 1,
                        !.previous = @ \cup ({env.current} \ {0}),
                        !.matches = TRUE, !.version = @ + 1]
  /\ introduced' = [introduced EXCEPT ![made + 1] = env.version + 1]
  /\ last' = NoCheck
  /\ UNCHANGED <<time, replica, tokens, cache, left, revoked, published>>

\* A new private key under the old AXG_PUBLIC_KEY: nothing compares the two.
RotateHalf ==
  /\ env.current # 0 /\ made < MaxKeys
  /\ made' = made + 1
  /\ env' = [env EXCEPT !.matches = FALSE]
  /\ last' = NoCheck
  /\ UNCHANGED <<time, replica, tokens, cache, introduced, left, revoked,
                 published>>

Without(k) == env' = [env EXCEPT !.previous = @ \ {k}]

\* The old key goes when nobody has signed with it for RetireAfter.
Retire(k) ==
  /\ k \in env.previous
  /\ \A r \in Replicas : replica[r].current # k
  /\ time >= left[k] + RetireAfter
  /\ Without(k)
  /\ last' = NoCheck
  /\ UNCHANGED <<time, replica, tokens, cache, made, introduced, left, revoked,
                 published>>

\* A key that leaked goes at once.
Revoke(k) ==
  /\ k \in env.previous
  /\ Without(k)
  /\ revoked' = revoked \cup {k}
  /\ last' = NoCheck
  /\ UNCHANGED <<time, replica, tokens, cache, made, introduced, left, published>>

(* A replica starts, and signs. *)

\* Mutant of LoadKeys: the process starts without a key.
LoadKeysNone ==
  [up |-> TRUE, current |-> env.current, previous |-> env.previous,
   matches |-> env.matches, version |-> env.version]

\* The configured key, or outside of production a new one; without either
\* the process does not start.
LoadKeys ==
  IF env.current = 0 /\ env.production THEN Down
  ELSE [up |-> TRUE,
        current |-> IF env.current # 0 THEN env.current ELSE made + 1,
        previous |-> env.previous,
        matches |-> env.matches \/ env.current = 0, version |-> env.version]

Start(r) ==
  LET new == LoadKeys
  IN /\ new.current <= MaxKeys
     /\ replica' = [replica EXCEPT ![r] = new]
     /\ made' = IF new.current > made THEN new.current ELSE made
     /\ left' = [k \in Keys |-> IF k = replica[r].current /\ k # new.current
                                THEN time ELSE left[k]]
     /\ published' = [k \in Keys |-> IF k \in {new.current} \cup new.previous
                                     THEN time ELSE published[k]]
     /\ last' = NoCheck
     /\ UNCHANGED <<time, env, tokens, cache, introduced, revoked>>

\* sign_decision and sign_approval_ticket sign with the private key and name
\* the current public key in the header; the token verifies with that key if
\* the two match.
Sign(r, kind) ==
  /\ replica[r].up
  /\ Cardinality(tokens) < MaxTokens
  /\ tokens' = tokens \cup {[kid |-> replica[r].current, kind |-> kind,
                             sound |-> replica[r].matches, exp |-> time + Ttl(kind)]}
  /\ last' = NoCheck
  /\ UNCHANGED <<time, env, replica, cache, made, introduced, left, revoked,
                 published>>

(* Tokens are verified. *)

Outcome(token, kind, keys) ==
  CASE token.kind # kind -> "wrong_kind"
    [] token.kind = kind /\ token.kid \notin keys -> "unknown_key"
    [] token.kind = kind /\ token.kid \in keys /\ ~token.sound -> "bad_signature"
    [] token.kind = kind /\ token.kid \in keys /\ token.sound /\ ~Live(token)
         -> "expired"
    [] OTHER -> "accepted"

\* verify_approval_ticket and introspect_passport, by the kind they accept.
VerifyAtReplica(r, kind, token) ==
  /\ replica[r].up
  /\ last' = [outcome |-> Outcome(token, kind, VerificationKeys(replica[r])),
              token |-> token, asked |-> r]
  /\ UNCHANGED <<time, env, replica, tokens, cache, made, introduced, left,
                 revoked, published>>

Fresh(v) == time < cache[v].at + CacheTime

\* Mutant of VerifyCached: a cached set that lacks the key is not fetched again.
VerifyCachedOnly(v, token) ==
  /\ token.kind = "passport"
  /\ Fresh(v)
  /\ last' = [outcome |-> Outcome(token, "passport", cache[v].keys),
              token |-> token, asked |-> v]
  /\ UNCHANGED <<time, env, replica, tokens, cache, made, introduced, left,
                 revoked, published>>

\* verify_passport with a key from the cached set.
VerifyCached(v, token) ==
  /\ token.kind = "passport"
  /\ Fresh(v) /\ token.kid \in cache[v].keys
  /\ last' = [outcome |-> Outcome(token, "passport", cache[v].keys),
              token |-> token, asked |-> v]
  /\ UNCHANGED <<time, env, replica, tokens, cache, made, introduced, left,
                 revoked, published>>

\* verify_passport with a set that is too old or lacks the key: it is fetched
\* from some replica, and fetched again when the first set lacks the key.
VerifyFetched(v, token, r, again) ==
  /\ token.kind = "passport"
  /\ ~(Fresh(v) /\ token.kid \in cache[v].keys)
  /\ replica[r].up /\ replica[again].up
  /\ Fresh(v) => again = r
  /\ LET from == IF token.kid \in GetJwks(replica[r]) THEN r ELSE again
         keys == GetJwks(replica[from])
     IN /\ cache' = [cache EXCEPT ![v] = [keys |-> keys, at |-> time]]
        /\ last' = [outcome |-> Outcome(token, "passport", keys),
                    token |-> token, asked |-> from]
  /\ UNCHANGED <<time, env, replica, tokens, made, introduced, left, revoked,
                 published>>

Tick ==
  /\ time < MaxTime
  /\ time' = time + 1
  /\ published' = [k \in Keys |->
                     IF \E r \in Replicas :
                          k \in {replica[r].current} \cup replica[r].previous
                     THEN time + 1 ELSE published[k]]
  /\ last' = NoCheck
  /\ UNCHANGED <<env, replica, tokens, cache, made, introduced, left, revoked>>

Next ==
  \/ Rotate \/ RotateHalf \/ Tick
  \/ \E k \in Keys : Retire(k) \/ Revoke(k)
  \/ \E r \in Replicas : Start(r) \/ \E kind \in Kinds : Sign(r, kind)
  \/ \E token \in tokens :
       \/ \E r \in Replicas, kind \in Kinds : VerifyAtReplica(r, kind, token)
       \/ \E v \in Verifiers : VerifyCached(v, token)
       \/ \E v \in Verifiers, r, again \in Replicas :
            VerifyFetched(v, token, r, again)

Spec == Init /\ [][Next]_vars

-----------------------------------------------------------------------------
Environment ==
  [production : BOOLEAN, current : 0 .. MaxKeys, previous : SUBSET Keys,
   matches : BOOLEAN, version : Nat]

Token == [kid : Keys, kind : Kinds, sound : BOOLEAN, exp : Nat]

\* The types of the variables; a replica that runs has a key to sign with.
TypeOK ==
  /\ time \in Nat
  /\ env \in Environment
  /\ replica \in [Replicas -> [up : BOOLEAN, current : 0 .. MaxKeys,
                               previous : SUBSET Keys, matches : BOOLEAN,
                               version : Nat]]
  /\ \A r \in Replicas : replica[r].up <=> replica[r].current # 0
  /\ tokens \subseteq Token
  /\ cache \in [Verifiers -> [keys : SUBSET Keys, at : Nat]]
  /\ made \in 0 .. MaxKeys
  /\ introduced \in [Keys -> Nat]
  /\ left \in [Keys -> Nat]
  /\ revoked \subseteq Keys
  /\ published \in [Keys -> Nat]

\* The replica has started since the key came with the environment.
Rolled(r, k) == introduced[k] # 0 /\ replica[r].version >= introduced[k]

\* crypto.py:134-150, docs/passport.md "Rotation without downtime": a replica
\* that was started with a key, or after it, knows it as long as a token that
\* it signed is live, if tokens live no longer than the operator waits and
\* nobody revokes the key.  So rotations and restarts in any order never cost
\* such a token.  In production that is so for every key that signs.
LiveTokenKnown ==
  \A token \in tokens :
    /\ env.production => introduced[token.kid] # 0
    /\ \A r \in Replicas :
         (/\ replica[r].up /\ Live(token) /\ Ttl(token.kind) <= RetireAfter
          /\ Rolled(r, token.kid) /\ token.kid \notin revoked)
           => token.kid \in VerificationKeys(replica[r])

\* crypto.py:281-326, SDK 82-90: rotating, retiring and rolling replicas one
\* by one never cost a verifier a live token, except where the set it used
\* came from a replica that had not been rolled since the key came: one such
\* refusal is possible while the replicas differ, and a set that was cached
\* before refuses nothing.  In production the replica had started earlier.
RefusalHasCause ==
  LET token == last.token
  IN (/\ last.outcome = "unknown_key" /\ Live(token)
      /\ Ttl(token.kind) <= RetireAfter /\ token.kid \notin revoked)
     => /\ last.asked \in Replicas
        /\ ~Rolled(last.asked, token.kid)
        /\ env.production => replica[last.asked].version < introduced[token.kid]

\* crypto.py:152-161: a key that no replica publishes any more is accepted
\* nowhere once the key sets fetched before are too old.
WithdrawnKeyDies ==
  last.outcome = "accepted" =>
    \/ published[last.token.kid] = time
    \/ time < published[last.token.kid] + CacheTime

=============================================================================
