---------------------------- MODULE SignedContext ----------------------------
(***************************************************************************)
(* Signed context: the facts a request carries as tokens of trusted        *)
(* providers, and which of them the rules may read.                        *)
(*                                                                         *)
(* A token is a record of what its checks read.  sound says that PyJWT     *)
(* accepts its signature, algorithm, audience and required claims; exp,    *)
(* iat and nbf are seconds; nbf and sub are NoValue when absent; object    *)
(* says that its context claim is a JSON object, the facts.                *)
(***************************************************************************)
EXTENDS Integers, Sequences

CONSTANTS
  Leeway,     \* LEEWAY_SECONDS
  NoValue     \* an absent value

ASSUME LeewayAssumption == Leeway \in Nat

\* Configuration that load_providers refuses.
BadConfig == [valid |-> FALSE]

\* The provider table is unusable when it is malformed, or when two entries
\* share an id or an issuer; entries is a sequence of [id, issuer, maxAge].
LoadProviders(entries) ==
  IF \E i, j \in DOMAIN entries :
       /\ i # j
       /\ \/ entries[i].id = entries[j].id
          \/ entries[i].issuer = entries[j].issuer
  THEN BadConfig
  ELSE [valid |-> TRUE, entries |-> entries]

\* PyJWT's decode: each claim that names a time, with the leeway.
Decodes(token, clock) ==
  /\ token.sound
  /\ token.exp > clock - Leeway
  /\ token.iat <= clock + Leeway
  /\ token.nbf # NoValue => token.nbf <= clock + Leeway

\* Mutant of VerifyToken: the age is measured without the issue time.
VerifyTokenAnyAge(token, provider, tenant, user, clock) ==
  /\ token.iss = provider.issuer
  /\ Decodes(token, clock)
  /\ token.tenant = tenant
  /\ token.sub \in {NoValue, user}
  /\ token.object

\* The token is valid for this request, as a token of this provider.
VerifyToken(token, provider, tenant, user, clock) ==
  /\ token.iss = provider.issuer
  /\ Decodes(token, clock)
  /\ clock - token.iat <= provider.maxAge + Leeway
  /\ token.tenant = tenant
  /\ token.sub \in {NoValue, user}
  /\ token.object

\* One token of the request: its provider's facts, unless it is rejected or
\* the provider already gave its facts.
AcceptToken(result, token, config, tenant, user, clock) ==
  LET from == {i \in DOMAIN config.entries :
                 VerifyToken(token, config.entries[i], tenant, user, clock)}
      new  == {config.entries[i].id : i \in from} \ DOMAIN result.facts
  IN [facts    |-> [p \in DOMAIN result.facts \cup new |->
                      IF p \in new THEN token.context ELSE result.facts[p]],
      rejected |-> result.rejected + (IF new = {} THEN 1 ELSE 0)]

NoContext == [facts |-> [p \in {} |-> NoValue], rejected |-> 0]

\* The result after the first n tokens of the request, for every n.
AcceptedSoFar(tokens, config, tenant, user, clock) ==
  LET after[n \in 0 .. Len(tokens)] ==
        IF n = 0 THEN NoContext
        ELSE AcceptToken(after[n - 1], tokens[n], config, tenant, user, clock)
  IN after

VerifySignedContext(tokens, config, tenant, user, clock) ==
  IF ~config.valid
  THEN [NoContext EXCEPT !.rejected = Len(tokens)]
  ELSE AcceptedSoFar(tokens, config, tenant, user, clock)[Len(tokens)]

=============================================================================
