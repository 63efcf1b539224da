------------------------------- MODULE Decision -------------------------------
(***************************************************************************)
(* The decision engine: from a request, a policy and a caller to one of    *)
(* ALLOW, SUGGEST, CONFIRM and BLOCK, with a Passport, an approval ticket  *)
(* or neither.  An evaluation suspends twice, while the policy is loaded   *)
(* and while signed context is verified; the rest runs in one step.        *)
(*                                                                         *)
(* Scores are counted in twentieths, in which every constant of the engine *)
(* is an integer.  A token is modelled by the fact that it was signed.     *)
(***************************************************************************)
EXTENDS Rules, SignedContext, FiniteSets, SequencesExt

CONSTANTS
  Plugins,    \* the policies a request may name
  Requests,   \* decision requests
  Callers,    \* callers the API resolved, and TRUSTED_LOCAL
  Providers,  \* values of AXG_CONTEXT_PROVIDERS, each a provider sequence
  Clocks      \* times at which a request may arrive

VARIABLES
  pc,         \* "idle", "received", "loaded", "verified", "answered"
  in,         \* the request under evaluation with all it depends on
  verified,   \* its verified context
  response,   \* the DecisionResponse
  record      \* the ExecutionRecord handed to the audit trail

vars == <<pc, in, verified, response, record>>

Verdicts == {"ALLOW", "SUGGEST", "CONFIRM", "BLOCK"}

Precedence == [ALLOW |-> 0, SUGGEST |-> 1, CONFIRM |-> 2, BLOCK |-> 3]

Strictest(decisions) ==
  CHOOSE d \in decisions : \A e \in decisions : Precedence[e] <= Precedence[d]

-----------------------------------------------------------------------------
(* What the data models accept: a policy or request outside of this never  *)
(* reaches the engine.                                                     *)

Score == 0 .. 20

Operators == {"eq", "neq", "gt", "gte", "lt", "lte", "in", "not_in", "exists",
              "contains"}

ValidGroup(group) ==
  /\ group.all # <<>> \/ group.any # <<>>
  /\ \A i \in DOMAIN group.all : group.all[i].operator \in Operators
  /\ \A i \in DOMAIN group.any : group.any[i].operator \in Operators

ValidRule(rule) ==
  /\ ValidGroup(rule.condition)
  /\ rule.decision \in Verdicts
  /\ {rule.penalty, rule.riskDelta} \subseteq Score

ValidPlugin(plugin) ==
  /\ {plugin.allowMin, plugin.suggestMin, plugin.highRisk, plugin.gate.threshold}
       \subseteq Score
  /\ \A a \in DOMAIN plugin.actions : plugin.actions[a].baseRisk \in Score
  /\ IsList(plugin.rules)
  /\ \A i \in DOMAIN plugin.rules : ValidRule(plugin.rules[i])
  /\ plugin.defaultRole # NoValue

ValidRequest(q) ==
  /\ DOMAIN q = {"action", "permissions", "source", "payload", "context",
                 "confidence", "intent", "shadow", "tokens", "tenant", "user",
                 "others"}
  /\ q.confidence \in Score
  /\ IsList(q.tokens) /\ Len(q.tokens) <= 8
  /\ \A i \in DOMAIN q.tokens :
       /\ {q.tokens[i].exp, q.tokens[i].iat} \subseteq Int
       /\ q.tokens[i].nbf \in Int \cup {NoValue}

ASSUME InputAssumption ==
  /\ \A p \in Plugins : ValidPlugin(p)
  /\ \A q \in Requests : ValidRequest(q)
  /\ \A e \in Providers : IsList(e) /\ \A i \in DOMAIN e : e[i].maxAge \in Nat
  /\ Clocks \subseteq Int

-----------------------------------------------------------------------------
\* Mutant of Clamp: nothing holds a score at 1.
ClampBelow(score) == IF score < 0 THEN 0 ELSE score

Clamp(score) == IF score < 0 THEN 0 ELSE IF score > 20 THEN 20 ELSE score

-----------------------------------------------------------------------------
(* Who asks, and what the rules see.                                       *)

\* Mutant of EffectivePermissions: an empty ceiling counts as none.
EffectivePermissionsOpen(caller, requested) ==
  IF \/ caller.permissions \in {NoValue, {}}
     \/ "*" \in caller.permissions
  THEN requested
  ELSE requested \cap caller.permissions

\* What an agent holds: no more than its caller may grant.
EffectivePermissions(caller, requested) ==
  IF caller.permissions = NoValue \/ "*" \in caller.permissions
  THEN requested
  ELSE requested \cap caller.permissions

Below(name, fields) ==
  [path \in {<<name, k>> : k \in DOMAIN fields} |-> fields[path[2]]]

OrNull(x) == IF x = NoValue THEN Null ELSE Text(x)

\* The keys of the intent that the engine reads itself.
IntentFields(intent) ==
  LET keys == {k \in {"original", "fallback_used", "resolved"} :
                 CASE k = "original"      -> intent.original # NoValue
                   [] k = "fallback_used" -> intent.fallback
                   [] k = "resolved"      -> intent.resolved # Null}
  IN [k \in keys |-> CASE k = "original"      -> Text(intent.original)
                       [] k = "fallback_used" -> Num(1)
                       [] k = "resolved"      -> intent.resolved]

\* The data of the rules: the whole request, with the fields the engine does
\* not read (ids, metadata, the name of the model) in others.  Only verified
\* tokens write below "verified".
RuleData(q, ctx) ==
  Below("payload", q.payload) @@ Below("context", q.context)
    @@ Below("intent", IntentFields(q.intent))
    @@ (<<"llm", "confidence">> :> Num(q.confidence))
    @@ (<<"action_type">> :> Text(q.action)) @@ (<<"source">> :> Text(q.source))
    @@ (<<"shadow_mode">> :> Num(IF q.shadow THEN 1 ELSE 0))
    @@ (<<"tenant_id">> :> Text(q.tenant)) @@ (<<"user_id">> :> OrNull(q.user))
    @@ [path \in IF q.permissions = NoValue THEN {} ELSE {<<"agent", "permissions">>} |->
          List(SetToSeq({Text(p) : p \in q.permissions}))]
    @@ [path \in UNION {{<<"verified", p, f>> : f \in DOMAIN ctx.facts[p]}
                          : p \in DOMAIN ctx.facts} |-> ctx.facts[path[2]][path[3]]]
    @@ q.others

MissingContext(plugin, q, ctx) ==
  IF q.action \in DOMAIN plugin.actions
  THEN plugin.actions[q.action].context \ DOMAIN ctx.facts
  ELSE {}

-----------------------------------------------------------------------------
(* The uncertainty gate and the scores.                                    *)

IsUncertainSource(plugin, q) == q.source \in plugin.gate.sources

ProposedAction(q) ==
  IF "proposed_action" \in DOMAIN q.payload THEN q.payload["proposed_action"] ELSE Null

InGate(plugin, value) == value.kind = "text" /\ value.v \in plugin.gate.actions

\* The action, the one the model proposed or the one the intent resolved to.
IsGatedWrite(plugin, q) ==
  \/ q.action \in plugin.gate.actions
  \/ InGate(plugin, ProposedAction(q))
  \/ InGate(plugin, q.intent.resolved)

\* A list cannot be looked up in a set: TypeError, unless an earlier
\* alternative of the disjunction already holds.
GateRaises(plugin, q) ==
  /\ q.action \notin plugin.gate.actions
  /\ \/ ProposedAction(q).kind = "list"
     \/ ~InGate(plugin, ProposedAction(q)) /\ q.intent.resolved.kind = "list"

UncertaintyScore(plugin, q) ==
  LET unknown   == IF q.intent.original = "unknown" THEN 16 ELSE 0
      fallback  == IF q.intent.fallback THEN 4 ELSE 0
      uncertain == IF IsUncertainSource(plugin, q) THEN 2 ELSE 0
      score     == unknown + fallback + uncertain
  IN Clamp(IF /\ IsGatedWrite(plugin, q)
              /\ IsUncertainSource(plugin, q)
              /\ ~q.intent.given
              /\ plugin.gate.threshold > score
           THEN plugin.gate.threshold
           ELSE score)

RequiresUncertaintyConfirmation(plugin, q) ==
  /\ IsGatedWrite(plugin, q)
  /\ UncertaintyScore(plugin, q) >= plugin.gate.threshold

DefaultPenalty == [ALLOW |-> 0, SUGGEST |-> 2, CONFIRM |-> 5, BLOCK |-> 10]

Scores(plugin, q, triggered) ==
  LET penalty(rule) == IF rule.penalty = 0 THEN DefaultPenalty[rule.decision]
                       ELSE rule.penalty
      base == IF q.action \in DOMAIN plugin.actions
              THEN plugin.actions[q.action].baseRisk ELSE plugin.highRisk
      risk == Clamp(base + Total([i \in DOMAIN triggered |->
                                    triggered[i].riskDelta]))
  IN [confidence  |-> Clamp(q.confidence - Total([i \in DOMAIN triggered |->
                                                    penalty(triggered[i])])),
      risk        |-> risk,
      level       |-> IF risk >= plugin.highRisk THEN "high"
                      ELSE IF risk >= 8 THEN "medium" ELSE "low",
      uncertainty |-> UncertaintyScore(plugin, q)]

-----------------------------------------------------------------------------
(* The decision and what comes with it.                                    *)

\* BLOCK when the agent lacks a permission the declared action requires.
PermissionDecision(plugin, q, caller) ==
  LET granted == IF q.permissions = NoValue THEN {}
                 ELSE EffectivePermissions(caller, q.permissions)
  IN IF /\ q.action \in DOMAIN plugin.actions
        /\ ~(plugin.actions[q.action].permissions \subseteq granted)
     THEN {"BLOCK"} ELSE {}

\* Mutant of FinalDecision: the gate replaces the decision of the rules.
FinalDecisionGateFirst(plugin, q, triggered, caller) ==
  LET decisions == {triggered[i].decision : i \in DOMAIN triggered}
                     \cup PermissionDecision(plugin, q, caller)
  IN CASE RequiresUncertaintyConfirmation(plugin, q) -> "CONFIRM"
       [] decisions # {} -> Strictest(decisions)
       [] q.confidence >= plugin.allowMin -> "ALLOW"
       [] q.confidence >= plugin.suggestMin -> "SUGGEST"
       [] OTHER -> "CONFIRM"

FinalDecision(plugin, q, triggered, caller) ==
  LET decisions ==
        {triggered[i].decision : i \in DOMAIN triggered}
          \cup PermissionDecision(plugin, q, caller)
          \cup (IF RequiresUncertaintyConfirmation(plugin, q)
                THEN {"CONFIRM"} ELSE {})
  IN CASE decisions # {} -> Strictest(decisions)
       [] decisions = {} /\ q.action \notin DOMAIN plugin.actions -> "CONFIRM"
       [] OTHER -> IF q.confidence >= plugin.allowMin THEN "ALLOW"
                   ELSE IF q.confidence >= plugin.suggestMin THEN "SUGGEST"
                   ELSE "CONFIRM"

\* Mutant of ApproverRole: the first matched rule that names a role.
ApproverRoleFirst(plugin, q, triggered) ==
  LET named == SelectSeq(triggered, LAMBDA rule : rule.role # NoValue)
  IN IF named # <<>> THEN named[1].role ELSE plugin.defaultRole

\* sorted() by precedence, strictest first; equal rules keep their order.
StrictestFirst(rules) ==
  LET with(n) == Picked(rules, {i \in DOMAIN rules :
                                  Precedence[rules[i].decision] = n})
  IN with(3) \o with(2) \o with(1) \o with(0)

ApproverRole(plugin, q, triggered) ==
  LET asked == StrictestFirst(triggered)
      named == Picked(asked, {i \in DOMAIN asked : asked[i].role # NoValue})
  IN CASE named # <<>> -> named[1].role
       [] /\ named = <<>>
          /\ q.action \in DOMAIN plugin.actions
          /\ plugin.actions[q.action].role # NoValue
            -> plugin.actions[q.action].role
       [] OTHER -> plugin.defaultRole

\* The payload a Passport binds: a rule may add fields or replace them.
ActionablePayload(q, triggered) ==
  LET category == "proposed_category"
      asked == q.payload @@ ("proposed_action" :> [kind |-> "text",
                                                   v |-> q.action])
      base == IF category \in DOMAIN q.payload
              THEN ("suggested_category" :> q.payload[category]) @@ asked
              ELSE asked
  IN FoldLeft(LAMBDA payload, rule : rule.payload @@ payload, base, triggered)

\* The absent value is neither a payload nor a ticket.
ASSUME NoValueAssumption ==
  \A q \in Requests, p \in Plugins : \A I \in SUBSET DOMAIN p.rules :
    LET triggered == Picked(p.rules, I)
        payload   == ActionablePayload(q, triggered)
    IN NoValue \notin {payload, [payload |-> payload,
                                 role |-> ApproverRole(p, q, triggered)]}

AuditFlags(plugin, q, triggered) ==
  UNION {IF triggered[i].flags = {} THEN {triggered[i].id}
         ELSE triggered[i].flags : i \in DOMAIN triggered}
    \cup (IF q.intent.original = "unknown" THEN {"unknown_intent"} ELSE {})
    \cup (IF q.intent.fallback THEN {"fallback_used"} ELSE {})
    \cup (IF RequiresUncertaintyConfirmation(plugin, q)
          THEN {plugin.gate.flag} ELSE {})
    \cup (IF q.shadow THEN {"shadow_mode_active"} ELSE {})

\* Mutant of RaisedFlags: an unauthenticated caller leaves no trace.
RaisedFlagsSilent(ctx, missing, anonymous, unsigned) ==
  (IF ctx.rejected > 0 THEN {"signed_context_rejected"} ELSE {})
    \cup (IF missing THEN {"verified_context_missing"} ELSE {})
    \cup (IF unsigned THEN {"passport_signing_failed"} ELSE {})

\* The flags of what happened after the policy had decided.
RaisedFlags(ctx, missing, anonymous, unsigned) ==
  (IF ctx.rejected > 0 THEN {"signed_context_rejected"} ELSE {})
    \cup (IF missing THEN {"verified_context_missing"} ELSE {})
    \cup (IF anonymous THEN {"unauthenticated_caller"} ELSE {})
    \cup (IF unsigned THEN {"passport_signing_failed"} ELSE {})

\* Mutant of MayBeApproved: a shadow evaluation gets a ticket.
MayBeApprovedShadow(decision, q, caller, flags) ==
  /\ decision \in {"CONFIRM", "SUGGEST"}
  /\ caller.authenticated
  /\ "passport_signing_failed" \notin flags

\* A human may turn this decision into a Passport.
MayBeApproved(decision, q, caller, flags) ==
  /\ decision \in {"CONFIRM", "SUGGEST"}
  /\ caller.authenticated
  /\ ~q.shadow
  /\ "passport_signing_failed" \notin flags

\* The decision of the policy, then each step that may raise it: missing
\* context, an unauthenticated caller, a Passport that cannot be signed.
\* signs says whether the signing key works.
Evaluated(plugin, q, caller, ctx, signs) ==
  LET triggered == EvaluateRules(plugin.rules, RuleData(q, ctx))
      payload   == ActionablePayload(q, triggered)
      policy    == FinalDecision(plugin, q, triggered, caller)
      missing   == MissingContext(plugin, q, ctx) # {}
      raised    == IF missing THEN Strictest({policy, "CONFIRM"}) ELSE policy
      anonymous == raised = "ALLOW" /\ ~caller.authenticated
      live      == raised = "ALLOW" /\ ~anonymous /\ ~q.shadow
      unsigned  == live /\ ~signs
      final     == IF anonymous \/ unsigned THEN "CONFIRM" ELSE raised
      flags     == AuditFlags(plugin, q, triggered)
                     \cup RaisedFlags(ctx, missing, anonymous, unsigned)
  IN [decision |-> final,
      passport |-> IF live /\ signs THEN payload ELSE NoValue,
      ticket   |-> IF signs /\ MayBeApproved(final, q, caller, flags)
                   THEN [payload |-> payload,
                         role |-> ApproverRole(plugin, q, triggered)]
                   ELSE NoValue,
      payload  |-> payload,
      flags    |-> flags,
      scores   |-> Scores(plugin, q, triggered)]

FailSafe(q) ==
  [decision |-> "CONFIRM", passport |-> NoValue, ticket |-> NoValue,
   payload |-> [k \in {} |-> NoValue], flags |-> {"plugin_load_failed"},
   scores |-> [confidence |-> 0, risk |-> 20, level |-> "high",
               uncertainty |-> 20]]

\* The audit record of a decision (axg.execution_record.v2).
GetExecutionRecord(q, r) ==
  [decision |-> r.decision, action |-> q.action, flags |-> r.flags,
   passport |-> r.passport # NoValue, shadow |-> q.shadow,
   risk |-> r.scores.risk, level |-> r.scores.level,
   confirm |-> r.decision = "CONFIRM"]

-----------------------------------------------------------------------------
(* One evaluation after another.                                           *)

Nothing == [none |-> TRUE]

Init ==
  /\ pc = "idle"
  /\ in = Nothing /\ verified = Nothing
  /\ response = Nothing /\ record = Nothing

Receive ==
  /\ pc = "idle"
  /\ \E q \in Requests, p \in Plugins, c \in Callers, e \in Providers,
        t \in Clocks, signs \in BOOLEAN :
       /\ \/ Len(q.tokens) > 0
          \* without tokens neither the providers nor the time are read
          \/ /\ e = CHOOSE x \in Providers : TRUE
             /\ t = CHOOSE x \in Clocks : TRUE
       /\ in' = [request |-> q, plugin |-> p, caller |-> c,
                 providers |-> e, clock |-> t, signs |-> signs]
  /\ pc' = "received"
  /\ UNCHANGED <<verified, response, record>>

Respond(r) ==
  /\ response' = r
  /\ record' = GetExecutionRecord(in.request, r)
  /\ pc' = "answered"
  /\ UNCHANGED <<in, verified>>

LoadFails ==
  /\ pc = "received"
  /\ Respond(FailSafe(in.request))

LoadPlugin ==
  /\ pc = "received"
  /\ pc' = "loaded"
  /\ UNCHANGED <<in, verified, response, record>>

VerifyContext ==
  /\ pc = "loaded"
  /\ verified' = VerifySignedContext(in.request.tokens,
                   LoadProviders(in.providers), in.request.tenant,
                   in.request.user, in.clock)
  /\ pc' = "verified"
  /\ UNCHANGED <<in, response, record>>

Evaluate ==
  /\ pc = "verified"
  /\ ~GateRaises(in.plugin, in.request)
  /\ Respond(Evaluated(in.plugin, in.request, in.caller, verified, in.signs))

\* The engine keeps nothing of a request it has answered, or raised on.
Forget ==
  /\ pc' = "idle"
  /\ in' = Nothing /\ verified' = Nothing
  /\ response' = Nothing /\ record' = Nothing

\* The exception leaves decide(): no response, no record.
EvaluateRaises ==
  /\ pc = "verified"
  /\ GateRaises(in.plugin, in.request)
  /\ Forget

Finish ==
  /\ pc = "answered"
  /\ Forget

Next ==
  \/ Receive \/ LoadFails \/ LoadPlugin \/ VerifyContext
  \/ Evaluate \/ EvaluateRaises \/ Finish

Spec == Init /\ [][Next]_vars

-----------------------------------------------------------------------------
Answered   == pc = "answered"
FromPolicy == Answered /\ verified # Nothing

\* The shape of an answer: a known decision, scores in range and at most one
\* of a Passport and a ticket, both bound to the payload that is returned.
TypeOK ==
  /\ pc \in {"idle", "received", "loaded", "verified", "answered"}
  /\ Answered =>
       /\ response.decision \in Verdicts
       /\ response.passport \in {NoValue, response.payload}
       /\ response.passport = NoValue \/ response.ticket = NoValue
       /\ response.scores.level \in {"low", "medium", "high"}
       /\ {response.scores.risk, response.scores.confidence,
           response.scores.uncertainty} \subseteq 0 .. 20

\* The rules of the policy that match, by their place in it.
MatchedBy(q) ==
  {i \in DOMAIN in.plugin.rules :
     EvaluateGroup(in.plugin.rules[i].condition, RuleData(q, verified))}

Matched == MatchedBy(in.request)

Declared == in.request.action \in DOMAIN in.plugin.actions

Policy == in.plugin.actions[in.request.action]

\* An agent, and a caller that vouches for it, for every permission required.
Permitted ==
  Declared => \A p \in Policy.permissions :
                /\ in.request.permissions # NoValue /\ p \in in.request.permissions
                /\ \/ in.caller.permissions = NoValue
                   \/ {p, "*"} \cap in.caller.permissions # {}

\* A gated write on a guess: no intent from an uncertain source, or an
\* unknown intent where the threshold is within its 0.8.
Guessed ==
  /\ IsGatedWrite(in.plugin, in.request)
  /\ \/ ~in.request.intent.given /\ in.request.source \in in.plugin.gate.sources
     \/ in.request.intent.original = "unknown" /\ in.plugin.gate.threshold <= 16

\* engine.py:59-121, docs/concepts.md "Fail-safe principles": ALLOW is given
\* only if nothing speaks against it, and a reason for BLOCK always blocks:
\* no order of the checks, no gate and no missing fact lowers it.
DecisionIsEarned ==
  FromPolicy =>
    /\ response.decision = "ALLOW" =>
         /\ in.caller.authenticated
         /\ Permitted
         /\ \A i \in Matched : in.plugin.rules[i].decision = "ALLOW"
         /\ Declared => Policy.context \subseteq DOMAIN verified.facts
         /\ ~Guessed
         /\ Matched = {} => /\ Declared
                            /\ in.request.confidence >= in.plugin.allowMin
    /\ response.decision = "BLOCK" <=>
         \/ ~Permitted
         \/ \E i \in Matched : in.plugin.rules[i].decision = "BLOCK"

\* engine.py:92-121: an authenticated caller outside shadow mode can always
\* go on: ALLOW comes with a Passport, CONFIRM and SUGGEST with a ticket,
\* unless the key or the policy failed (or a matched rule bears the flag of
\* a failed signature).  Nobody else gets either.
WayForward ==
  Answered =>
    LET live == in.caller.authenticated /\ ~in.request.shadow
        broken == \/ ~in.signs
                  \/ {"plugin_load_failed", "passport_signing_failed"}
                       \cap response.flags # {}
    IN /\ response.passport # NoValue => live /\ response.decision = "ALLOW"
       /\ response.ticket # NoValue =>
            live /\ response.decision \in {"CONFIRM", "SUGGEST"}
       /\ live /\ response.decision = "ALLOW" => response.passport # NoValue
       /\ live /\ response.decision \in {"CONFIRM", "SUGGEST"} /\ ~broken =>
            response.ticket # NoValue

\* engine.py:192-198: a rule's role is asked exactly when no other matched
\* rule with a role is stricter, or as strict and earlier in the policy; the
\* role of the action when no matched rule names one, and else the default.
StrictestRole ==
  FromPolicy /\ response.ticket # NoValue =>
    LET rule(i) == in.plugin.rules[i]
        named == {i \in Matched : rule(i).role # NoValue}
        before(i, j) ==
          LET a == Precedence[rule(i).decision]
              b == Precedence[rule(j).decision]
          IN a > b \/ (a = b /\ i <= j)
    IN IF named # {}
       THEN \E i \in named : /\ response.ticket.role = rule(i).role
                             /\ \A j \in named : before(i, j)
       ELSE response.ticket.role =
              IF Declared /\ Policy.role # NoValue
              THEN Policy.role ELSE in.plugin.defaultRole

\* context.py:109-164: a fact the rules read was signed by its provider for
\* this tenant and user, at most maxAge (and the leeway) before it was used,
\* and it comes from the first such token; a token that is refused hides no
\* later one, and a provider with a valid token is never missing.
FactsGenuine ==
  FromPolicy =>
    LET tokens == in.request.tokens
        config == LoadProviders(in.providers)
        good(i, e) ==
          /\ tokens[i].sound /\ tokens[i].object
          /\ tokens[i].iss = e.issuer
          /\ tokens[i].tenant = in.request.tenant
          /\ tokens[i].sub # NoValue => tokens[i].sub = in.request.user
          /\ in.clock < tokens[i].exp + Leeway
          /\ tokens[i].iat \in (in.clock - e.maxAge - Leeway)
                                 .. (in.clock + Leeway)
          /\ tokens[i].nbf # NoValue => tokens[i].nbf <= in.clock + Leeway
        goodOf(e) == {i \in DOMAIN tokens : good(i, e)}
        entries == IF config.valid THEN in.providers ELSE <<>>
    IN /\ \A p \in DOMAIN verified.facts :
            \E n \in DOMAIN entries :
              /\ entries[n].id = p
              /\ \E i \in goodOf(entries[n]) :
                   /\ verified.facts[p] = tokens[i].context
                   /\ \A j \in goodOf(entries[n]) : i <= j
       /\ \A n \in DOMAIN entries :
            goodOf(entries[n]) # {} => entries[n].id \in DOMAIN verified.facts
       /\ verified.rejected + Cardinality(DOMAIN verified.facts) = Len(tokens)

\* c may grant no more than d, and is authenticated only if d is.
LessTrusted(c, d) ==
  /\ c.authenticated => d.authenticated
  /\ \/ d.permissions = NoValue \/ "*" \in d.permissions
     \/ c.permissions # NoValue /\ c.permissions \subseteq d.permissions

\* auth.py:43-56, engine.py:200-241: whatever the rules read, the same request
\* never gets a laxer decision through a caller with less trust; nor does it
\* with less confidence, unless the rules read the confidence and others of
\* them match.  One exception: an ALLOW that may not be given becomes CONFIRM,
\* while the SUGGEST of a lower confidence stays SUGGEST (with no ticket either).
LessTrustNeverLaxer ==
  FromPolicy =>
    LET with(c, q) == Evaluated(in.plugin, q, c, verified, in.signs).decision
        lower(n)   == [in.request EXCEPT !.confidence = n]
        laxer(d)   == Precedence[d] < Precedence[response.decision]
    IN /\ \A c \in Callers : LessTrusted(c, in.caller) =>
                               ~laxer(with(c, in.request))
       /\ \A n \in {in.plugin.suggestMin, 0} :
            /\ n <= in.request.confidence
            /\ MatchedBy(lower(n)) = Matched
            /\ laxer(with(in.caller, lower(n)))
            => /\ with(in.caller, lower(n)) = "SUGGEST"
               /\ ~in.caller.authenticated \/ ~in.signs

\* engine.py:72-110, 362-394: when the answer is stricter than the policy's
\* own decision, the audit record says why.
DowngradeIsFlagged ==
  FromPolicy =>
    LET triggered == EvaluateRules(in.plugin.rules,
                                   RuleData(in.request, verified))
    IN record.decision # FinalDecision(in.plugin, in.request, triggered,
                                       in.caller)
         => {"verified_context_missing", "unauthenticated_caller",
             "passport_signing_failed"} \cap record.flags # {}

=============================================================================
