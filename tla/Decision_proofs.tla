--------------------------- MODULE Decision_proofs ---------------------------
(***************************************************************************)
(* Proofs about Decision: what an answer says, for every policy, request,  *)
(* caller and provider table.                                              *)
(***************************************************************************)
EXTENDS Decision, Recursion_proofs, FiniteSetTheorems

(***************************************************************************)
(* Decisions and their precedence.                                         *)
(***************************************************************************)

LEMMA Ranks ==
  /\ Precedence["ALLOW"] = 0 /\ Precedence["SUGGEST"] = 1
  /\ Precedence["CONFIRM"] = 2 /\ Precedence["BLOCK"] = 3
  /\ \A d \in Verdicts : Precedence[d] \in Nat /\ Precedence[d] <= 3
BY DEF Precedence, Verdicts

LEMMA StrictestFound ==
  ASSUME NEW D, D \subseteq Verdicts, D # {}
  PROVE  /\ Strictest(D) \in D
         /\ \A e \in D : Precedence[e] <= Precedence[Strictest(D)]
<1>1. \E d \in D : \A e \in D : Precedence[e] <= Precedence[d]
  <2>1. CASE "BLOCK" \in D
    BY <2>1, Ranks
  <2>2. CASE "BLOCK" \notin D /\ "CONFIRM" \in D
    BY <2>2, Ranks DEF Verdicts
  <2>3. CASE "BLOCK" \notin D /\ "CONFIRM" \notin D /\ "SUGGEST" \in D
    BY <2>3, Ranks DEF Verdicts
  <2>4. CASE D = {"ALLOW"}
    BY <2>4, Ranks
  <2>5. QED
    BY <2>1, <2>2, <2>3, <2>4 DEF Verdicts
<1>2. QED
  BY <1>1 DEF Strictest

\* Which decision is the strictest, by what is among them.
LEMMA StrictestCases ==
  ASSUME NEW D, D \subseteq Verdicts, D # {}
  PROVE  /\ Strictest(D) \in Verdicts
         /\ Strictest(D) = "BLOCK" <=> "BLOCK" \in D
         /\ Strictest(D) = "ALLOW" <=> D = {"ALLOW"}
<1> DEFINE d == Strictest(D)
<1>1. d \in D /\ \A e \in D : Precedence[e] <= Precedence[d]
  BY StrictestFound
<1> HIDE DEF d
<1>2. d \in Verdicts
  BY <1>1
<1>3. "BLOCK" \in D => d = "BLOCK"
  BY <1>1, <1>2, Ranks DEF Verdicts
<1>4. ASSUME d = "ALLOW", NEW e \in D
      PROVE  e = "ALLOW"
  BY <1>1, <1>4, Ranks DEF Verdicts
<1>5. d = "ALLOW" <=> D = {"ALLOW"}
  BY <1>1, <1>4
<1>6. QED
  BY <1>1, <1>2, <1>3, <1>5 DEF d

(***************************************************************************)
(* An answer by its parts.                                                 *)
(***************************************************************************)

Triggered(plugin, q, ctx) == EvaluateRules(plugin.rules, RuleData(q, ctx))

PolicyDecision(plugin, q, caller, ctx) ==
  FinalDecision(plugin, q, Triggered(plugin, q, ctx), caller)

\* The decision after missing context was seen.
Raised(policy, missing) ==
  IF missing THEN Strictest({policy, "CONFIRM"}) ELSE policy

RaisedDecision(plugin, q, caller, ctx) ==
  Raised(PolicyDecision(plugin, q, caller, ctx), MissingContext(plugin, q, ctx) # {})

\* An ALLOW is not given to an anonymous caller, nor without a key.
Final(raised, q, caller, signs) ==
  IF raised = "ALLOW" /\ (~caller.authenticated \/ (~q.shadow /\ ~signs))
  THEN "CONFIRM" ELSE raised

\* e is the answer to q, by its parts.
IsAnswer(e, plugin, q, caller, ctx, signs) ==
  LET raised == RaisedDecision(plugin, q, caller, ctx)
  IN /\ e.decision = Final(raised, q, caller, signs)
     /\ e.payload = ActionablePayload(q, Triggered(plugin, q, ctx))
     /\ e.passport =
          IF raised = "ALLOW" /\ caller.authenticated /\ ~q.shadow /\ signs
          THEN e.payload ELSE NoValue
     /\ e.ticket =
          IF signs /\ MayBeApproved(e.decision, q, caller, e.flags)
          THEN [payload |-> e.payload,
                role |-> ApproverRole(plugin, q, Triggered(plugin, q, ctx))]
          ELSE NoValue
     /\ e.scores = Scores(plugin, q, Triggered(plugin, q, ctx))

\* What happened after the policy had decided leaves a flag.
IsFlagged(flags, plugin, q, caller, ctx, signs) ==
  LET raised == RaisedDecision(plugin, q, caller, ctx)
  IN /\ MissingContext(plugin, q, ctx) # {} => "verified_context_missing" \in flags
     /\ raised = "ALLOW" /\ ~caller.authenticated =>
          "unauthenticated_caller" \in flags
     /\ raised = "ALLOW" /\ caller.authenticated /\ ~q.shadow /\ ~signs =>
          "passport_signing_failed" \in flags

LEMMA EvaluatedParts ==
  ASSUME NEW plugin, NEW q, NEW caller, NEW ctx, NEW signs
  PROVE  IsAnswer(Evaluated(plugin, q, caller, ctx, signs),
                  plugin, q, caller, ctx, signs)
<1> DEFINE triggered == Triggered(plugin, q, ctx)
           payload == ActionablePayload(q, triggered)
           missing == MissingContext(plugin, q, ctx) # {}
           raised == RaisedDecision(plugin, q, caller, ctx)
           anonymous == raised = "ALLOW" /\ ~caller.authenticated
           live == raised = "ALLOW" /\ ~anonymous /\ ~q.shadow
           unsigned == live /\ ~signs
           final == IF anonymous \/ unsigned THEN "CONFIRM" ELSE raised
           flags == AuditFlags(plugin, q, triggered)
                      \cup RaisedFlags(ctx, missing, anonymous, unsigned)
           passport == IF live /\ signs THEN payload ELSE NoValue
           ticket == IF signs /\ MayBeApproved(final, q, caller, flags)
                     THEN [payload |-> payload, role |-> ApproverRole(plugin, q, triggered)]
                     ELSE NoValue
           scores == Scores(plugin, q, triggered)
           e == Evaluated(plugin, q, caller, ctx, signs)
<1>1. e = [decision |-> final, passport |-> passport, ticket |-> ticket,
           payload |-> payload, flags |-> flags, scores |-> scores]
  BY DEF Evaluated, Triggered, PolicyDecision, Raised, RaisedDecision
<1> HIDE DEF raised
<1>2. final = Final(raised, q, caller, signs)
  BY DEF Final
<1> HIDE DEF e, final, flags, payload, passport, ticket, scores
<1>3. /\ e.decision = final /\ e.passport = passport /\ e.ticket = ticket
      /\ e.payload = payload /\ e.flags = flags /\ e.scores = scores
  BY <1>1
<1>4. e.ticket = IF signs /\ MayBeApproved(e.decision, q, caller, e.flags)
                 THEN [payload |-> e.payload, role |-> ApproverRole(plugin, q, triggered)]
                 ELSE NoValue
  BY <1>3 DEF ticket
<1>5. e.passport = IF raised = "ALLOW" /\ caller.authenticated /\ ~q.shadow /\ signs
                   THEN e.payload ELSE NoValue
  BY <1>3 DEF passport
<1>6. /\ e.decision = Final(raised, q, caller, signs)
      /\ e.payload = ActionablePayload(q, triggered)
      /\ e.scores = Scores(plugin, q, triggered)
  BY <1>2, <1>3 DEF payload, scores
<1>7. QED
  BY <1>4, <1>5, <1>6, Zenon DEF IsAnswer, e, raised

LEMMA EvaluatedFlags ==
  ASSUME NEW plugin, NEW q, NEW caller, NEW ctx, NEW signs
  PROVE  IsFlagged(Evaluated(plugin, q, caller, ctx, signs).flags,
                   plugin, q, caller, ctx, signs)
<1> DEFINE missing == MissingContext(plugin, q, ctx) # {}
           raised == RaisedDecision(plugin, q, caller, ctx)
           anonymous == raised = "ALLOW" /\ ~caller.authenticated
           unsigned == raised = "ALLOW" /\ ~anonymous /\ ~q.shadow /\ ~signs
           flags == Evaluated(plugin, q, caller, ctx, signs).flags
<1>1. flags = AuditFlags(plugin, q, Triggered(plugin, q, ctx))
                \cup RaisedFlags(ctx, missing, anonymous, unsigned)
  BY DEF Evaluated, Triggered, PolicyDecision, Raised, RaisedDecision
<1> HIDE DEF flags, missing, raised
<1>2. /\ missing => "verified_context_missing" \in flags
      /\ anonymous => "unauthenticated_caller" \in flags
      /\ unsigned => "passport_signing_failed" \in flags
  BY <1>1 DEF RaisedFlags
<1>3. QED
  BY <1>2 DEF IsFlagged, flags, missing, raised

(***************************************************************************)
(* What the policy decides.                                                *)
(***************************************************************************)

Matching(plugin, q, ctx) ==
  {i \in DOMAIN plugin.rules :
     EvaluateGroup(plugin.rules[i].condition, RuleData(q, ctx))}

\* A list holds what its places hold.
LEMMA ListType ==
  ASSUME NEW s, IsList(s)
  PROVE  /\ s \in Seq({s[i] : i \in DOMAIN s})
         /\ Len(s) \in Nat /\ DOMAIN s = 1 .. Len(s)
BY DEF IsList

\* The rules that are triggered are those of the policy that match.
LEMMA TriggeredRules ==
  ASSUME NEW plugin \in Plugins, NEW q, NEW ctx
  PROVE  LET t == Triggered(plugin, q, ctx)
             M == Matching(plugin, q, ctx)
         IN /\ t = Picked(plugin.rules, M)
            /\ M \in SUBSET DOMAIN plugin.rules
            /\ Len(t) \in Nat /\ DOMAIN t = 1 .. Len(t)
            /\ \E pos : IsChoice(pos, t, plugin.rules, Len(plugin.rules), M)
            /\ {t[k].decision : k \in DOMAIN t} = {plugin.rules[i].decision : i \in M}
            /\ \A k \in DOMAIN t : ValidRule(t[k])
<1> DEFINE t == Triggered(plugin, q, ctx)
           M == Matching(plugin, q, ctx)
           rules == plugin.rules
           A == {rules[i] : i \in DOMAIN rules}
<1>1. t = Picked(rules, M)
  BY DEF Triggered, EvaluateRules, Matching
<1>2. M \in SUBSET DOMAIN rules
  BY DEF Matching
<1>3. IsList(rules) /\ \A i \in DOMAIN rules : ValidRule(rules[i])
  BY InputAssumption DEF ValidPlugin
<1>4. rules \in Seq(A) /\ DOMAIN rules = 1 .. Len(rules)
  BY <1>3, ListType
<1> HIDE DEF t, M, rules, A
<1>5. t \in Seq(A) /\ \E pos : IsChoice(pos, t, rules, Len(rules), M)
  BY <1>1, <1>4, PickedPlaces
<1>6. PICK pos : IsChoice(pos, t, rules, Len(rules), M)
  BY <1>5
<1>7. \A k \in DOMAIN t : pos[k] \in M /\ pos[k] \in DOMAIN rules /\ t[k] = rules[pos[k]]
  BY <1>4, <1>6 DEF IsChoice
<1>8. \A i \in M : \E k \in DOMAIN t : pos[k] = i
  BY <1>2, <1>4, <1>6 DEF IsChoice
<1>9. {t[k].decision : k \in DOMAIN t} = {rules[i].decision : i \in M}
  BY <1>7, <1>8
<1>10. \A k \in DOMAIN t : ValidRule(t[k])
  BY <1>3, <1>7
<1>11. Len(t) \in Nat /\ DOMAIN t = 1 .. Len(t)
  BY <1>5
<1>12. QED
  BY <1>1, <1>2, <1>5, <1>9, <1>10, <1>11 DEF t, M, rules

\* The reasons the policy decides on, and what it decides without any.
Grounds(plugin, q, caller, ctx) ==
  {plugin.rules[i].decision : i \in Matching(plugin, q, ctx)}
    \cup PermissionDecision(plugin, q, caller)
    \cup (IF RequiresUncertaintyConfirmation(plugin, q) THEN {"CONFIRM"} ELSE {})

ByConfidence(plugin, q) ==
  IF q.action \notin DOMAIN plugin.actions THEN "CONFIRM"
  ELSE IF q.confidence >= plugin.allowMin THEN "ALLOW"
  ELSE IF q.confidence >= plugin.suggestMin THEN "SUGGEST"
  ELSE "CONFIRM"

LEMMA PolicyDecided ==
  ASSUME NEW plugin \in Plugins, NEW q, NEW caller, NEW ctx
  PROVE  LET D == Grounds(plugin, q, caller, ctx)
             d == PolicyDecision(plugin, q, caller, ctx)
         IN /\ D \subseteq Verdicts
            /\ d = IF D # {} THEN Strictest(D) ELSE ByConfidence(plugin, q)
            /\ d \in Verdicts
<1> DEFINE t == Triggered(plugin, q, ctx)
           M == Matching(plugin, q, ctx)
           D == Grounds(plugin, q, caller, ctx)
           d == PolicyDecision(plugin, q, caller, ctx)
<1>1. {t[k].decision : k \in DOMAIN t} = {plugin.rules[i].decision : i \in M}
  BY TriggeredRules
<1>2. \A i \in M : plugin.rules[i].decision \in Verdicts
  BY InputAssumption DEF ValidPlugin, ValidRule, Matching
<1>3. PermissionDecision(plugin, q, caller) \subseteq Verdicts /\ "CONFIRM" \in Verdicts
  BY DEF PermissionDecision, Verdicts
<1>4. D \subseteq Verdicts
  BY <1>2, <1>3 DEF Grounds
<1>5. D = {t[k].decision : k \in DOMAIN t}
            \cup PermissionDecision(plugin, q, caller)
            \cup (IF RequiresUncertaintyConfirmation(plugin, q)
                  THEN {"CONFIRM"} ELSE {})
  BY <1>1 DEF Grounds
<1>6. d = FinalDecision(plugin, q, t, caller)
  BY DEF PolicyDecision
<1> HIDE DEF t, M, D, d
<1>7. d = IF D # {} THEN Strictest(D) ELSE ByConfidence(plugin, q)
  BY <1>5, <1>6 DEF FinalDecision, ByConfidence
<1>8. ByConfidence(plugin, q) \in Verdicts
  BY DEF ByConfidence, Verdicts
<1>9. d \in Verdicts
  BY <1>4, <1>7, <1>8, StrictestCases
<1>10. QED
  BY <1>4, <1>7, <1>9 DEF D, d

\* What missing context does to a decision.
LEMMA RaisedCases ==
  ASSUME NEW d \in Verdicts, NEW missing \in BOOLEAN
  PROVE  /\ Raised(d, missing) \in Verdicts
         /\ Raised(d, missing) = "BLOCK" <=> d = "BLOCK"
         /\ Raised(d, missing) = "ALLOW" <=> d = "ALLOW" /\ ~missing
         /\ missing => Raised(d, missing) \in {"CONFIRM", "BLOCK"}
<1>1. CASE ~missing
  BY <1>1 DEF Raised
<1>2. CASE missing
  <2> DEFINE D == {d, "CONFIRM"}
             s == Strictest(D)
  <2>1. D \subseteq Verdicts /\ D # {} /\ "CONFIRM" \in D
    BY DEF Verdicts
  <2>2. D # {"ALLOW"} /\ ("BLOCK" \in D <=> d = "BLOCK")
    OBVIOUS
  <2>3. s \in D /\ s \in Verdicts /\ (s = "BLOCK" <=> "BLOCK" \in D) /\ s # "ALLOW"
        /\ Precedence["CONFIRM"] <= Precedence[s]
    <3> HIDE DEF D
    <3>1. QED
      BY <2>1, <2>2, StrictestCases, StrictestFound
  <2>4. s \in {"CONFIRM", "BLOCK"}
    <3> HIDE DEF s
    <3>1. QED
      BY <2>3, Ranks DEF Verdicts
  <2>5. Raised(d, missing) = s
    BY <1>2 DEF Raised
  <2> HIDE DEF s
  <2>6. QED
    BY <1>2, <2>2, <2>3, <2>4, <2>5
<1>3. QED
  BY <1>1, <1>2

(***************************************************************************)
(* The state.                                                              *)
(***************************************************************************)

InputOK ==
  /\ in.request \in Requests /\ in.plugin \in Plugins /\ in.caller \in Callers
  /\ in.providers \in Providers /\ in.clock \in Clocks /\ in.signs \in BOOLEAN

ContextOf(x) ==
  VerifySignedContext(x.request.tokens, LoadProviders(x.providers),
                      x.request.tenant, x.request.user, x.clock)

\* An answer is the one for a policy that could not be loaded, or the
\* evaluation of the input with the context that was verified for it.
StateInv ==
  /\ pc \in {"idle", "received", "loaded", "verified", "answered"}
  /\ pc # "idle" => InputOK
  /\ pc \in {"idle", "received", "loaded"} => verified = Nothing
  /\ pc = "verified" => verified = ContextOf(in)
  /\ pc = "answered" =>
       /\ \/ verified = Nothing /\ response = FailSafe(in.request)
          \/ /\ verified = ContextOf(in)
             /\ response = Evaluated(in.plugin, in.request, in.caller, verified,
                                     in.signs)
       /\ record = GetExecutionRecord(in.request, response)

LEMMA StateInvariant == Spec => []StateInv
<1>1. Init => StateInv
  BY DEF Init, StateInv
<1>2. StateInv /\ [Next]_vars => StateInv'
  <2> SUFFICES ASSUME StateInv, [Next]_vars
               PROVE  StateInv'
    OBVIOUS
  <2>1. CASE Receive
    <3>1. InputOK' /\ pc' = "received" /\ verified' = verified /\ pc = "idle"
      BY <2>1 DEF Receive, InputOK
    <3>2. QED
      BY <3>1 DEF StateInv
  <2>2. CASE LoadFails
    BY <2>2 DEF LoadFails, Respond, StateInv, InputOK
  <2>3. CASE LoadPlugin
    BY <2>3 DEF LoadPlugin, StateInv, InputOK
  <2>4. CASE VerifyContext
    BY <2>4 DEF VerifyContext, StateInv, InputOK, ContextOf
  <2>5. CASE Evaluate
    BY <2>5 DEF Evaluate, Respond, StateInv, InputOK, ContextOf
  <2>6. CASE EvaluateRaises \/ Finish
    BY <2>6 DEF EvaluateRaises, Finish, Forget, StateInv
  <2>7. CASE UNCHANGED vars
    BY <2>7 DEF vars, StateInv, InputOK, ContextOf
  <2>8. QED
    BY <2>1, <2>2, <2>3, <2>4, <2>5, <2>6, <2>7 DEF Next
<1>3. QED
  BY <1>1, <1>2, PTL DEF Spec

(***************************************************************************)
(* The decision.                                                           *)
(***************************************************************************)

\* A gated write on a guess is held by the uncertainty gate.
LEMMA GuessIsGated ==
  ASSUME NEW plugin \in Plugins, NEW q, IsGatedWrite(plugin, q),
         \/ ~q.intent.given /\ q.source \in plugin.gate.sources
         \/ q.intent.original = "unknown" /\ plugin.gate.threshold <= 16
  PROVE  RequiresUncertaintyConfirmation(plugin, q)
<1> DEFINE unknown == IF q.intent.original = "unknown" THEN 16 ELSE 0
           fallback == IF q.intent.fallback THEN 4 ELSE 0
           uncertain == IF IsUncertainSource(plugin, q) THEN 2 ELSE 0
           score == unknown + fallback + uncertain
           th == plugin.gate.threshold
           raise == /\ IsGatedWrite(plugin, q) /\ IsUncertainSource(plugin, q)
                    /\ ~q.intent.given /\ th > score
           x == IF raise THEN th ELSE score
<1>1. th \in Int /\ 0 <= th /\ th <= 20
  BY InputAssumption DEF ValidPlugin, Score
<1>2. UncertaintyScore(plugin, q) = Clamp(x)
  BY DEF UncertaintyScore
<1>3. unknown \in {0, 16} /\ fallback \in {0, 4} /\ uncertain \in {0, 2}
  OBVIOUS
<1>4. q.intent.original = "unknown" => unknown = 16
  OBVIOUS
<1> HIDE DEF unknown, fallback, uncertain, th
<1>5. score \in Int /\ 0 <= score /\ (q.intent.original = "unknown" => 16 <= score)
  BY <1>3, <1>4
<1>6. ~q.intent.given /\ q.source \in plugin.gate.sources => (raise <=> th > score)
  BY DEF IsUncertainSource
<1> HIDE DEF score
<1>7. x \in Int /\ th <= x
  <2>1. CASE ~q.intent.given /\ q.source \in plugin.gate.sources
    BY <1>1, <1>5, <1>6, <2>1
  <2>2. CASE q.intent.original = "unknown" /\ th <= 16
    BY <1>1, <1>5, <2>2
  <2>3. QED
    BY <2>1, <2>2 DEF th
<1> HIDE DEF x
<1>8. Clamp(x) >= th
  BY <1>1, <1>7 DEF Clamp
<1>9. QED
  BY <1>2, <1>8 DEF RequiresUncertaintyConfirmation, th

\* BLOCK is among the reasons exactly when a permission is missing.
LEMMA PermissionMissing ==
  (in.plugin \in Plugins) =>
    /\ PermissionDecision(in.plugin, in.request, in.caller) \in {{}, {"BLOCK"}}
    /\ Permitted <=> PermissionDecision(in.plugin, in.request, in.caller) = {}
<1>1. PermissionDecision(in.plugin, in.request, in.caller) \in {{}, {"BLOCK"}}
  BY DEF PermissionDecision
<1>2. Permitted <=> PermissionDecision(in.plugin, in.request, in.caller) = {}
  BY DEF Permitted, PermissionDecision, EffectivePermissions, Declared, Policy
<1>3. QED
  BY <1>1, <1>2

\* ALLOW and BLOCK, from the grounds of the policy's decision.
LEMMA EarnedNow == StateInv => DecisionIsEarned
<1> SUFFICES ASSUME StateInv, FromPolicy
             PROVE  /\ response.decision = "ALLOW" =>
                         /\ in.caller.authenticated
                         /\ Permitted
                         /\ \A i \in Matched : in.plugin.rules[i].decision = "ALLOW"
                         /\ Declared => Policy.context \subseteq DOMAIN verified.facts
                         /\ ~Guessed
                         /\ Matched = {} =>
                              Declared /\ in.request.confidence >= in.plugin.allowMin
                    /\ response.decision = "BLOCK" <=>
                         \/ ~Permitted
                         \/ \E i \in Matched : in.plugin.rules[i].decision = "BLOCK"
  BY DEF DecisionIsEarned
<1> DEFINE D == Grounds(in.plugin, in.request, in.caller, verified)
           policy == PolicyDecision(in.plugin, in.request, in.caller, verified)
           missing == MissingContext(in.plugin, in.request, verified) # {}
           raised == RaisedDecision(in.plugin, in.request, in.caller, verified)
           P == PermissionDecision(in.plugin, in.request, in.caller)
           gate == RequiresUncertaintyConfirmation(in.plugin, in.request)
<1>1. /\ in.plugin \in Plugins
      /\ response = Evaluated(in.plugin, in.request, in.caller, verified, in.signs)
  BY DEF StateInv, InputOK, FromPolicy, Answered
<1>2. response.decision = Final(raised, in.request, in.caller, in.signs)
  <2>1. IsAnswer(response, in.plugin, in.request, in.caller, verified, in.signs)
    BY <1>1, EvaluatedParts
  <2>2. QED
    BY <2>1 DEF IsAnswer
<1>3. /\ D \subseteq Verdicts /\ policy \in Verdicts
      /\ policy = IF D # {} THEN Strictest(D) ELSE ByConfidence(in.plugin, in.request)
  BY <1>1, PolicyDecided
<1>4. P \in {{}, {"BLOCK"}} /\ (Permitted <=> P = {})
  BY <1>1, PermissionMissing
<1>5. D = {in.plugin.rules[i].decision : i \in Matched} \cup P
            \cup (IF gate THEN {"CONFIRM"} ELSE {})
  BY DEF Grounds, Matched, MatchedBy, Matching
<1>6. Guessed => gate
  BY <1>1, GuessIsGated DEF Guessed
<1>7. ~missing => (Declared => Policy.context \subseteq DOMAIN verified.facts)
  BY DEF MissingContext, Declared, Policy
<1>8. ByConfidence(in.plugin, in.request) # "BLOCK"
  BY DEF ByConfidence
<1>9. ByConfidence(in.plugin, in.request) = "ALLOW" =>
        Declared /\ in.request.confidence >= in.plugin.allowMin
  BY DEF ByConfidence, Declared
<1>10. raised = Raised(policy, missing)
  BY DEF RaisedDecision
<1> HIDE DEF D, policy, missing, P, gate
<1>11. /\ raised \in Verdicts
       /\ raised = "BLOCK" <=> policy = "BLOCK"
       /\ raised = "ALLOW" <=> policy = "ALLOW" /\ ~missing
  <2>1. missing \in BOOLEAN
    BY DEF missing
  <2>2. QED
    BY <1>3, <1>10, <2>1, RaisedCases
<1> HIDE DEF raised
<1>12. response.decision = "BLOCK" <=> policy = "BLOCK"
  BY <1>2, <1>11 DEF Final
<1>13. response.decision = "ALLOW" => policy = "ALLOW" /\ ~missing
                                      /\ in.caller.authenticated
  BY <1>2, <1>11 DEF Final
<1>14. policy = "BLOCK" <=> "BLOCK" \in D
  BY <1>3, <1>8, StrictestCases
<1>15. policy = "ALLOW" => D \subseteq {"ALLOW"}
                           /\ (D = {} => ByConfidence(in.plugin, in.request) = "ALLOW")
  BY <1>3, StrictestCases
<1>16. "BLOCK" \in D <=> \/ ~Permitted
                         \/ \E i \in Matched : in.plugin.rules[i].decision = "BLOCK"
  BY <1>4, <1>5
<1>17. ASSUME D \subseteq {"ALLOW"}
       PROVE  /\ Permitted /\ ~gate
              /\ \A i \in Matched : in.plugin.rules[i].decision = "ALLOW"
              /\ Matched = {} => D = {}
  BY <1>4, <1>5, <1>17
<1>18. QED
  BY <1>6, <1>7, <1>9, <1>12, <1>13, <1>14, <1>15, <1>16, <1>17

-----------------------------------------------------------------------------
(* What comes with the decision.                                           *)

\* ALLOW is given only if nothing speaks against it, and BLOCK exactly when
\* a rule or a missing permission blocks (engine.py: DecisionEngine._evaluate).
THEOREM Earned == Spec => []DecisionIsEarned
BY EarnedNow, StateInvariant, PTL

\* The answer is that of the policy.
ByPolicy ==
  /\ Answered
  /\ response = Evaluated(in.plugin, in.request, in.caller, verified, in.signs)

LEMMA FromPolicyAnswer == StateInv /\ FromPolicy => ByPolicy
BY DEF StateInv, FromPolicy, Answered, ByPolicy

\* The facts about an answer of the policy that the theorems below share.
LEMMA AnswerParts ==
  ASSUME StateInv, ByPolicy
  PROVE  /\ in.plugin \in Plugins /\ in.request \in Requests
         /\ IsAnswer(response, in.plugin, in.request, in.caller, verified, in.signs)
         /\ IsFlagged(response.flags, in.plugin, in.request, in.caller, verified,
                      in.signs)
         /\ RaisedDecision(in.plugin, in.request, in.caller, verified) \in Verdicts
         /\ response.decision \in Verdicts
         /\ record = GetExecutionRecord(in.request, response)
<1> DEFINE policy == PolicyDecision(in.plugin, in.request, in.caller, verified)
           missing == MissingContext(in.plugin, in.request, verified) # {}
           raised == RaisedDecision(in.plugin, in.request, in.caller, verified)
<1>1. /\ in.plugin \in Plugins /\ in.request \in Requests
      /\ response = Evaluated(in.plugin, in.request, in.caller, verified, in.signs)
      /\ record = GetExecutionRecord(in.request, response)
  BY DEF StateInv, InputOK, ByPolicy, Answered
<1>2. /\ IsAnswer(response, in.plugin, in.request, in.caller, verified, in.signs)
      /\ IsFlagged(response.flags, in.plugin, in.request, in.caller, verified,
                   in.signs)
  BY <1>1, EvaluatedParts, EvaluatedFlags
<1>3. policy \in Verdicts
  BY <1>1, PolicyDecided
<1>4. missing \in BOOLEAN /\ raised = Raised(policy, missing)
  BY DEF RaisedDecision
<1> HIDE DEF policy, missing, raised
<1>5. raised \in Verdicts
  BY <1>3, <1>4, RaisedCases
<1>6. response.decision = Final(raised, in.request, in.caller, in.signs)
  BY <1>2 DEF IsAnswer, raised
<1>7. response.decision \in Verdicts
  BY <1>5, <1>6 DEF Final, Verdicts
<1>8. QED
  BY <1>1, <1>2, <1>5, <1>7 DEF raised

\* Each way in which an answer departs from the policy's decision sets a flag.
LEMMA DowngradeNow == StateInv => DowngradeIsFlagged
<1> SUFFICES ASSUME StateInv, FromPolicy,
                    record.decision # FinalDecision(in.plugin, in.request,
                                        EvaluateRules(in.plugin.rules,
                                          RuleData(in.request, verified)),
                                        in.caller)
             PROVE  {"verified_context_missing", "unauthenticated_caller",
                     "passport_signing_failed"} \cap record.flags # {}
  BY DEF DowngradeIsFlagged
<1> DEFINE policy == PolicyDecision(in.plugin, in.request, in.caller, verified)
           raised == RaisedDecision(in.plugin, in.request, in.caller, verified)
<1>1. record.decision # policy
  BY DEF PolicyDecision, Triggered
<1>2. record.decision = response.decision /\ record.flags = response.flags
  BY FromPolicyAnswer, AnswerParts DEF GetExecutionRecord
<1>3. response.decision = Final(raised, in.request, in.caller, in.signs)
  BY FromPolicyAnswer, AnswerParts DEF IsAnswer
<1>4. MissingContext(in.plugin, in.request, verified) # {} \/ raised = policy
  BY DEF RaisedDecision, Raised
<1>5. IsFlagged(response.flags, in.plugin, in.request, in.caller, verified, in.signs)
  BY FromPolicyAnswer, AnswerParts
<1> HIDE DEF policy
<1>6. CASE MissingContext(in.plugin, in.request, verified) # {}
  BY <1>2, <1>5, <1>6 DEF IsFlagged
<1>7. CASE raised = policy
  <2>1. /\ raised = "ALLOW"
        /\ ~in.caller.authenticated \/ (~in.request.shadow /\ ~in.signs)
    BY <1>1, <1>2, <1>3, <1>7 DEF Final
  <2>2. QED
    BY <1>2, <1>5, <2>1 DEF IsFlagged
<1>8. QED
  BY <1>4, <1>6, <1>7

\* When the answer is stricter than the policy's own decision, the audit
\* record says why (engine.py: get_execution_record).
THEOREM Downgrade == Spec => []DowngradeIsFlagged
BY DowngradeNow, StateInvariant, PTL

\* The absent value is neither the Passport nor the ticket of an answer.
LEMMA SomeValue ==
  ASSUME NEW plugin \in Plugins, NEW q \in Requests, NEW ctx
  PROVE  LET triggered == Triggered(plugin, q, ctx)
             payload == ActionablePayload(q, triggered)
         IN /\ NoValue # payload
            /\ NoValue # [payload |-> payload, role |-> ApproverRole(plugin, q, triggered)]
<1>1. /\ Triggered(plugin, q, ctx) = Picked(plugin.rules, Matching(plugin, q, ctx))
      /\ Matching(plugin, q, ctx) \in SUBSET DOMAIN plugin.rules
  BY TriggeredRules
<1>2. QED
  BY <1>1, NoValueAssumption

\* An authenticated caller outside shadow mode can always go on, and nobody
\* else gets a Passport or a ticket (engine.py: _evaluate).
THEOREM Forward == Spec => []WayForward
<1> DEFINE live == in.caller.authenticated /\ ~in.request.shadow
           broken == \/ ~in.signs
                     \/ {"plugin_load_failed", "passport_signing_failed"}
                          \cap response.flags # {}
           goal == /\ response.passport # NoValue => live /\ response.decision = "ALLOW"
                   /\ response.ticket # NoValue =>
                        live /\ response.decision \in {"CONFIRM", "SUGGEST"}
                   /\ live /\ response.decision = "ALLOW" => response.passport # NoValue
                   /\ live /\ response.decision \in {"CONFIRM", "SUGGEST"} /\ ~broken =>
                        response.ticket # NoValue
<1>1. ASSUME StateInv, Answered, verified = Nothing, response = FailSafe(in.request)
      PROVE  goal
  BY <1>1 DEF FailSafe
<1>2. ASSUME StateInv, ByPolicy
      PROVE  goal
  <2> DEFINE raised == RaisedDecision(in.plugin, in.request, in.caller, verified)
  <2>1. /\ in.plugin \in Plugins /\ in.request \in Requests
        /\ IsAnswer(response, in.plugin, in.request, in.caller, verified, in.signs)
    BY <1>2, AnswerParts
  <2>2. /\ response.decision = Final(raised, in.request, in.caller, in.signs)
        /\ response.passport =
             IF raised = "ALLOW" /\ live /\ in.signs THEN response.payload ELSE NoValue
        /\ response.ticket # NoValue =>
             in.signs /\ MayBeApproved(response.decision, in.request, in.caller,
                                       response.flags)
    BY <2>1 DEF IsAnswer
  <2>3. /\ response.payload # NoValue
        /\ in.signs /\ MayBeApproved(response.decision, in.request, in.caller,
                                     response.flags) => response.ticket # NoValue
    <3>1. NoValue # ActionablePayload(in.request,
                       Triggered(in.plugin, in.request, verified))
      BY <2>1, SomeValue
    <3>2. NoValue # [payload |-> ActionablePayload(in.request,
                                   Triggered(in.plugin, in.request, verified)),
                     role |-> ApproverRole(in.plugin, in.request,
                                Triggered(in.plugin, in.request, verified))]
      BY <2>1, SomeValue
    <3>3. QED
      BY <2>1, <3>1, <3>2 DEF IsAnswer
  <2> HIDE DEF raised
  <2>4. response.decision = "ALLOW" => raised = "ALLOW"
    BY <2>2 DEF Final
  <2>5. response.passport # NoValue => live /\ response.decision = "ALLOW"
    BY <2>2 DEF Final
  <2>6. response.ticket # NoValue =>
          live /\ response.decision \in {"CONFIRM", "SUGGEST"}
    BY <2>2 DEF MayBeApproved
  <2>7. live /\ response.decision = "ALLOW" => response.passport # NoValue
    BY <2>2, <2>3 DEF Final
  <2>8. live /\ response.decision \in {"CONFIRM", "SUGGEST"} /\ ~broken =>
          response.ticket # NoValue
    BY <2>3 DEF MayBeApproved
  <2>9. QED
    BY <2>5, <2>6, <2>7, <2>8
<1>3. StateInv /\ Answered =>
        ByPolicy \/ (verified = Nothing /\ response = FailSafe(in.request))
  BY DEF StateInv, Answered, ByPolicy
<1>4. StateInv => WayForward
  <2>1. StateInv /\ Answered => goal
    BY <1>1, <1>2, <1>3
  <2>2. QED
    BY <2>1 DEF WayForward
<1>5. QED
  BY <1>4, StateInvariant, PTL

-----------------------------------------------------------------------------
(* The scores.                                                             *)

LEMMA ClampRange == \A x \in Int : Clamp(x) \in 0 .. 20
BY DEF Clamp

LEMMA TotalType ==
  ASSUME NEW n \in Nat, NEW f \in [1 .. n -> Int]
  PROVE  Total(f) \in Int
<1>1. f \in Seq(Int) /\ Len(f) \in Nat
  OBVIOUS
<1>2. Len(f) \in 0 .. Len(f)
  BY <1>1
<1>3. QED
  BY <1>1, <1>2, SumsDefined DEF Total

LEMMA UncertaintyRange ==
  ASSUME NEW plugin \in Plugins, NEW q
  PROVE  UncertaintyScore(plugin, q) \in 0 .. 20
<1> DEFINE unknown == IF q.intent.original = "unknown" THEN 16 ELSE 0
           fallback == IF q.intent.fallback THEN 4 ELSE 0
           uncertain == IF IsUncertainSource(plugin, q) THEN 2 ELSE 0
           score == unknown + fallback + uncertain
           x == IF /\ IsGatedWrite(plugin, q) /\ IsUncertainSource(plugin, q)
                   /\ ~q.intent.given /\ plugin.gate.threshold > score
                THEN plugin.gate.threshold ELSE score
<1>1. plugin.gate.threshold \in Int
  BY InputAssumption DEF ValidPlugin, Score
<1>2. UncertaintyScore(plugin, q) = Clamp(x)
  BY DEF UncertaintyScore
<1>3. unknown \in Int /\ fallback \in Int /\ uncertain \in Int
  OBVIOUS
<1> HIDE DEF unknown, fallback, uncertain
<1>4. score \in Int
  BY <1>3
<1> HIDE DEF score
<1>5. x \in Int
  BY <1>1, <1>4
<1> HIDE DEF x
<1>6. QED
  BY <1>2, <1>5, ClampRange

LEMMA ScoresRange ==
  ASSUME NEW plugin \in Plugins, NEW q \in Requests, NEW ctx
  PROVE  LET s == Scores(plugin, q, Triggered(plugin, q, ctx))
         IN /\ s.level \in {"low", "medium", "high"}
            /\ s.risk \in 0 .. 20 /\ s.confidence \in 0 .. 20
            /\ s.uncertainty \in 0 .. 20
<1> DEFINE t == Triggered(plugin, q, ctx)
           penalty(rule) == IF rule.penalty = 0 THEN DefaultPenalty[rule.decision]
                            ELSE rule.penalty
           base == IF q.action \in DOMAIN plugin.actions
                   THEN plugin.actions[q.action].baseRisk ELSE plugin.highRisk
           deltas == [i \in DOMAIN t |-> t[i].riskDelta]
           penalties == [i \in DOMAIN t |-> penalty(t[i])]
           risk == Clamp(base + Total(deltas))
           confidence == Clamp(q.confidence - Total(penalties))
           level == IF risk >= plugin.highRisk THEN "high"
                    ELSE IF risk >= 8 THEN "medium" ELSE "low"
           uncertainty == UncertaintyScore(plugin, q)
           s == Scores(plugin, q, t)
<1>1. s = [confidence |-> confidence, risk |-> risk, level |-> level,
           uncertainty |-> uncertainty]
  BY DEF Scores
<1>2. /\ Len(t) \in Nat /\ DOMAIN t = 1 .. Len(t)
      /\ \A k \in DOMAIN t : ValidRule(t[k])
  BY TriggeredRules
<1>3. base \in Int /\ q.confidence \in Int
  <2>1. ValidPlugin(plugin) /\ ValidRequest(q)
    BY InputAssumption
  <2>2. q.confidence \in Int
    BY <2>1 DEF ValidRequest, Score
  <2>3. /\ plugin.highRisk \in Int
        /\ \A a \in DOMAIN plugin.actions : plugin.actions[a].baseRisk \in Int
    BY <2>1 DEF ValidPlugin, Score
  <2>4. base \in Int
    BY <2>3
  <2>5. QED
    BY <2>2, <2>4
<1> HIDE DEF t, base
<1>4. \A k \in DOMAIN t : /\ t[k].riskDelta \in Int /\ t[k].penalty \in Int
                          /\ t[k].decision \in Verdicts
  <2>1. ASSUME NEW rule, ValidRule(rule)
        PROVE  rule.riskDelta \in Int /\ rule.penalty \in Int /\ rule.decision \in Verdicts
    BY <2>1 DEF ValidRule, Score
  <2>2. QED
    BY <1>2, <2>1
<1>5. \A d \in Verdicts : DefaultPenalty[d] \in Int
  BY DEF DefaultPenalty, Verdicts
<1>6. deltas \in [1 .. Len(t) -> Int] /\ penalties \in [1 .. Len(t) -> Int]
  BY <1>2, <1>4, <1>5
<1> HIDE DEF deltas, penalties
<1>7. Total(deltas) \in Int /\ Total(penalties) \in Int
  BY <1>2, <1>6, TotalType
<1>8. risk \in 0 .. 20 /\ confidence \in 0 .. 20
  BY <1>3, <1>7, ClampRange
<1>9. uncertainty \in 0 .. 20
  BY UncertaintyRange
<1>10. level \in {"low", "medium", "high"}
  OBVIOUS
<1> HIDE DEF risk, confidence, uncertainty, level, s
<1>11. QED
  BY <1>1, <1>8, <1>9, <1>10 DEF s, t

\* Decisions are known, scores stay in their range, and an answer carries a
\* Passport or a ticket but not both, bound to the payload it returns.
THEOREM TypeCorrect == Spec => []TypeOK
<1> DEFINE goal == /\ response.decision \in Verdicts
                   /\ response.passport \in {NoValue, response.payload}
                   /\ response.passport = NoValue \/ response.ticket = NoValue
                   /\ response.scores.level \in {"low", "medium", "high"}
                   /\ {response.scores.risk, response.scores.confidence,
                       response.scores.uncertainty} \subseteq 0 .. 20
<1>1. ASSUME response = FailSafe(in.request)
      PROVE  goal
  BY <1>1 DEF FailSafe, Verdicts
<1>2. ASSUME StateInv, ByPolicy
      PROVE  goal
  <2> DEFINE raised == RaisedDecision(in.plugin, in.request, in.caller, verified)
  <2>1. /\ in.plugin \in Plugins /\ in.request \in Requests
        /\ IsAnswer(response, in.plugin, in.request, in.caller, verified, in.signs)
        /\ response.decision \in Verdicts
    BY <1>2, AnswerParts
  <2>2. /\ response.decision = Final(raised, in.request, in.caller, in.signs)
        /\ response.passport \in {NoValue, response.payload}
        /\ response.passport # NoValue =>
             raised = "ALLOW" /\ in.caller.authenticated /\ in.signs
        /\ response.ticket # NoValue =>
             MayBeApproved(response.decision, in.request, in.caller, response.flags)
        /\ response.scores = Scores(in.plugin, in.request,
                                    Triggered(in.plugin, in.request, verified))
    BY <2>1 DEF IsAnswer
  <2> HIDE DEF raised
  <2>3. response.passport = NoValue \/ response.ticket = NoValue
    BY <2>2 DEF Final, MayBeApproved
  <2>4. /\ response.scores.level \in {"low", "medium", "high"}
        /\ response.scores.risk \in 0 .. 20 /\ response.scores.confidence \in 0 .. 20
        /\ response.scores.uncertainty \in 0 .. 20
    BY <2>1, <2>2, ScoresRange
  <2>5. QED
    BY <2>1, <2>2, <2>3, <2>4
<1>3. StateInv /\ Answered => ByPolicy \/ response = FailSafe(in.request)
  BY DEF StateInv, Answered, ByPolicy
<1>4. StateInv => TypeOK
  <2>1. StateInv /\ Answered => goal
    BY <1>1, <1>2, <1>3
  <2>2. QED
    BY <2>1 DEF TypeOK, StateInv
<1>5. QED
  BY <1>4, StateInvariant, PTL

(***************************************************************************)
(* Less trust and less confidence.                                         *)
(***************************************************************************)

\* r asks the same as q, perhaps with another confidence.
Twin(q, r) ==
  /\ r.action = q.action /\ r.permissions = q.permissions /\ r.source = q.source
  /\ r.payload = q.payload /\ r.context = q.context /\ r.intent = q.intent
  /\ r.shadow = q.shadow

LEMMA TwinRequest ==
  ASSUME NEW q \in Requests, NEW n
  PROVE  Twin(q, [q EXCEPT !.confidence = n]) /\ [q EXCEPT !.confidence = n].confidence = n
<1>1. DOMAIN q = {"action", "permissions", "source", "payload", "context",
                  "confidence", "intent", "shadow", "tokens", "tenant", "user",
                  "others"}
  BY InputAssumption DEF ValidRequest
<1>2. QED
  BY <1>1 DEF Twin

\* Only the rules may see the confidence among the grounds of a decision.
LEMMA TwinGrounds ==
  ASSUME NEW plugin, NEW caller, NEW ctx, NEW q, NEW r, Twin(q, r),
         Matching(plugin, r, ctx) = Matching(plugin, q, ctx)
  PROVE  /\ Grounds(plugin, r, caller, ctx) = Grounds(plugin, q, caller, ctx)
         /\ MissingContext(plugin, r, ctx) = MissingContext(plugin, q, ctx)
<1>1. PermissionDecision(plugin, r, caller) = PermissionDecision(plugin, q, caller)
  BY DEF PermissionDecision, Twin
<1>2. ProposedAction(r) = ProposedAction(q)
  BY DEF ProposedAction, Twin
<1>3. IsGatedWrite(plugin, r) <=> IsGatedWrite(plugin, q)
  BY <1>2 DEF IsGatedWrite, Twin
<1>4. UncertaintyScore(plugin, r) = UncertaintyScore(plugin, q)
  BY <1>3 DEF UncertaintyScore, IsUncertainSource, Twin
<1>5. RequiresUncertaintyConfirmation(plugin, r)
        <=> RequiresUncertaintyConfirmation(plugin, q)
  BY <1>3, <1>4 DEF RequiresUncertaintyConfirmation
<1>6. MissingContext(plugin, r, ctx) = MissingContext(plugin, q, ctx)
  BY DEF MissingContext, Twin
<1>7. QED
  BY <1>1, <1>5, <1>6 DEF Grounds

\* A caller that may grant less lacks every permission its better lacks.
LEMMA LessGranted ==
  ASSUME NEW plugin, NEW q, NEW c, NEW d, LessTrusted(c, d)
  PROVE  /\ PermissionDecision(plugin, q, d) \subseteq PermissionDecision(plugin, q, c)
         /\ PermissionDecision(plugin, q, c) \in {{}, {"BLOCK"}}
BY DEF LessTrusted, PermissionDecision, EffectivePermissions

\* The policy's own decision, with less trust: the same or BLOCK.
LEMMA LessTrustPolicy ==
  ASSUME NEW plugin \in Plugins, NEW q, NEW ctx,
         NEW c, NEW d, LessTrusted(c, d)
  PROVE  PolicyDecision(plugin, q, c, ctx)
           \in {PolicyDecision(plugin, q, d, ctx), "BLOCK"}
<1> DEFINE C == Grounds(plugin, q, c, ctx)
           D == Grounds(plugin, q, d, ctx)
<1>1. D \subseteq C /\ (C = D \/ "BLOCK" \in C)
  BY LessGranted DEF Grounds
<1>2. /\ C \subseteq Verdicts
      /\ PolicyDecision(plugin, q, c, ctx)
           = IF C # {} THEN Strictest(C) ELSE ByConfidence(plugin, q)
  BY PolicyDecided
<1>3. PolicyDecision(plugin, q, d, ctx)
        = IF D # {} THEN Strictest(D) ELSE ByConfidence(plugin, q)
  BY PolicyDecided
<1> HIDE DEF C, D
<1>4. QED
  BY <1>1, <1>2, <1>3, StrictestCases

\* The policy's own decision, with less confidence.
LEMMA LessConfidentPolicy ==
  ASSUME NEW plugin \in Plugins, NEW q \in Requests, NEW ctx, NEW c,
         NEW r, Twin(q, r), r.confidence \in Int, r.confidence <= q.confidence,
         Matching(plugin, r, ctx) = Matching(plugin, q, ctx)
  PROVE  LET a == PolicyDecision(plugin, q, c, ctx)
             b == PolicyDecision(plugin, r, c, ctx)
         IN a = b \/ (a \in {"ALLOW", "SUGGEST"} /\ b \in {"SUGGEST", "CONFIRM"})
<1> DEFINE D == Grounds(plugin, q, c, ctx)
           a == PolicyDecision(plugin, q, c, ctx)
           b == PolicyDecision(plugin, r, c, ctx)
           x == ByConfidence(plugin, q)
           y == ByConfidence(plugin, r)
<1>1. Grounds(plugin, r, c, ctx) = D
  BY TwinGrounds
<1>2. a = IF D # {} THEN Strictest(D) ELSE x
  BY PolicyDecided
<1>3. b = IF D # {} THEN Strictest(D) ELSE y
  BY <1>1, PolicyDecided
<1>4. q.confidence \in Int /\ plugin.allowMin \in Int /\ plugin.suggestMin \in Int
  <2>1. ValidPlugin(plugin) /\ ValidRequest(q)
    BY InputAssumption
  <2>2. q.confidence \in Score
    BY <2>1, Zenon DEF ValidRequest
  <2>3. plugin.allowMin \in Score /\ plugin.suggestMin \in Score
    BY <2>1 DEF ValidPlugin
  <2>4. QED
    BY <2>2, <2>3 DEF Score
<1>5. x = y \/ (x \in {"ALLOW", "SUGGEST"} /\ y \in {"SUGGEST", "CONFIRM"})
  BY <1>4 DEF ByConfidence, Twin
<1> HIDE DEF D, a, b, x, y
<1>6. QED
  BY <1>2, <1>3, <1>5 DEF a, b

\* Fewer permissions only add grounds, and a lower confidence lowers no verdict.
LEMMA LaxerNow == StateInv => LessTrustNeverLaxer
<1> SUFFICES ASSUME StateInv, FromPolicy
             PROVE  LessTrustNeverLaxer
  BY DEF LessTrustNeverLaxer
<1> DEFINE q == in.request
           low(n) == [q EXCEPT !.confidence = n]
           with(c, r) == Evaluated(in.plugin, r, c, verified, in.signs).decision
           policy(c, r) == PolicyDecision(in.plugin, r, c, verified)
           raised(c, r) == RaisedDecision(in.plugin, r, c, verified)
           missing == MissingContext(in.plugin, q, verified) # {}
           policyNow == PolicyDecision(in.plugin, q, in.caller, verified)
           raisedNow == RaisedDecision(in.plugin, q, in.caller, verified)
           laxer(e) == Precedence[e] < Precedence[response.decision]
<1>1. /\ in.plugin \in Plugins /\ q \in Requests
      /\ response.decision = Final(raisedNow, q, in.caller, in.signs)
  BY FromPolicyAnswer, AnswerParts DEF IsAnswer
<1>2. \A n : Twin(q, low(n)) /\ low(n).confidence = n
  BY <1>1, TwinRequest
<1> HIDE DEF low
<1>3. missing \in BOOLEAN /\ raisedNow = Raised(policyNow, missing)
  BY DEF RaisedDecision
<1>4. policyNow \in Verdicts
  BY <1>1, PolicyDecided
<1>5. ASSUME NEW c, NEW r
      PROVE  with(c, r) = Final(raised(c, r), r, c, in.signs)
  <2>1. IsAnswer(Evaluated(in.plugin, r, c, verified, in.signs),
                 in.plugin, r, c, verified, in.signs)
    BY EvaluatedParts
  <2>2. QED
    BY <2>1 DEF IsAnswer
<1>6. ASSUME NEW c \in Callers, LessTrusted(c, in.caller)
      PROVE  ~laxer(with(c, q))
  <2>1. policy(c, q) \in {policyNow, "BLOCK"}
    BY <1>1, <1>6, LessTrustPolicy
  <2>2. raised(c, q) = Raised(policy(c, q), missing) /\ policy(c, q) \in Verdicts
    BY <1>1, PolicyDecided DEF RaisedDecision
  <2>3. with(c, q) = Final(raised(c, q), q, c, in.signs)
    BY <1>5
  <2>4. c.authenticated => in.caller.authenticated
    BY <1>6 DEF LessTrusted
  <2> DEFINE e == with(c, q)
             p == policy(c, q)
             r == raised(c, q)
  <2> HIDE DEF e, p, r, missing, policyNow, raisedNow
  <2>5. r = raisedNow \/ r = "BLOCK"
    BY <1>3, <1>4, <2>1, <2>2, RaisedCases DEF p, r
  <2>6. raisedNow \in Verdicts
    BY <1>3, <1>4, RaisedCases
  <2>7. e = Final(r, q, c, in.signs)
    BY <2>3 DEF e, r
  <2>8. e \in Verdicts /\ response.decision \in Verdicts
        /\ (e = response.decision \/ e = "BLOCK"
              \/ (e = "CONFIRM" /\ response.decision \in {"ALLOW", "CONFIRM"}))
    BY <1>1, <2>4, <2>5, <2>6, <2>7 DEF Final, Verdicts
  <2>9. ~laxer(e)
    BY <2>8, Ranks
  <2>10. QED
    BY <2>9 DEF e
<1>7. ASSUME NEW n \in {in.plugin.suggestMin, 0}, n <= q.confidence,
             MatchedBy(low(n)) = Matched, laxer(with(in.caller, low(n)))
      PROVE  /\ with(in.caller, low(n)) = "SUGGEST"
             /\ ~in.caller.authenticated \/ ~in.signs
  <2> DEFINE t == low(n)
             e == with(in.caller, t)
             p == policy(in.caller, t)
             r == raised(in.caller, t)
  <2>1. n \in Int
    BY <1>1, InputAssumption DEF ValidPlugin, Score
  <2>2. Twin(q, t) /\ t.confidence \in Int /\ t.confidence <= q.confidence
    BY <1>2, <1>7, <2>1
  <2>3. Matching(in.plugin, t, verified) = Matching(in.plugin, q, verified)
    BY <1>7 DEF Matched, MatchedBy, Matching
  <2>4. policyNow = p \/ (policyNow \in {"ALLOW", "SUGGEST"} /\ p \in {"SUGGEST", "CONFIRM"})
    BY <1>1, <2>2, <2>3, LessConfidentPolicy
  <2>5. MissingContext(in.plugin, t, verified) = MissingContext(in.plugin, q, verified)
    BY <2>2, <2>3, TwinGrounds
  <2>6. r = Raised(p, missing) /\ p \in Verdicts
    BY <1>1, <2>5, PolicyDecided DEF RaisedDecision
  <2>7. e = Final(r, q, in.caller, in.signs)
    <3>1. e = Final(r, t, in.caller, in.signs)
      BY <1>5
    <3>2. Final(r, t, in.caller, in.signs) = Final(r, q, in.caller, in.signs)
      BY <2>2 DEF Twin, Final
    <3>3. QED
      BY <3>1, <3>2
  <2>8. laxer(e)
    BY <1>7
  <2> HIDE DEF t, e, p, r, missing, policyNow, raisedNow
  <2>9. CASE missing
    <3>1. r \in {"CONFIRM", "BLOCK"} /\ raisedNow \in {"CONFIRM", "BLOCK"}
          /\ (r = "BLOCK" <=> p = "BLOCK") /\ (raisedNow = "BLOCK" <=> policyNow = "BLOCK")
      BY <1>3, <1>4, <2>6, <2>9, RaisedCases
    <3>2. r = raisedNow
      BY <2>4, <3>1
    <3>3. e = response.decision /\ e \in Verdicts
      BY <1>1, <2>7, <3>1, <3>2 DEF Final, Verdicts
    <3>4. QED
      BY <2>8, <3>3, Ranks
  <2>10. CASE ~missing
    <3>1. r = p /\ raisedNow = policyNow
      BY <1>3, <2>6, <2>10 DEF Raised
    <3>2. e = response.decision \/ response.decision \in {"ALLOW", "SUGGEST"}
            \/ (response.decision = "CONFIRM" /\ policyNow = "ALLOW"
                /\ e \in {"SUGGEST", "CONFIRM"})
      BY <1>1, <2>4, <2>7, <3>1 DEF Final
    <3>3. response.decision \in {"ALLOW", "SUGGEST"} =>
            e = response.decision \/ e \in {"SUGGEST", "CONFIRM"}
      BY <1>1, <2>4, <2>7, <3>1 DEF Final
    <3>4. response.decision = "CONFIRM" /\ e = "SUGGEST"
          /\ policyNow = "ALLOW"
      <4>1. e \in Verdicts /\ response.decision \in Verdicts
        BY <1>1, <1>4, <2>6, <2>7, <3>1 DEF Final, Verdicts
      <4>2. QED
        BY <2>8, <3>2, <3>3, <4>1, Ranks DEF Verdicts
    <3>5. QED
      BY <1>1, <3>1, <3>4 DEF Final, e, t
  <2>11. QED
    BY <2>9, <2>10 DEF e, t
<1>8. QED
  BY <1>6, <1>7 DEF LessTrustNeverLaxer, low

\* A caller with less trust never gets a laxer decision, whatever the rules
\* read, nor does a request with less confidence while the same rules match it;
\* but for the SUGGEST that an ALLOW no one may be given would have been
\* (engine.py: _final_decision and _evaluate, auth.py: effective_permissions).
THEOREM NeverLaxer == Spec => []LessTrustNeverLaxer
BY LaxerNow, StateInvariant, PTL

(***************************************************************************)
(* Signed context.                                                         *)
(***************************************************************************)

Ids(config) == {config.entries[e].id : e \in DOMAIN config.entries}

Facts(tokens, config) ==
  UNION {[S -> {tokens[i].context : i \in DOMAIN tokens}] : S \in SUBSET Ids(config)}

Contexts(tokens, config) == [facts : Facts(tokens, config), rejected : Nat]

LEMMA NoContextType ==
  ASSUME NEW tokens, NEW config
  PROVE  /\ NoContext \in Contexts(tokens, config)
         /\ DOMAIN NoContext.facts = {} /\ NoContext.rejected = 0
<1> DEFINE none == [p \in {} |-> NoValue]
<1>1. none \in [{} -> {tokens[i].context : i \in DOMAIN tokens}] /\ DOMAIN none = {}
  OBVIOUS
<1>2. NoContext = [facts |-> none, rejected |-> 0]
  BY DEF NoContext
<1> HIDE DEF none
<1>3. none \in Facts(tokens, config)
  BY <1>1 DEF Facts
<1>4. QED
  BY <1>1, <1>2, <1>3 DEF Contexts

\* The entries a token is valid as one of.
From(token, config, tenant, user, clock) ==
  {e \in DOMAIN config.entries :
     VerifyToken(token, config.entries[e], tenant, user, clock)}

\* The providers that have not given their facts yet.
Fresh(R, entries, from) == {entries[e].id : e \in from} \ DOMAIN R.facts

\* A is R with the facts of one more token.
IsAccepted(A, R, new, facts) ==
  /\ DOMAIN A.facts = DOMAIN R.facts \cup new
  /\ \A p \in new : A.facts[p] = facts
  /\ \A p \in DOMAIN R.facts : A.facts[p] = R.facts[p]
  /\ A.rejected = R.rejected + (IF new = {} THEN 1 ELSE 0)

LEMMA AcceptParts ==
  ASSUME NEW tokens, NEW config, NEW tenant, NEW user, NEW clock,
         NEW i \in DOMAIN tokens, NEW R \in Contexts(tokens, config)
  PROVE  /\ AcceptToken(R, tokens[i], config, tenant, user, clock)
              \in Contexts(tokens, config)
         /\ IsAccepted(AcceptToken(R, tokens[i], config, tenant, user, clock), R,
                       Fresh(R, config.entries,
                             From(tokens[i], config, tenant, user, clock)),
                       tokens[i].context)
<1> DEFINE token == tokens[i]
           from == From(token, config, tenant, user, clock)
           new == Fresh(R, config.entries, from)
           A == AcceptToken(R, token, config, tenant, user, clock)
           facts == [p \in DOMAIN R.facts \cup new |->
                       IF p \in new THEN token.context ELSE R.facts[p]]
           rejected == R.rejected + (IF new = {} THEN 1 ELSE 0)
           C == {tokens[j].context : j \in DOMAIN tokens}
<1>1. A = [facts |-> facts, rejected |-> rejected]
  BY DEF AcceptToken, From, Fresh
<1>2. new \subseteq Ids(config) /\ token.context \in C
        /\ \A p \in new : p \notin DOMAIN R.facts
  BY DEF Ids, From, Fresh
<1>3. R.facts \in Facts(tokens, config) /\ R.rejected \in Nat
  BY DEF Contexts
<1>4. DOMAIN R.facts \subseteq Ids(config) /\ \A p \in DOMAIN R.facts : R.facts[p] \in C
  BY <1>3 DEF Facts
<1> HIDE DEF from, new, A, C, token
<1>5. facts \in [DOMAIN R.facts \cup new -> C]
  BY <1>2, <1>4
<1>6. facts \in Facts(tokens, config)
  <2> HIDE DEF facts
  <2>1. DOMAIN R.facts \cup new \in SUBSET Ids(config)
    BY <1>2, <1>4
  <2>2. QED
    BY <1>5, <2>1 DEF Facts, C
<1>7. rejected \in Nat
  BY <1>3
<1>8. /\ DOMAIN facts = DOMAIN R.facts \cup new
      /\ \A p \in new : facts[p] = token.context
      /\ \A p \in DOMAIN R.facts : facts[p] = R.facts[p]
  BY <1>2
<1> HIDE DEF facts, rejected
<1>9. A.facts = facts /\ A.rejected = rejected /\ A \in Contexts(tokens, config)
  BY <1>1, <1>6, <1>7 DEF Contexts
<1>10. QED
  BY <1>8, <1>9 DEF IsAccepted, A, from, new, token, rejected

LEMMA AcceptedDefined ==
  ASSUME NEW tokens, IsList(tokens), NEW config, NEW tenant, NEW user, NEW clock
  PROVE  LET f == AcceptedSoFar(tokens, config, tenant, user, clock)
         IN /\ f[0] = NoContext
            /\ \A n \in 1 .. Len(tokens) :
                 f[n] = AcceptToken(f[n - 1], tokens[n], config, tenant, user, clock)
            /\ \A n \in 0 .. Len(tokens) : f[n] \in Contexts(tokens, config)
<1> DEFINE N == Len(tokens)
           As == Contexts(tokens, config)
           accept(a, n) == AcceptToken(a, tokens[n], config, tenant, user, clock)
           F == [x \in As \X (1 .. N) |-> accept(x[1], x[2])]
           body(g) == [n \in 0 .. N |-> IF n = 0 THEN NoContext ELSE accept(g[n - 1], n)]
           f == AcceptedSoFar(tokens, config, tenant, user, clock)
<1>1. f = CHOOSE g : g = body(g)
  BY DEF AcceptedSoFar
<1>2. N \in Nat /\ DOMAIN tokens = 1 .. N
  BY ListType
<1>3. NoContext \in As
  BY NoContextType
<1>4. \A a \in As, n \in 1 .. N : accept(a, n) \in As
  BY <1>2, AcceptParts
<1>5. 0 \in 0 .. N /\ \A n \in 1 .. N : n \in 0 .. N /\ n # 0 /\ n - 1 \in 0 .. N
  BY <1>2
<1>6. \A n \in 0 .. N : n = 0 \/ n \in 1 .. N
  BY <1>2
<1> HIDE DEF As, N, accept, f
<1>7. F \in [As \X (1 .. N) -> As]
  BY <1>4
<1>8. \A a \in As, n \in 1 .. N : F[<<a, n>>] = accept(a, n)
  OBVIOUS
<1> HIDE DEF F
<1>9. PICK g : IsRun(g, N, As, NoContext, F)
  <2>1. N \in Nat
    BY <1>2
  <2>2. QED
    BY <1>3, <1>7, <2>1, RangeRecursion
<1>10. g = body(g)
  <2>1. \A n \in 1 .. N : g[n] = accept(g[n - 1], n)
    BY <1>5, <1>8, <1>9 DEF IsRun
  <2>2. \A n \in 0 .. N : g[n] = IF n = 0 THEN NoContext ELSE accept(g[n - 1], n)
    BY <1>6, <1>9, <2>1 DEF IsRun
  <2>3. QED
    BY <1>9, <2>2 DEF IsRun
<1>11. f = body(f)
  BY <1>1, <1>10, Zenon
<1>12. \A n \in 0 .. N : f[n] = body(f)[n]
  BY <1>11
<1>13. f[0] = NoContext /\ \A n \in 1 .. N : f[n] = accept(f[n - 1], n)
  BY <1>5, <1>12
<1>14. \A n \in 0 .. N : f[n] \in As
  <2> DEFINE S == {n \in 0 .. N : f[n] \in As}
  <2>1. 0 \in S /\ \A n \in 1 .. N : n - 1 \in S => n \in S
    BY <1>3, <1>4, <1>5, <1>13
  <2> HIDE DEF S
  <2>2. \A n \in 0 .. N : n \in S
    BY <1>2, <2>1, RangeInduction
  <2>3. QED
    BY <2>2 DEF S
<1>15. QED
  BY <1>13, <1>14 DEF f, N, As, accept

\* R is the context of the first n tokens; token i is valid as one of the
\* entries ok[i].
FactsOf(R, n, tokens, entries, ok) ==
  /\ \A p \in DOMAIN R.facts :
       \E e \in DOMAIN entries :
         /\ entries[e].id = p
         /\ \E i \in 1 .. n : /\ e \in ok[i] /\ R.facts[p] = tokens[i].context
                              /\ \A j \in 1 .. n : e \in ok[j] => i <= j
  /\ \A e \in DOMAIN entries, i \in 1 .. n :
       e \in ok[i] => entries[e].id \in DOMAIN R.facts
  /\ IsFiniteSet(DOMAIN R.facts)
  /\ R.rejected + Cardinality(DOMAIN R.facts) = n

\* One more token, R to A.
LEMMA FactsStep ==
  ASSUME NEW tokens, NEW entries, NEW ok, NEW n \in Nat, n # 0,
         \A e, d \in DOMAIN entries : e \in ok[n] /\ d \in ok[n] => e = d,
         NEW R, NEW A, FactsOf(R, n - 1, tokens, entries, ok), R.rejected \in Nat,
         NEW from \in SUBSET DOMAIN entries,
         \A e \in DOMAIN entries : e \in from <=> e \in ok[n],
         IsAccepted(A, R, Fresh(R, entries, from), tokens[n].context)
  PROVE  FactsOf(A, n, tokens, entries, ok)
<1> DEFINE new == Fresh(R, entries, from)
<1>a. /\ DOMAIN A.facts = DOMAIN R.facts \cup new
      /\ \A p \in new : A.facts[p] = tokens[n].context
      /\ \A p \in DOMAIN R.facts : A.facts[p] = R.facts[p]
      /\ A.rejected = R.rejected + (IF new = {} THEN 1 ELSE 0)
  BY DEF IsAccepted
<1>b. new = {entries[e].id : e \in {d \in DOMAIN entries : d \in ok[n]}}
              \ DOMAIN R.facts
  BY DEF Fresh
<1> HIDE DEF new
<1>1. n \in 1 .. n /\ (\A i \in 1 .. n - 1 : i \in 1 .. n /\ i < n)
      /\ (\A i \in 1 .. n : i = n \/ i \in 1 .. n - 1) /\ n - 1 \in Nat
  OBVIOUS
<1>2. \A i \in 1 .. n : i <= n /\ i <= i
  OBVIOUS
<1>3. ASSUME NEW p \in DOMAIN R.facts
      PROVE  \E e \in DOMAIN entries :
               /\ entries[e].id = p
               /\ \E i \in 1 .. n : /\ e \in ok[i] /\ A.facts[p] = tokens[i].context
                                    /\ \A j \in 1 .. n : e \in ok[j] => i <= j
  <2>1. PICK e \in DOMAIN entries :
          /\ entries[e].id = p
          /\ \E i \in 1 .. n - 1 :
               /\ e \in ok[i] /\ R.facts[p] = tokens[i].context
               /\ \A j \in 1 .. n - 1 : e \in ok[j] => i <= j
    BY <1>3 DEF FactsOf
  <2>2. PICK i \in 1 .. n - 1 :
          /\ e \in ok[i] /\ R.facts[p] = tokens[i].context
          /\ \A j \in 1 .. n - 1 : e \in ok[j] => i <= j
    BY <2>1
  <2>3. \A j \in 1 .. n : e \in ok[j] => i <= j
    BY <1>1, <1>2, <2>2
  <2>4. QED
    BY <1>a, <1>1, <1>3, <2>1, <2>2, <2>3
<1>4. ASSUME NEW p \in new
      PROVE  \E e \in DOMAIN entries :
               /\ entries[e].id = p
               /\ \E i \in 1 .. n : /\ e \in ok[i] /\ A.facts[p] = tokens[i].context
                                    /\ \A j \in 1 .. n : e \in ok[j] => i <= j
  <2>1. PICK e \in DOMAIN entries : entries[e].id = p /\ e \in ok[n]
    BY <1>b
  <2>2. p \notin DOMAIN R.facts
    BY <1>b
  <2>3. \A j \in 1 .. n - 1 : e \notin ok[j]
    BY <2>1, <2>2 DEF FactsOf
  <2>4. \A j \in 1 .. n : e \in ok[j] => n <= j
    BY <1>1, <1>2, <2>3
  <2>5. QED
    BY <1>a, <1>1, <2>1, <2>4
<1>5. ASSUME NEW e \in DOMAIN entries, NEW i \in 1 .. n, e \in ok[i]
      PROVE  entries[e].id \in DOMAIN A.facts
  <2>1. CASE i = n
    BY <1>a, <1>b, <1>5, <2>1
  <2>2. CASE i \in 1 .. n - 1
    BY <1>a, <1>5, <2>2 DEF FactsOf
  <2>3. QED
    BY <1>1, <2>1, <2>2
<1>6. IsFiniteSet(DOMAIN R.facts) /\ R.rejected + Cardinality(DOMAIN R.facts) = n - 1
      /\ Cardinality(DOMAIN R.facts) \in Nat
  BY FS_CardinalityType DEF FactsOf
<1>7. IsFiniteSet(DOMAIN A.facts) /\ A.rejected + Cardinality(DOMAIN A.facts) = n
  <2> DEFINE c == Cardinality(DOMAIN R.facts)
  <2>1. CASE new = {}
    <3>1. DOMAIN A.facts = DOMAIN R.facts /\ A.rejected = R.rejected + 1
      BY <1>a, <2>1
    <3>2. c \in Nat /\ R.rejected + c = n - 1 /\ Cardinality(DOMAIN A.facts) = c
      BY <1>6, <3>1
    <3> HIDE DEF c
    <3>3. A.rejected + c = n
      BY <3>1, <3>2
    <3>4. QED
      BY <1>6, <3>1, <3>2, <3>3
  <2>2. CASE new # {}
    <3>a. PICK p \in new : TRUE
      BY <2>2
    <3>1. PICK e \in DOMAIN entries : e \in ok[n] /\ entries[e].id \in new
      BY <1>b, <3>a
    <3> DEFINE x == entries[e].id
    <3>2. new = {x} /\ x \notin DOMAIN R.facts
      BY <1>b, <3>1
    <3>3. DOMAIN A.facts = DOMAIN R.facts \cup {x} /\ A.rejected = R.rejected + 0
      BY <1>a, <2>2, <3>2
    <3> HIDE DEF x
    <3>4. IsFiniteSet(DOMAIN A.facts) /\ Cardinality(DOMAIN A.facts) = c + 1
      <4> DEFINE old == DOMAIN R.facts
      <4>1. IsFiniteSet(old) /\ x \notin old /\ DOMAIN A.facts = old \cup {x}
        BY <1>6, <3>2, <3>3
      <4> HIDE DEF old
      <4>2. IsFiniteSet(old \cup {x}) /\ Cardinality(old \cup {x}) = Cardinality(old) + 1
        BY <4>1, FS_AddElement
      <4>3. QED
        BY <4>1, <4>2 DEF old
    <3> DEFINE r == R.rejected
    <3>5. c \in Nat /\ r \in Nat /\ r + c = n - 1 /\ A.rejected = r + 0
      BY <1>6, <3>3
    <3> HIDE DEF c, r
    <3>6. A.rejected + (c + 1) = n
      BY <3>5
    <3>7. QED
      BY <3>4, <3>6
  <2>3. QED
    BY <2>1, <2>2
<1>8. QED
  BY <1>a, <1>3, <1>4, <1>5, <1>7 DEF FactsOf

\* The whole list of tokens, with a usable provider table.
LEMMA FactsAccepted ==
  ASSUME NEW tokens, IsList(tokens), NEW config, NEW entries, entries = config.entries,
         \A e, d \in DOMAIN entries : entries[e].issuer = entries[d].issuer => e = d,
         NEW tenant, NEW user, NEW clock, NEW ok,
         \A i \in DOMAIN tokens, e \in DOMAIN entries :
           e \in ok[i] <=> VerifyToken(tokens[i], entries[e], tenant, user, clock)
  PROVE  FactsOf(AcceptedSoFar(tokens, config, tenant, user, clock)[Len(tokens)],
                 Len(tokens), tokens, entries, ok)
<1> DEFINE N == Len(tokens)
           f == AcceptedSoFar(tokens, config, tenant, user, clock)
           S == {n \in 0 .. N : FactsOf(f[n], n, tokens, entries, ok)}
<1>1. N \in Nat /\ DOMAIN tokens = 1 .. N
  BY ListType
<1>2. f[0] = NoContext
  BY AcceptedDefined
<1>3. \A n \in 1 .. N : f[n] = AcceptToken(f[n - 1], tokens[n], config, tenant, user, clock)
  BY AcceptedDefined
<1>4. \A n \in 0 .. N : f[n] \in Contexts(tokens, config)
  BY AcceptedDefined
<1> HIDE DEF f
<1>5. 0 \in S
  <2>1. DOMAIN f[0].facts = {} /\ f[0].rejected = 0
    BY <1>2, NoContextType
  <2>2. IsFiniteSet({}) /\ Cardinality({}) = 0
    BY FS_EmptySet
  <2>3. FactsOf(f[0], 0, tokens, entries, ok)
    BY <2>1, <2>2 DEF FactsOf
  <2>4. QED
    BY <1>1, <2>3
<1>6. ASSUME NEW n \in 1 .. N, n - 1 \in S
      PROVE  n \in S
  <2> DEFINE R == f[n - 1]
             A == f[n]
             from == From(tokens[n], config, tenant, user, clock)
  <2>1. n \in Nat /\ n # 0 /\ n \in 0 .. N /\ n - 1 \in 0 .. N /\ n \in DOMAIN tokens
    BY <1>1
  <2>2. R \in Contexts(tokens, config) /\ R.rejected \in Nat
    BY <1>4, <2>1 DEF Contexts
  <2>3. A = AcceptToken(R, tokens[n], config, tenant, user, clock)
    BY <1>3
  <2>4. FactsOf(R, n - 1, tokens, entries, ok)
    BY <1>6
  <2>5. /\ from \in SUBSET DOMAIN entries
        /\ \A e \in DOMAIN entries : e \in from <=> e \in ok[n]
    BY <2>1 DEF From
  <2>6. \A e, d \in DOMAIN entries : e \in ok[n] /\ d \in ok[n] => e = d
    BY <2>1 DEF VerifyToken
  <2> HIDE DEF R, A
  <2>7. IsAccepted(A, R, Fresh(R, entries, from), tokens[n].context)
    BY <2>1, <2>2, <2>3, AcceptParts
  <2> HIDE DEF from
  <2>8. FactsOf(A, n, tokens, entries, ok)
    BY <2>1, <2>2, <2>4, <2>5, <2>6, <2>7, FactsStep
  <2>9. QED
    BY <2>1, <2>8 DEF A
<1>7. N \in S
  <2>1. N \in 0 .. N
    BY <1>1
  <2> HIDE DEF S
  <2>2. QED
    BY <1>1, <1>5, <1>6, <2>1, RangeInduction
<1>8. QED
  BY <1>7 DEF f

\* A token that is valid, in the words of FactsGenuine.
GoodToken(x, entry, tenant, user, clock) ==
  /\ x.sound /\ x.object
  /\ x.iss = entry.issuer
  /\ x.tenant = tenant
  /\ x.sub # NoValue => x.sub = user
  /\ clock < x.exp + Leeway
  /\ x.iat \in (clock - entry.maxAge - Leeway) .. (clock + Leeway)
  /\ x.nbf # NoValue => x.nbf <= clock + Leeway

LEMMA GoodIsVerified ==
  ASSUME NEW x, {x.exp, x.iat} \subseteq Int, NEW entry, entry.maxAge \in Nat,
         NEW tenant, NEW user, NEW clock \in Int
  PROVE  GoodToken(x, entry, tenant, user, clock)
           <=> VerifyToken(x, entry, tenant, user, clock)
<1> DEFINE exp == x.exp
           iat == x.iat
           age == entry.maxAge
<1>1. exp \in Int /\ iat \in Int /\ age \in Int /\ Leeway \in Int
  BY LeewayAssumption
<1> HIDE DEF exp, iat, age
<1>2. /\ clock < exp + Leeway <=> exp > clock - Leeway
      /\ iat \in (clock - age - Leeway) .. (clock + Leeway) <=>
           iat <= clock + Leeway /\ clock - iat <= age + Leeway
  BY <1>1
<1>3. QED
  BY <1>2 DEF GoodToken, VerifyToken, Decodes, exp, iat, age

\* The facts after the last token, as FactsAccepted describes them.
LEMMA GenuineNow == StateInv => FactsGenuine
<1> SUFFICES ASSUME StateInv, FromPolicy
             PROVE  FactsGenuine
  BY DEF FactsGenuine
<1> DEFINE tokens == in.request.tokens
           config == LoadProviders(in.providers)
           tenant == in.request.tenant
           user == in.request.user
           good(i, e) ==
             /\ tokens[i].sound /\ tokens[i].object
             /\ tokens[i].iss = e.issuer
             /\ tokens[i].tenant = in.request.tenant
             /\ tokens[i].sub # NoValue => tokens[i].sub = in.request.user
             /\ in.clock < tokens[i].exp + Leeway
             /\ tokens[i].iat \in (in.clock - e.maxAge - Leeway) .. (in.clock + Leeway)
             /\ tokens[i].nbf # NoValue => tokens[i].nbf <= in.clock + Leeway
           goodOf(e) == {i \in DOMAIN tokens : good(i, e)}
           entries == IF config.valid THEN in.providers ELSE <<>>
           goal == /\ \A p \in DOMAIN verified.facts :
                        \E n \in DOMAIN entries :
                          /\ entries[n].id = p
                          /\ \E i \in goodOf(entries[n]) :
                               /\ verified.facts[p] = tokens[i].context
                               /\ \A j \in goodOf(entries[n]) : i <= j
                   /\ \A n \in DOMAIN entries :
                        goodOf(entries[n]) # {} => entries[n].id \in DOMAIN verified.facts
                   /\ verified.rejected + Cardinality(DOMAIN verified.facts) = Len(tokens)
<1>1. /\ in.request \in Requests /\ in.providers \in Providers /\ in.clock \in Int
      /\ verified = VerifySignedContext(tokens, config, tenant, user, in.clock)
  BY InputAssumption DEF StateInv, InputOK, FromPolicy, Answered, ContextOf
<1>2. IsList(tokens) /\ \A i \in DOMAIN tokens : {tokens[i].exp, tokens[i].iat} \subseteq Int
  BY <1>1, InputAssumption DEF ValidRequest
<1>3. \A e \in DOMAIN in.providers : in.providers[e].maxAge \in Nat
  BY <1>1, InputAssumption
<1>4. Len(tokens) \in Nat /\ DOMAIN tokens = 1 .. Len(tokens)
  BY <1>2, ListType
<1>5. ASSUME NEW i \in DOMAIN tokens, NEW e \in DOMAIN in.providers
      PROVE  good(i, in.providers[e])
               <=> VerifyToken(tokens[i], in.providers[e], tenant, user, in.clock)
  <2>1. good(i, in.providers[e])
          <=> GoodToken(tokens[i], in.providers[e], tenant, user, in.clock)
    BY DEF GoodToken
  <2> HIDE DEF tokens, tenant, user
  <2>2. QED
    BY <1>1, <1>2, <1>3, <2>1, GoodIsVerified
<1>6. CASE ~config.valid
  <2> DEFINE r == Len(tokens)
  <2>1. verified = [NoContext EXCEPT !.rejected = r]
    BY <1>1, <1>6 DEF VerifySignedContext
  <2>2. DOMAIN NoContext.facts = {} /\ DOMAIN NoContext = {"facts", "rejected"}
    BY NoContextType DEF NoContext
  <2>3. DOMAIN verified.facts = {} /\ verified.rejected = r
    BY <2>1, <2>2
  <2>4. entries = <<>> /\ DOMAIN entries = {}
    BY <1>6
  <2>5. verified.rejected + Cardinality(DOMAIN verified.facts) = r
    BY <1>4, <2>3, FS_EmptySet
  <2> HIDE DEF entries, goodOf
  <2>6. goal
    BY <2>3, <2>4, <2>5
  <2>7. QED
    BY <2>6 DEF FactsGenuine, entries, goodOf
<1>7. CASE config.valid
  <2> DEFINE n == Len(tokens)
             ok == [i \in DOMAIN tokens |->
                      {e \in DOMAIN in.providers : good(i, in.providers[e])}]
  <2>1. config = [valid |-> TRUE, entries |-> in.providers]
        /\ \A e, d \in DOMAIN in.providers :
             in.providers[e].issuer = in.providers[d].issuer => e = d
    BY <1>7 DEF LoadProviders, BadConfig
  <2>2. config.entries = in.providers /\ entries = in.providers
    BY <1>7, <2>1
  <2>3. verified = AcceptedSoFar(tokens, config, tenant, user, in.clock)[n]
    BY <1>1, <1>7 DEF VerifySignedContext
  <2> HIDE DEF config, entries, tenant, user, n, good
  <2>4. ASSUME NEW i \in DOMAIN tokens, NEW e \in DOMAIN in.providers
        PROVE  e \in ok[i] <=> good(i, in.providers[e])
    OBVIOUS
  <2> HIDE DEF ok, tokens
  <2>5. FactsOf(verified, n, tokens, in.providers, ok)
    <3>1. \A i \in DOMAIN tokens, e \in DOMAIN in.providers :
            e \in ok[i] <=>
              VerifyToken(tokens[i], in.providers[e], tenant, user, in.clock)
      BY <1>5, <2>4
    <3>2. FactsOf(AcceptedSoFar(tokens, config, tenant, user, in.clock)[Len(tokens)],
                  Len(tokens), tokens, in.providers, ok)
      BY <1>2, <2>1, <2>2, <3>1, FactsAccepted
    <3>3. QED
      BY <2>3, <3>2 DEF n
  <2>6. DOMAIN tokens = 1 .. n
    BY <1>4 DEF n
  <2>7. \A e \in DOMAIN entries : \A i : i \in goodOf(entries[e]) <=>
                                           i \in 1 .. n /\ e \in ok[i]
    BY <2>2, <2>4, <2>6
  <2> HIDE DEF goodOf
  <2>8. ASSUME NEW p \in DOMAIN verified.facts
        PROVE  \E e \in DOMAIN entries :
                 /\ entries[e].id = p
                 /\ \E i \in goodOf(entries[e]) :
                      /\ verified.facts[p] = tokens[i].context
                      /\ \A j \in goodOf(entries[e]) : i <= j
    <3>1. PICK e \in DOMAIN entries :
            /\ entries[e].id = p
            /\ \E i \in 1 .. n :
                 /\ e \in ok[i] /\ verified.facts[p] = tokens[i].context
                 /\ \A j \in 1 .. n : e \in ok[j] => i <= j
      BY <2>2, <2>5 DEF FactsOf
    <3>2. QED
      BY <2>7, <3>1
  <2>9. ASSUME NEW e \in DOMAIN entries, goodOf(entries[e]) # {}
        PROVE  entries[e].id \in DOMAIN verified.facts
    <3>1. PICK i \in 1 .. n : e \in ok[i]
      BY <2>7, <2>9
    <3>2. QED
      BY <2>2, <2>5, <3>1 DEF FactsOf
  <2>10. verified.rejected + Cardinality(DOMAIN verified.facts) = Len(tokens)
    BY <2>5 DEF FactsOf, n
  <2>11. goal
    BY <2>8, <2>9, <2>10
  <2>12. QED
    BY <2>11 DEF FactsGenuine, entries, goodOf, good, tokens, config
<1>8. QED
  BY <1>6, <1>7

\* The facts the rules read were signed by their provider for this tenant and
\* user and are fresh, the first valid token of a provider counts, and a
\* token that is refused hides no other (context.py: verify_signed_context).
THEOREM Genuine == Spec => []FactsGenuine
BY GenuineNow, StateInvariant, PTL

(***************************************************************************)
(* The approver.                                                           *)
(***************************************************************************)

Rank(rule) == Precedence[rule.decision]

\* i comes before j in t when it is stricter, or as strict and earlier.
Ahead(t, i, j) == Rank(t[i]) > Rank(t[j]) \/ (Rank(t[i]) = Rank(t[j]) /\ i < j)

\* p holds the rules of t, at the places pos, whose rank is in N, in order.
IsOrder(pos, p, t, N) ==
  /\ pos \in [DOMAIN p -> DOMAIN t]
  /\ \A k \in DOMAIN p : p[k] = t[pos[k]] /\ Rank(t[pos[k]]) \in N
  /\ \A i \in DOMAIN t : Rank(t[i]) \in N => \E k \in DOMAIN p : pos[k] = i
  /\ \A k, l \in DOMAIN p : k < l => Ahead(t, pos[k], pos[l])

Ordered(p, A, t, N) == p \in Seq(A) /\ \E pos : IsOrder(pos, p, t, N)

LEMMA OrderOfRank ==
  ASSUME NEW A, NEW t \in Seq(A), NEW n \in Int,
         NEW p, p = Picked(t, {i \in DOMAIN t : Rank(t[i]) = n})
  PROVE  Ordered(p, A, t, {n})
<1> DEFINE I == {i \in DOMAIN t : Rank(t[i]) = n}
<1>1. DOMAIN t = 1 .. Len(t)
  OBVIOUS
<1>2. \A i \in DOMAIN t : i \in I <=> Rank(t[i]) = n
  OBVIOUS
<1>3. p = Picked(t, I)
  OBVIOUS
<1> HIDE DEF I
<1>4. p \in Seq(A) /\ \E pos : IsChoice(pos, p, t, Len(t), I)
  BY <1>3, PickedPlaces
<1>5. PICK pos : IsChoice(pos, p, t, Len(t), I)
  BY <1>4
<1>6. pos \in [DOMAIN p -> DOMAIN t]
  BY <1>1, <1>5 DEF IsChoice
<1>7. \A k \in DOMAIN p : p[k] = t[pos[k]] /\ Rank(t[pos[k]]) = n
  BY <1>2, <1>5, <1>6 DEF IsChoice
<1>8. \A i \in DOMAIN t : Rank(t[i]) = n => \E k \in DOMAIN p : pos[k] = i
  BY <1>1, <1>2, <1>5 DEF IsChoice
<1>9. \A k, l \in DOMAIN p : k < l => Ahead(t, pos[k], pos[l])
  BY <1>5, <1>7 DEF IsChoice, Ahead
<1>10. IsOrder(pos, p, t, {n})
  BY <1>6, <1>7, <1>8, <1>9 DEF IsOrder
<1>11. QED
  BY <1>4, <1>10 DEF Ordered

LEMMA OrderJoined ==
  ASSUME NEW A, NEW t, NEW p, NEW r, NEW M, NEW N, \A x \in M, y \in N : x > y,
         Ordered(p, A, t, M), Ordered(r, A, t, N)
  PROVE  Ordered(p \o r, A, t, M \cup N)
<1>1. p \in Seq(A) /\ r \in Seq(A)
  BY DEF Ordered
<1>2. PICK a : IsOrder(a, p, t, M)
  BY DEF Ordered
<1>3. PICK b : IsOrder(b, r, t, N)
  BY DEF Ordered
<1> DEFINE m == Len(p)
           n == Len(r)
           s == p \o r
           pos == [k \in 1 .. m + n |-> IF k <= m THEN a[k] ELSE b[k - m]]
<1>4. /\ m \in Nat /\ n \in Nat /\ DOMAIN p = 1 .. m /\ DOMAIN r = 1 .. n
      /\ s \in Seq(A) /\ DOMAIN s = 1 .. m + n
  BY <1>1
<1>5. /\ \A k \in 1 .. m : s[k] = p[k]
      /\ \A k \in 1 .. n : s[m + k] = r[k]
  BY <1>1
<1> HIDE DEF m, n, s
<1>6. /\ \A k \in 1 .. m : k \in 1 .. m + n /\ k <= m
      /\ \A k \in 1 .. n : m + k \in 1 .. m + n /\ ~(m + k <= m) /\ (m + k) - m = k
  BY <1>4
<1>7. /\ \A k \in 1 .. m : pos[k] = a[k]
      /\ \A k \in 1 .. n : pos[m + k] = b[k]
  BY <1>6
<1>8. \A k \in 1 .. m + n : k \in 1 .. m \/ \E l \in 1 .. n : k = m + l
  <2> SUFFICES ASSUME NEW k \in 1 .. m + n, ~(k <= m)
               PROVE  \E l \in 1 .. n : k = m + l
    BY <1>4
  <2>1. k - m \in 1 .. n /\ k = m + (k - m)
    BY <1>4
  <2>2. QED
    BY <2>1
<1> HIDE DEF pos
\* what a and b say of pos
<1>9. ASSUME NEW k \in 1 .. m
      PROVE  /\ pos[k] \in DOMAIN t /\ s[k] = t[pos[k]] /\ Rank(t[pos[k]]) \in M
             /\ \A l \in 1 .. m : k < l => Ahead(t, pos[k], pos[l])
  <2>1. /\ a[k] \in DOMAIN t /\ p[k] = t[a[k]] /\ Rank(t[a[k]]) \in M
        /\ \A l \in 1 .. m : k < l => Ahead(t, a[k], a[l])
    BY <1>2, <1>4 DEF IsOrder
  <2>2. QED
    BY <1>5, <1>7, <2>1
<1>10. ASSUME NEW k \in 1 .. n
       PROVE  /\ pos[m + k] \in DOMAIN t /\ s[m + k] = t[pos[m + k]]
              /\ Rank(t[pos[m + k]]) \in N
              /\ \A l \in 1 .. n : k < l => Ahead(t, pos[m + k], pos[m + l])
  <2>1. /\ b[k] \in DOMAIN t /\ r[k] = t[b[k]] /\ Rank(t[b[k]]) \in N
        /\ \A l \in 1 .. n : k < l => Ahead(t, b[k], b[l])
    BY <1>3, <1>4 DEF IsOrder
  <2>2. pos[m + k] = b[k] /\ s[m + k] = r[k]
    BY <1>5, <1>7
  <2>3. ASSUME NEW l \in 1 .. n, k < l
        PROVE  Ahead(t, pos[m + k], pos[m + l])
    <3>1. pos[m + l] = b[l]
      BY <1>7
    <3>2. QED
      BY <2>1, <2>2, <2>3, <3>1
  <2>4. QED
    BY <2>1, <2>2, <2>3
<1>11. ASSUME NEW k \in 1 .. m + n
       PROVE  pos[k] \in DOMAIN t /\ s[k] = t[pos[k]] /\ Rank(t[pos[k]]) \in M \cup N
  BY <1>8, <1>9, <1>10
<1>12. pos \in [1 .. m + n -> DOMAIN t]
  <2>1. pos = [k \in 1 .. m + n |-> pos[k]]
    BY DEF pos
  <2>2. QED
    BY <1>11, <2>1
<1>13. ASSUME NEW i \in DOMAIN t, Rank(t[i]) \in M \cup N
       PROVE  \E k \in 1 .. m + n : pos[k] = i
  <2>1. CASE Rank(t[i]) \in M
    <3>1. PICK k \in 1 .. m : a[k] = i
      BY <1>2, <1>4, <2>1 DEF IsOrder
    <3>2. QED
      BY <1>6, <1>7, <3>1
  <2>2. CASE Rank(t[i]) \in N
    <3>1. PICK k \in 1 .. n : b[k] = i
      BY <1>3, <1>4, <2>2 DEF IsOrder
    <3>2. QED
      BY <1>6, <1>7, <3>1
  <2>3. QED
    BY <1>13, <2>1, <2>2
<1>14. ASSUME NEW k \in 1 .. m + n, NEW l \in 1 .. m + n, k < l
       PROVE  Ahead(t, pos[k], pos[l])
  <2>1. CASE k \in 1 .. m /\ l \in 1 .. m
    BY <1>9, <1>14, <2>1
  <2>2. ASSUME NEW c \in 1 .. n, NEW d \in 1 .. n, k = m + c, l = m + d
        PROVE  Ahead(t, pos[k], pos[l])
    <3>1. c < d
      BY <1>4, <1>14, <2>2
    <3>2. QED
      BY <1>10, <2>2, <3>1
  <2>3. ASSUME k \in 1 .. m, NEW d \in 1 .. n, l = m + d
        PROVE  Ahead(t, pos[k], pos[l])
    <3>1. Rank(t[pos[k]]) \in M /\ Rank(t[pos[l]]) \in N
      BY <1>9, <1>10, <2>3
    <3>2. QED
      BY <3>1 DEF Ahead
  <2>4. ASSUME NEW c \in 1 .. n, k = m + c, l \in 1 .. m
        PROVE  FALSE
    BY <1>4, <1>14, <2>4
  <2>5. QED
    BY <1>8, <2>1, <2>2, <2>3, <2>4
<1>15. IsOrder(pos, s, t, M \cup N)
  BY <1>4, <1>11, <1>12, <1>13, <1>14 DEF IsOrder
<1>16. QED
  BY <1>4, <1>15 DEF s, Ordered

\* The sorted rules: every rule once, the stricter first, and equals in the
\* order of the policy.
LEMMA SortedRules ==
  ASSUME NEW A, NEW t \in Seq(A)
  PROVE  Ordered(StrictestFirst(t), A, t, {0, 1, 2, 3})
<1> DEFINE w3 == Picked(t, {i \in DOMAIN t : Rank(t[i]) = 3})
           w2 == Picked(t, {i \in DOMAIN t : Rank(t[i]) = 2})
           w1 == Picked(t, {i \in DOMAIN t : Rank(t[i]) = 1})
           w0 == Picked(t, {i \in DOMAIN t : Rank(t[i]) = 0})
<1>1. StrictestFirst(t) = ((w3 \o w2) \o w1) \o w0
  BY DEF StrictestFirst, Rank
<1>2. Ordered(w3, A, t, {3})
  BY OrderOfRank
<1>3. Ordered(w2, A, t, {2})
  BY OrderOfRank
<1>4. Ordered(w1, A, t, {1})
  BY OrderOfRank
<1>5. Ordered(w0, A, t, {0})
  BY OrderOfRank
<1> HIDE DEF w3, w2, w1, w0
<1>6. Ordered(w3 \o w2, A, t, {3} \cup {2})
  <2>1. \A x \in {3}, y \in {2} : x > y
    OBVIOUS
  <2>2. QED
    BY <1>2, <1>3, <2>1, OrderJoined
<1>7. Ordered((w3 \o w2) \o w1, A, t, ({3} \cup {2}) \cup {1})
  <2>1. \A x \in {3} \cup {2}, y \in {1} : x > y
    OBVIOUS
  <2>2. QED
    BY <1>4, <1>6, <2>1, OrderJoined
<1>8. Ordered(((w3 \o w2) \o w1) \o w0, A, t, (({3} \cup {2}) \cup {1}) \cup {0})
  <2>1. \A x \in ({3} \cup {2}) \cup {1}, y \in {0} : x > y
    OBVIOUS
  <2>2. QED
    BY <1>5, <1>7, <2>1, OrderJoined
<1>9. (({3} \cup {2}) \cup {1}) \cup {0} = {0, 1, 2, 3}
  OBVIOUS
<1>10. QED
  BY <1>1, <1>8, <1>9

\* The places of the rules of the policy that match and name a role.
Naming(plugin, q, ctx) ==
  {i \in Matching(plugin, q, ctx) : plugin.rules[i].role # NoValue}

NotBehind(t, i, j) ==
  Rank(t[i]) > Rank(t[j]) \/ (Rank(t[i]) = Rank(t[j]) /\ i <= j)

\* The triggered rules, strictest first, and those of them with a role.
Asked(plugin, q, ctx) == StrictestFirst(Triggered(plugin, q, ctx))

Named(plugin, q, ctx) ==
  LET asked == Asked(plugin, q, ctx)
  IN Picked(asked, {i \in DOMAIN asked : asked[i].role # NoValue})

\* The sorted rules are at places of the policy: each rule that matches once,
\* and none behind a later one.
LEMMA AskedPlaces ==
  ASSUME NEW plugin \in Plugins, NEW q, NEW ctx
  PROVE  LET a == Asked(plugin, q, ctx)
             M == Matching(plugin, q, ctx)
         IN /\ IsList(a)
            /\ \E pos : /\ \A k \in DOMAIN a : pos[k] \in M /\ a[k] = plugin.rules[pos[k]]
                        /\ \A i \in M : \E k \in DOMAIN a : pos[k] = i
                        /\ \A k, l \in DOMAIN a :
                             k < l => NotBehind(plugin.rules, pos[k], pos[l])
<1> DEFINE t == Triggered(plugin, q, ctx)
           a == Asked(plugin, q, ctx)
           M == Matching(plugin, q, ctx)
           rules == plugin.rules
           A == {t[k] : k \in DOMAIN t}
<1>1. /\ Len(t) \in Nat /\ DOMAIN t = 1 .. Len(t)
      /\ \E pos : IsChoice(pos, t, rules, Len(rules), M)
      /\ \A k \in DOMAIN t : ValidRule(t[k])
      /\ M \in SUBSET DOMAIN rules
  BY TriggeredRules
<1>2. rules \in Seq({rules[i] : i \in DOMAIN rules}) /\ DOMAIN rules = 1 .. Len(rules)
  BY InputAssumption, ListType DEF ValidPlugin
<1>3. t \in Seq(A)
  <2>1. t = Picked(rules, M)
    BY TriggeredRules
  <2>2. t \in Seq({rules[i] : i \in DOMAIN rules})
    BY <1>2, <2>1, PickedPlaces
  <2>3. QED
    BY <2>2
<1>4. \A k \in DOMAIN t : Rank(t[k]) \in {0, 1, 2, 3}
  BY <1>1, Ranks DEF ValidRule, Rank
<1>5. Ordered(a, A, t, {0, 1, 2, 3})
  BY <1>3, SortedRules DEF Asked
<1> HIDE DEF t, a, M, rules, A
<1>6. PICK tpos : IsChoice(tpos, t, rules, Len(rules), M)
  BY <1>1
<1>7. PICK apos : IsOrder(apos, a, t, {0, 1, 2, 3})
  BY <1>5 DEF Ordered
<1>8. a \in Seq(A)
  BY <1>5 DEF Ordered
<1>9. IsList(a)
  BY <1>8 DEF IsList
<1> DEFINE pos == [k \in DOMAIN a |-> tpos[apos[k]]]
<1>10. \A k \in DOMAIN t :
         tpos[k] \in M /\ tpos[k] \in 1 .. Len(rules) /\ t[k] = rules[tpos[k]]
  BY <1>6 DEF IsChoice
<1>11. \A k \in DOMAIN a : apos[k] \in DOMAIN t /\ a[k] = t[apos[k]]
  BY <1>7 DEF IsOrder
<1>12. \A k \in DOMAIN a : pos[k] = tpos[apos[k]]
  OBVIOUS
<1> HIDE DEF pos
<1>13. \A k \in DOMAIN a : pos[k] \in M /\ a[k] = rules[pos[k]]
  BY <1>10, <1>11, <1>12
<1>14. ASSUME NEW i \in M
       PROVE  \E k \in DOMAIN a : pos[k] = i
  <2>1. i \in 1 .. Len(rules)
    BY <1>1, <1>2
  <2>2. PICK h \in DOMAIN t : tpos[h] = i
    BY <1>6, <2>1 DEF IsChoice
  <2>3. PICK k \in DOMAIN a : apos[k] = h
    BY <1>4, <1>7 DEF IsOrder
  <2>4. QED
    BY <1>12, <2>2, <2>3
<1>15. ASSUME NEW k \in DOMAIN a, NEW l \in DOMAIN a, k < l
       PROVE  NotBehind(rules, pos[k], pos[l])
  <2> DEFINE g == apos[k]
             h == apos[l]
  <2>1. g \in DOMAIN t /\ h \in DOMAIN t /\ Ahead(t, g, h)
    BY <1>7, <1>11, <1>15 DEF IsOrder
  <2>2. pos[k] = tpos[g] /\ pos[l] = tpos[h]
    BY <1>12
  <2> HIDE DEF g, h
  <2>3. t[g] = rules[tpos[g]] /\ t[h] = rules[tpos[h]]
    BY <1>10, <2>1
  <2>4. tpos[g] \in Int /\ tpos[h] \in Int
    BY <1>10, <2>1
  <2>5. g < h => tpos[g] < tpos[h]
    BY <1>6, <2>1 DEF IsChoice
  <2>6. g < h => tpos[g] <= tpos[h]
    BY <2>4, <2>5
  <2>7. QED
    BY <2>1, <2>2, <2>3, <2>6 DEF Ahead, NotBehind
<1>16. QED
  BY <1>9, <1>13, <1>14, <1>15 DEF a, M, rules

\* The first of the rules with a role is a matched one that no other is before.
LEMMA FirstNamed ==
  ASSUME NEW plugin \in Plugins, NEW q, NEW ctx
  PROVE  LET n == Named(plugin, q, ctx)
             N == Naming(plugin, q, ctx)
         IN /\ n = <<>> <=> N = {}
            /\ N # {} => \E i \in N : /\ n[1] = plugin.rules[i]
                                      /\ \A j \in N : NotBehind(plugin.rules, i, j)
<1> DEFINE a == Asked(plugin, q, ctx)
           M == Matching(plugin, q, ctx)
           n == Named(plugin, q, ctx)
           N == Naming(plugin, q, ctx)
           rules == plugin.rules
           A == {a[k] : k \in DOMAIN a}
           J == {k \in DOMAIN a : a[k].role # NoValue}
<1>1. IsList(a)
  BY AskedPlaces
<1>2. PICK pos : /\ \A k \in DOMAIN a : pos[k] \in M /\ a[k] = rules[pos[k]]
                 /\ \A i \in M : \E k \in DOMAIN a : pos[k] = i
                 /\ \A k, l \in DOMAIN a : k < l => NotBehind(rules, pos[k], pos[l])
  BY AskedPlaces
<1>3. n = Picked(a, J)
  BY DEF Named
<1>4. \A i : i \in N <=> i \in M /\ rules[i].role # NoValue
  BY DEF Naming
<1>5. a \in Seq(A) /\ DOMAIN a = 1 .. Len(a)
  BY <1>1, ListType
<1>6. \A k \in DOMAIN a : k \in J <=> a[k].role # NoValue
  OBVIOUS
<1>7. \A i \in M : Rank(rules[i]) \in Int /\ i \in Int
  <2>1. \A i \in M : i \in DOMAIN plugin.rules
    BY DEF Matching
  <2>2. \A i \in DOMAIN plugin.rules : i \in Int /\ ValidRule(plugin.rules[i])
    <3>1. IsList(rules) /\ \A i \in DOMAIN rules : ValidRule(rules[i])
      BY InputAssumption DEF ValidPlugin
    <3> HIDE DEF rules
    <3>2. Len(rules) \in Nat /\ DOMAIN rules = 1 .. Len(rules)
      BY <3>1, ListType
    <3>3. \A i \in DOMAIN rules : i \in Int /\ ValidRule(rules[i])
      BY <3>1, <3>2
    <3>4. QED
      BY <3>3 DEF rules
  <2>3. QED
    BY <2>1, <2>2, Ranks DEF ValidRule, Rank
<1> HIDE DEF a, M, n, N, rules, A, J
<1>8. n \in Seq(A) /\ \E p : IsChoice(p, n, a, Len(a), J)
  BY <1>3, <1>5, PickedPlaces
<1>9. PICK p : IsChoice(p, n, a, Len(a), J)
  BY <1>8
<1>10. \A k \in DOMAIN n : p[k] \in DOMAIN a /\ p[k] \in J /\ n[k] = a[p[k]]
  BY <1>5, <1>9 DEF IsChoice
<1>11. ASSUME NEW j \in N
       PROVE  \E k \in DOMAIN n : pos[p[k]] = j
  <2>1. PICK h \in DOMAIN a : pos[h] = j
    BY <1>2, <1>4
  <2>2. h \in J
    BY <1>2, <1>4, <1>6, <2>1
  <2>3. PICK k \in DOMAIN n : p[k] = h
    BY <1>5, <1>9, <2>2 DEF IsChoice
  <2>4. QED
    BY <2>1, <2>3
<1>12. \A k \in DOMAIN n : pos[p[k]] \in N /\ n[k] = rules[pos[p[k]]]
  BY <1>2, <1>4, <1>6, <1>10
<1>13. n = <<>> <=> N = {}
  <2>1. n = <<>> => DOMAIN n = {}
    OBVIOUS
  <2>2. n # <<>> => 1 \in DOMAIN n
    BY <1>8
  <2>3. QED
    BY <1>11, <1>12, <2>1, <2>2
<1>14. ASSUME N # {}
       PROVE  \E i \in N : n[1] = rules[i] /\ \A j \in N : NotBehind(rules, i, j)
  <2> DEFINE i == pos[p[1]]
  <2>1. 1 \in DOMAIN n
    BY <1>8, <1>13, <1>14
  <2>2. i \in N /\ n[1] = rules[i]
    BY <1>12, <2>1
  <2>3. ASSUME NEW j \in N
        PROVE  NotBehind(rules, i, j)
    <3>1. PICK k \in DOMAIN n : pos[p[k]] = j
      BY <1>11
    <3>2. CASE k = 1
      BY <1>4, <1>7, <3>1, <3>2 DEF NotBehind
    <3>3. CASE k # 1
      <4>1. 1 < k
        BY <1>8, <3>3
      <4>2. p[1] < p[k]
        BY <1>9, <2>1, <4>1 DEF IsChoice
      <4>3. QED
        BY <1>2, <1>10, <2>1, <3>1, <4>2
    <3>4. QED
      BY <3>2, <3>3
  <2>4. QED
    BY <2>2, <2>3
<1>15. QED
  BY <1>13, <1>14 DEF n, N, rules

\* The ticket's role is that of the first named rule, if any.
LEMMA RoleNow == StateInv => StrictestRole
<1> SUFFICES ASSUME StateInv, FromPolicy, response.ticket # NoValue
             PROVE  StrictestRole
  BY DEF StrictestRole
<1> DEFINE rules == in.plugin.rules
           n == Named(in.plugin, in.request, verified)
           N == Naming(in.plugin, in.request, verified)
           role == response.ticket.role
<1>1. /\ in.plugin \in Plugins
      /\ IsAnswer(response, in.plugin, in.request, in.caller, verified, in.signs)
  BY FromPolicyAnswer, AnswerParts
<1>2. role = ApproverRole(in.plugin, in.request,
                          Triggered(in.plugin, in.request, verified))
  BY <1>1 DEF IsAnswer
<1>3. role = CASE n # <<>> -> n[1].role
               [] /\ n = <<>> /\ Declared /\ Policy.role # NoValue -> Policy.role
               [] OTHER -> in.plugin.defaultRole
  BY <1>2 DEF ApproverRole, Named, Asked, Declared, Policy
<1>4. N = {i \in Matched : rules[i].role # NoValue}
  BY DEF Naming, Matching, Matched, MatchedBy
<1>5. /\ n = <<>> <=> N = {}
      /\ N # {} => \E i \in N : n[1] = rules[i] /\ \A j \in N : NotBehind(rules, i, j)
  BY <1>1, FirstNamed
<1> HIDE DEF n, N, role
<1>6. IF N # {}
      THEN \E i \in N : role = rules[i].role /\ \A j \in N : NotBehind(rules, i, j)
      ELSE role = IF Declared /\ Policy.role # NoValue THEN Policy.role
                  ELSE in.plugin.defaultRole
  <2>1. CASE N # {}
    BY <1>3, <1>5, <2>1
  <2>2. CASE N = {}
    BY <1>3, <1>5, <2>2
  <2>3. QED
    BY <2>1, <2>2
<1>7. QED
  BY <1>4, <1>6 DEF StrictestRole, NotBehind, Rank, role

\* A ticket asks the role of the matched rule with a role that is strictest,
\* or as strict as another and earlier in the policy (engine.py:
\* _approver_role).
THEOREM RoleIsStrictest == Spec => []StrictestRole
BY RoleNow, StateInvariant, PTL

=============================================================================
