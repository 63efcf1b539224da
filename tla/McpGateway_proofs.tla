--------------------------- MODULE McpGateway_proofs ---------------------------
(***************************************************************************)
(* Theorems about McpGateway, for any calls, messages, rules and workers.  *)
(***************************************************************************)
EXTENDS McpGateway, WellFoundedInduction, TLAPS

(***************************************************************************)
(* What the verdicts of the SDKs mean.                                     *)
(***************************************************************************)

Tools     == {r.tool : r \in Requests}
Tenants   == {r.tenant : r \in Requests}
Arguments == {r.args : r \in Requests} \cup {WithCedar(r.args) : r \in Requests}

Passport  == [jti : Nat, grant : Nat, tool : Tools, tenant : Tenants,
              payload : Payloads]
Row       == [status : {"pending", "denied", "approved"}, tool : Tools,
              tenant : Tenants, payload : Payloads]
Execution == [passport : Nat, tool : Tools, args : Arguments]

LEMMA LeastFailure ==
  ASSUME NEW S \in SUBSET Nat, S # {}
  PROVE  Min(S) \in S
<1> DEFINE Less == {ss \in Nat \X Nat : ss[1] < ss[2]}
<1>1. IsWellFoundedOn(Less, Nat)
  BY NatLessThanWellFounded DEF OpToRel
<1>2. \A x, y \in S : y < x => <<y, x>> \in Less
  OBVIOUS
<1> HIDE DEF Less
<1>3. PICK x \in S : \A y \in S : ~ (<<y, x>> \in Less)
  BY <1>1, WFMin
<1>4. \A y \in S : x <= y
  <2>1. \A y \in S : ~ (y < x)
    BY <1>2, <1>3, Zenon
  <2>2. QED
    BY <2>1
<1>5. QED
  BY <1>4 DEF Min

\* The claims of a Passport that passes verify_passport fit this tenant, tool
\* and payload.
LEMMA PassportVerdict ==
  ASSUME NEW p \in Passport, NEW live \in BOOLEAN, NEW payload, NEW tool, NEW tenant,
         VerifyPassport(p, live, payload, tool, tenant) = "ok"
  PROVE  /\ tenant \in {NoValue, p.tenant}
         /\ p.tool = tool /\ p.payload = payload
<1> DEFINE checks == PassportChecks(p, live, payload, tool, tenant)
           failed == {i \in DOMAIN checks : ~checks[i].ok}
<1>1. /\ DOMAIN checks = 1..4
      /\ \A i \in 1..4 : checks[i].code \in
           {"JWT_ERROR", "TENANT_ID_MISMATCH", "ACTION_TYPE_MISMATCH",
            "PAYLOAD_TAMPERED"}
  BY DEF PassportChecks
<1>2. /\ checks[2].ok = (tenant \in {NoValue, p.tenant})
      /\ checks[3].ok = (p.tool = tool) /\ checks[4].ok = (p.payload = payload)
  BY DEF PassportChecks
<1> HIDE DEF checks
<1>3. "ok" = IF failed = {} THEN "ok" ELSE checks[Min(failed)].code
  BY DEF VerifyPassport, FirstFailure, checks
<1>4. CASE failed = {}
  <2>1. checks[2].ok /\ checks[3].ok /\ checks[4].ok
    BY <1>1, <1>4
  <2>2. QED
    BY <1>2, <2>1
<1>5. CASE failed # {}
  <2>1. failed \in SUBSET Nat /\ failed \subseteq 1..4
    BY <1>1
  <2> HIDE DEF failed
  <2>2. Min(failed) \in 1..4
    BY <1>5, <2>1, LeastFailure
  <2>3. QED
    BY <1>1, <1>3, <1>5, <2>2
<1>6. QED
  BY <1>4, <1>5

\* A code that stores the Passport says that the cache did not hold its jti;
\* what runs has its arguments in the payload, what is refused then has not.
LEMMA CallVerdict ==
  ASSUME NEW s, NEW jti, NEW payload, NEW cache, NEW args
  PROVE  LET code == VerifyMcpToolCall(s, jti, payload, cache, args) IN
         /\ Stored(code) => jti \notin cache
         /\ code = "ok" => Covered(s, args, payload)
         /\ code = "ARGUMENTS_MISMATCH" => ~Covered(s, args, payload)
<1>1. CASE jti \in cache
  BY <1>1 DEF VerifyMcpToolCall, SeenBefore, Stored
<1>2. CASE jti \notin cache /\ ~Covered(s, args, payload)
  BY <1>2 DEF VerifyMcpToolCall, SeenBefore, Stored
<1>3. CASE jti \notin cache /\ Covered(s, args, payload)
  BY <1>3 DEF VerifyMcpToolCall, SeenBefore, Stored
<1>4. QED
  BY <1>1, <1>2, <1>3

\* The context the interceptor adds is the one argument that is not compared.
LEMMA CedarIgnored ==
  ASSUME NEW s, NEW args, NEW payload
  PROVE  Covered(s, WithCedar(args), payload) <=> Covered(s, args, payload)
<1>1. /\ DOMAIN WithCedar(args) \ {"axg"} = DOMAIN args \ {"axg"}
      /\ \A f \in DOMAIN args \ {"axg"} : WithCedar(args)[f] = args[f]
  BY DEF WithCedar
<1>2. QED
  BY <1>1 DEF Covered

(***************************************************************************)
(* The inductive invariant.                                                *)
(***************************************************************************)

\* The values of the state and what they refer to.
DataOK ==
  /\ sdk \in {"python", "node"}
  /\ DOMAIN calls = Calls /\ DOMAIN worker = Workers
  /\ passports \in Seq(Passport)
  /\ queue \in [DOMAIN queue -> Row]
  /\ ran \in Seq(Execution)
  /\ held \cup seen \cup spent \subseteq DOMAIN passports
  /\ \A n \in DOMAIN ran : ran[n].passport \in DOMAIN passports
  /\ DOMAIN queue \subseteq 1 .. ids
  /\ sent \in 0 .. MaxSent /\ ids \in 0 .. MaxIds
  /\ dead \in 0 .. Len(passports)

\* The Passports of exchanges whose row is not closed yet.
Exchanged ==
  {worker[w].passport : w \in {v \in Workers : worker[v].pc = "exchanged"}} \ {0}

WorkerOK(w) ==
  \/ worker[w] = Idle
  \/ /\ worker[w].pc = "taken" /\ worker[w].ticket \in DOMAIN queue
  \/ /\ worker[w].pc = "exchanged" /\ worker[w].ticket \in DOMAIN queue
     /\ worker[w].passport \in DOMAIN passports \cup {0}

\* A call that waits for AXG has the arguments of a message of the host.
GovernedOK(call) ==
  /\ call.passport \in held \cup {0}
  /\ \E r \in Requests :
       call.args = r.args /\ call.tool = r.tool /\ call.tenant = r.tenant

\* A call is forwarded with a Passport of the host that covers its arguments,
\* or with the one that its own decision came with.
SentOK(call) ==
  /\ call.passport \in DOMAIN passports
  /\ call.tool \in Tools
  /\ call.now \in 0 .. dead
  /\ \E r \in Requests :
       /\ call.args \in {r.args, WithCedar(r.args)}
       /\ IF call.passport \in held
          THEN Covered("python", r.args, passports[call.passport].payload)
          ELSE /\ call.passport \notin Exchanged
               /\ <<r.args, passports[call.passport].payload>> \in Rewrites

\* A call whose Passport was decoded carries one that fits it.
ClaimsOK(call) ==
  LET p == passports[call.passport]
  IN p.tool = call.tool /\ ToolTenant \in {NoValue, p.tenant} /\ p.payload = call.payload

CallOK(call) ==
  /\ call.pc \in {"idle", "governed", "passed"} \cup Underway
  /\ call.pc = "passed" => call.kind = "other"
  /\ call.pc = "governed" => GovernedOK(call)
  /\ call.pc \in Underway => SentOK(call)
  /\ call.pc \in {"decoded", "clocked"} => ClaimsOK(call)

\* The Passports of a ticket have its jti; one that ran stays in the replay
\* cache as long as it lives.
JtiIsGrant == \A i \in DOMAIN passports : passports[i].jti = passports[i].grant

RanIsSeen == \A n \in DOMAIN ran :
  Live(ran[n].passport) => ran[n].passport \in seen

SpentOK == \A i \in spent : i \in held \/ i \notin Exchanged

FlowInv ==
  /\ DataOK
  /\ \A w \in Workers : WorkerOK(w)
  /\ \A c \in Calls : CallOK(calls[c])
  /\ SpentOK /\ SpentHasCause

UseInv == JtiIsGrant /\ RanIsSeen /\ RunsAsAuthorised /\ OncePerAuthorisation

GateInv == FlowInv /\ UseInv

-----------------------------------------------------------------------------
(* What every step preserves of the Passports and of who holds them.         *)

Kept(i) ==
  /\ passports'[i].payload = passports[i].payload
  /\ passports'[i].tool = passports[i].tool
  /\ passports'[i].tenant = passports[i].tenant
  /\ passports'[i].jti = passports[i].jti
  /\ passports'[i].grant = passports[i].grant

Grown ==
  /\ DOMAIN passports \subseteq DOMAIN passports'
  /\ \A i \in DOMAIN passports : Kept(i)
  /\ held \subseteq held'
  /\ (held' \cup Exchanged') \cap DOMAIN passports \subseteq held \cup Exchanged
  /\ DOMAIN queue \subseteq DOMAIN queue'
  /\ dead' \in Nat /\ dead <= dead'
  /\ UNCHANGED sdk

LEMMA CallFrame ==
  ASSUME DataOK, Grown, NEW c \in Calls, CallOK(calls[c]), calls'[c] = calls[c]
  PROVE  CallOK(calls[c])'
<1> DEFINE call == calls[c]
<1>1. calls'[c] = call
  OBVIOUS
<1>2. GovernedOK(call) => GovernedOK(calls[c])'
  BY <1>1 DEF Grown, GovernedOK
<1>3. SentOK(call) => SentOK(calls[c])'
  <2>1. ASSUME SentOK(call)
        PROVE  /\ call.passport \in DOMAIN passports'
               /\ passports'[call.passport].payload = passports[call.passport].payload
               /\ call.passport \in held => call.passport \in held'
               /\ call.passport \notin held \cup Exchanged
                    => call.passport \notin held' \cup Exchanged'
    BY <2>1 DEF SentOK, Grown, Kept
  <2>2. SentOK(call) => call.now \in 0 .. dead'
    BY DEF SentOK, Grown, DataOK
  <2>3. QED
    BY <1>1, <2>1, <2>2 DEF SentOK
<1>4. SentOK(call) /\ ClaimsOK(call) => ClaimsOK(calls[c])'
  BY <1>1 DEF SentOK, ClaimsOK, Grown, Kept
<1>5. QED
  BY <1>1, <1>2, <1>3, <1>4 DEF CallOK, Underway

LEMMA WorkerFrame ==
  ASSUME Grown, NEW w \in Workers, WorkerOK(w), worker'[w] = worker[w]
  PROVE  WorkerOK(w)'
BY DEF Grown, WorkerOK

LEMMA SpentFrame ==
  ASSUME DataOK, SpentOK, SpentHasCause, Grown, spent' = spent
  PROVE  SpentOK' /\ SpentHasCause'
<1>1. \A i \in spent : /\ i \in DOMAIN passports
                       /\ passports'[i].payload = passports[i].payload
                       /\ i \in held <=> i \in held'
                       /\ i \in held' \/ i \notin Exchanged'
  BY DEF DataOK, SpentOK, Grown, Kept
<1>2. SpentOK'
  BY <1>1 DEF SpentOK
<1>3. ASSUME NEW i \in spent
      PROVE  \E r \in Requests :
               /\ ~Covered(sdk', r.args, passports'[i].payload)
               /\ IF i \in held' THEN Covered("python", r.args, passports'[i].payload)
                  ELSE <<r.args, passports'[i].payload>> \in Rewrites
  <2>1. PICK r \in Requests :
          /\ ~Covered(sdk, r.args, passports[i].payload)
          /\ IF i \in held THEN Covered("python", r.args, passports[i].payload)
             ELSE <<r.args, passports[i].payload>> \in Rewrites
    BY <1>3 DEF SpentHasCause
  <2>2. sdk' = sdk /\ passports'[i].payload = passports[i].payload
        /\ (i \in held <=> i \in held')
    BY <1>1, <1>3 DEF Grown
  <2>3. QED
    BY <2>1, <2>2
<1>4. SpentHasCause'
  BY <1>3 DEF SpentHasCause, Covered, SameValue
<1>5. QED
  BY <1>2, <1>4

\* Nothing is executed in the step.
LEMMA UseFrame ==
  ASSUME DataOK, UseInv, Grown, ran' = ran,
         \A i \in seen : i > dead' => i \in seen',
         JtiIsGrant'
  PROVE  UseInv'
<1>1. \A n \in DOMAIN ran : ran[n].passport \in DOMAIN passports /\ Kept(ran[n].passport)
  BY DEF DataOK, Grown
<1>2. \A n \in DOMAIN ran : ran[n].passport > dead' => ran[n].passport > dead
  BY <1>1 DEF DataOK, Grown
<1>3. RanIsSeen'
  BY <1>1, <1>2 DEF UseInv, RanIsSeen, Live
<1>4. RunsAsAuthorised'
  BY <1>1 DEF UseInv, RunsAsAuthorised, Grown, Kept
<1>5. OncePerAuthorisation'
  BY <1>1, <1>2 DEF UseInv, OncePerAuthorisation, Kept, Live
<1>6. QED
  BY <1>3, <1>4, <1>5 DEF UseInv

LEMMA ExchangedStep ==
  ASSUME DataOK, NEW w \in Workers, NEW state, SetWorker(w, state)
  PROVE  /\ state.pc = "exchanged" => Exchanged' \subseteq Exchanged \cup {state.passport}
         /\ state.pc # "exchanged" \/ state.passport = 0 => Exchanged' \subseteq Exchanged
<1>1. worker'[w] = state /\ \A v \in Workers \ {w} : worker'[v] = worker[v]
  BY DEF SetWorker, DataOK
<1>2. QED
  BY <1>1 DEF Exchanged

\* The steps of the gateway that only move the call on.
LEMMA GateStep ==
  ASSUME GateInv, NEW c \in Calls, NEW state, Goto(c, state), CallOK(state),
         UNCHANGED <<sdk, dead, axgVars, queueVars, toolVars>>,
         sent' \in 0 .. MaxSent
  PROVE  GateInv'
<1>1. calls'[c] = state /\ DOMAIN calls' = Calls
      /\ \A d \in Calls \ {c} : calls'[d] = calls[d]
  BY DEF GateInv, FlowInv, DataOK, Goto
<1>2. UNCHANGED <<sdk, dead, passports, ids, held, queue, worker, seen, ran, spent>>
  BY DEF axgVars, queueVars, toolVars
<1>3. Exchanged' = Exchanged
  BY <1>2 DEF Exchanged
<1>4. Grown
  BY <1>2, <1>3 DEF Grown, Kept, GateInv, FlowInv, DataOK
<1>5. DataOK'
  BY <1>1, <1>2 DEF GateInv, FlowInv, DataOK
<1>6. CallOK(calls[c])'
  BY <1>1, <1>2, <1>3 DEF CallOK, GovernedOK, SentOK, ClaimsOK, Underway, Covered, SameValue
<1>7. \A d \in Calls : CallOK(calls[d])'
  BY <1>1, <1>4, <1>6, CallFrame DEF GateInv, FlowInv
<1>8. \A w \in Workers : WorkerOK(w)'
  BY <1>2, <1>4, WorkerFrame DEF GateInv, FlowInv
<1>9. SpentOK' /\ SpentHasCause'
  BY <1>2, <1>4, SpentFrame DEF GateInv, FlowInv
<1>10. JtiIsGrant'
  BY <1>2 DEF GateInv, UseInv, JtiIsGrant
<1>11. UseInv'
  BY <1>2, <1>4, <1>10, UseFrame DEF GateInv, FlowInv
<1>12. QED
  BY <1>5, <1>7, <1>8, <1>9, <1>11 DEF GateInv, FlowInv

-----------------------------------------------------------------------------
(* The gateway.                                                              *)

LEMMA IdleOK == CallOK(Idle)
BY DEF CallOK, Idle, Underway

LEMMA PassOnStep ==
  ASSUME GateInv, NEW c \in Calls, NEW r \in Requests, PassOn(c, r)
  PROVE  GateInv'
<1> DEFINE state == [pc |-> "passed", kind |-> r.kind]
<1>1. r.kind = "other"
  BY GatewayAssumption DEF PassOn, PassedOn
<1>2. CallOK(state)
  BY <1>1 DEF CallOK, Underway
<1>3. Goto(c, state) /\ UNCHANGED <<sdk, dead, sent, axgVars, queueVars, toolVars>>
  BY DEF PassOn
<1>4. sent' \in 0 .. MaxSent
  BY <1>3 DEF GateInv, FlowInv, DataOK
<1> HIDE DEF state
<1>5. QED
  BY <1>2, <1>3, <1>4, GateStep

LEMMA GovernStep ==
  ASSUME GateInv, NEW c \in Calls, NEW r \in Requests,
         NEW carried \in held \cup {0}, NEW stated, Govern(c, r, carried, stated)
  PROVE  GateInv'
<1> DEFINE state == [pc |-> "governed", tool |-> r.tool, tenant |-> r.tenant,
                     args |-> r.args, passport |-> carried, payload |-> stated]
<1>1. CallOK(state)
  BY DEF CallOK, GovernedOK, Underway
<1>2. Goto(c, state) /\ UNCHANGED <<sdk, dead, axgVars, queueVars, toolVars>>
  BY DEF Govern
<1>3. sent' \in 0 .. MaxSent
  BY GatewayAssumption DEF Govern, GateInv, FlowInv, DataOK
<1> HIDE DEF state
<1>4. QED
  BY <1>1, <1>2, <1>3, GateStep

LEMMA ApprovedStep ==
  ASSUME GateInv, NEW c \in Calls, NEW heard, Approved(c, heard)
  PROVE  GateInv'
<1> DEFINE call == calls[c]
           state == IF ApprovedCall(call, heard)
                    THEN ToTool(call.tool, call.args, call.passport, call.payload)
                    ELSE Idle
<1>1. GovernedOK(call) /\ call.passport \in held
  <2>1. GovernedOK(call) /\ call.passport # 0
    BY DEF GateInv, FlowInv, CallOK, Approved
  <2>2. QED
    BY <2>1 DEF GovernedOK
<1>2. CallOK(state)
  <2>1. CASE ApprovedCall(call, heard)
    <3>1. /\ call.passport \in DOMAIN passports
          /\ Covered("python", call.args, passports[call.passport].payload)
      BY <1>1, <2>1 DEF ApprovedCall, GateInv, FlowInv, DataOK
    <3>2. PICK r \in Requests : call.args = r.args /\ call.tool = r.tool
      BY <1>1 DEF GovernedOK
    <3>3. /\ state.pc = "sent" /\ state.passport = call.passport
          /\ state.tool = call.tool /\ state.args = call.args /\ state.now = 0
      BY <2>1 DEF ToTool
    <3> HIDE DEF state
    <3>4. SentOK(state)
      BY <1>1, <3>1, <3>2, <3>3 DEF SentOK, Tools, GateInv, FlowInv, DataOK
    <3>5. QED
      BY <3>3, <3>4 DEF CallOK, Underway
  <2>2. CASE ~ApprovedCall(call, heard)
    BY <2>2, IdleOK
  <2>3. QED
    BY <2>1, <2>2
<1>3. Goto(c, state) /\ UNCHANGED <<sdk, dead, sent, axgVars, queueVars, toolVars>>
  BY DEF Approved
<1>4. sent' \in 0 .. MaxSent
  BY <1>3 DEF GateInv, FlowInv, DataOK
<1> HIDE DEF state
<1>5. QED
  BY <1>2, <1>3, <1>4, GateStep

LEMMA ForwardStep ==
  ASSUME GateInv, NEW c \in Calls, Forward(c)
  PROVE  GateInv'
<1>1. Goto(c, Idle) /\ UNCHANGED <<sdk, dead, sent, axgVars, queueVars, toolVars>>
  BY DEF Forward
<1>2. sent' \in 0 .. MaxSent
  BY <1>1 DEF GateInv, FlowInv, DataOK
<1>3. QED
  BY <1>1, <1>2, IdleOK, GateStep

-----------------------------------------------------------------------------
(* AXG signs.                                                                *)

LEMMA SignedType ==
  ASSUME NEW jti \in Nat, NEW tool \in Tools, NEW tenant \in Tenants,
         NEW payload \in Payloads
  PROVE  /\ NewPassport(jti, jti, tool, tenant, payload) \in Passport
         /\ NewPassport(jti, jti, tool, tenant, payload).jti
              = NewPassport(jti, jti, tool, tenant, payload).grant
         /\ NewPassport(jti, jti, tool, tenant, payload).payload = payload
BY DEF NewPassport, Passport

\* Signing appends a Passport that nobody holds yet.
LEMMA SignStep ==
  ASSUME DataOK, JtiIsGrant, NEW p \in Passport, p.jti = p.grant,
         passports' = Append(passports, p)
  PROVE  /\ passports' \in Seq(Passport)
         /\ DOMAIN passports \subseteq DOMAIN passports'
         /\ Len(passports') \in DOMAIN passports' /\ Len(passports') # 0
         /\ Len(passports') \notin DOMAIN passports
         /\ passports'[Len(passports')] = p
         /\ \A i \in DOMAIN passports : passports'[i] = passports[i] /\ Kept(i)
         /\ Len(passports) <= Len(passports')
         /\ JtiIsGrant'
<1>1. /\ passports' \in Seq(Passport) /\ Len(passports) \in Nat
      /\ Len(passports') = Len(passports) + 1
      /\ DOMAIN passports = 1..Len(passports) /\ DOMAIN passports' = 1..Len(passports')
      /\ passports'[Len(passports')] = p
      /\ \A i \in DOMAIN passports : passports'[i] = passports[i]
  BY DEF DataOK
<1>2. \A i \in DOMAIN passports : Kept(i)
  BY <1>1 DEF Kept
<1>3. JtiIsGrant'
  BY <1>1 DEF JtiIsGrant
<1>4. QED
  BY <1>1, <1>2, <1>3

LEMMA AskStep ==
  ASSUME GateInv, NEW c \in Calls, NEW answer \in Answers, NEW payload \in Payloads,
         Ask(c, answer, payload)
  PROVE  GateInv'
<1> DEFINE call == calls[c]
           new == NewPassport(ids', ids', call.tool, call.tenant, payload)
           state == IF LetsThrough(answer)
                    THEN ToTool(call.tool, WithCedar(call.args), Len(passports'), payload)
                    ELSE Idle
           row == [status |-> "pending", tool |-> call.tool,
                   tenant |-> call.tenant, payload |-> payload]
<1>1. DataOK /\ JtiIsGrant /\ UseInv /\ SpentOK /\ SpentHasCause
  BY DEF GateInv, FlowInv, UseInv
<1>2. PICK r \in Requests :
        call.args = r.args /\ call.tool = r.tool /\ call.tenant = r.tenant
  BY DEF GateInv, FlowInv, CallOK, GovernedOK, Ask
<1>3. ids' = ids + 1 /\ ids' \in 0 .. MaxIds /\ ids' \in Nat /\ ids \in Nat
  BY <1>1, GatewayAssumption DEF Ask, DataOK
<1>4. /\ UNCHANGED <<sdk, dead, sent, held, worker, seen, ran, spent>>
      /\ Goto(c, state) /\ <<call.args, payload>> \in Rewrites
      /\ passports' = IF answer.passport THEN Append(passports, new) ELSE passports
      /\ queue' = queue \/ AddRow(ids', call, payload)
  BY DEF Ask, toolVars
<1>5. new \in Passport /\ new.jti = new.grant /\ new.payload = payload
  <2>1. call.tool \in Tools /\ call.tenant \in Tenants
    BY <1>2 DEF Tools, Tenants
  <2>2. PICK id \in Nat : id = ids'
    BY <1>3
  <2> HIDE DEF call
  <2>3. QED
    BY <2>1, <2>2, SignedType
<1>6. \/ state = Idle
      \/ /\ answer.passport /\ state.pc = "sent" /\ state.now = 0
         /\ state.tool = call.tool /\ state.args = WithCedar(call.args)
         /\ state.passport = Len(passports')
  BY DEF ToTool, LetsThrough
<1> HIDE DEF new, state
<1>7. Exchanged' = Exchanged
  BY <1>4 DEF Exchanged
<1>8. \A i \in Exchanged : i \in DOMAIN passports
  BY DEF GateInv, FlowInv, WorkerOK, Exchanged, Idle
<1>9. /\ passports' \in Seq(Passport) /\ JtiIsGrant'
      /\ DOMAIN passports \subseteq DOMAIN passports'
      /\ \A i \in DOMAIN passports : Kept(i)
      /\ Len(passports) <= Len(passports')
      /\ answer.passport =>
           /\ Len(passports') \in DOMAIN passports' \ DOMAIN passports
           /\ Len(passports') # 0
           /\ passports'[Len(passports')].payload = payload
  <2>1. CASE answer.passport
    BY <1>1, <1>4, <1>5, <2>1, SignStep
  <2>2. CASE ~answer.passport
    <3>1. passports' = passports
      BY <1>4, <2>2
    <3>2. QED
      BY <1>1, <2>2, <3>1 DEF DataOK, Kept, JtiIsGrant
  <2>3. QED
    BY <2>1, <2>2
<1>10. queue' \in [DOMAIN queue' -> Row] /\ DOMAIN queue \subseteq DOMAIN queue'
       /\ DOMAIN queue' \subseteq 1 .. ids'
  <2>1. CASE queue' = queue
    BY <1>1, <1>3, <2>1 DEF DataOK
  <2>2. CASE AddRow(ids', call, payload)
    <3>1. row \in Row
      BY <1>2 DEF Row, Tools, Tenants
    <3>2. queue' = [u \in DOMAIN queue \cup {ids'} |-> IF u # ids' THEN queue[u] ELSE row]
      BY <2>2 DEF AddRow
    <3> HIDE DEF row
    <3>3. QED
      BY <1>1, <1>3, <3>1, <3>2 DEF DataOK
  <2>3. QED
    BY <1>4, <2>1, <2>2
<1>11. Grown
  <2>1. dead' \in Nat /\ dead <= dead'
    BY <1>1, <1>4 DEF DataOK
  <2>2. QED
    BY <1>1, <1>4, <1>7, <1>9, <1>10, <2>1 DEF Grown
<1>12. calls'[c] = state /\ DOMAIN calls' = Calls
       /\ \A d \in Calls \ {c} : calls'[d] = calls[d]
  BY <1>1, <1>4 DEF DataOK, Goto
<1>13. DataOK'
  BY <1>1, <1>3, <1>4, <1>9, <1>10, <1>12 DEF DataOK
<1>14. CallOK(calls[c])'
  <2>1. CASE state = Idle
    BY <1>12, <2>1 DEF CallOK, Idle, Underway
  <2>2. CASE state # Idle
    <3>1. Len(passports') \notin held' \cup Exchanged'
      BY <1>1, <1>4, <1>6, <1>7, <1>8, <1>9, <2>2 DEF DataOK
    <3>2. call.tool \in Tools /\ 0 \in 0 .. dead'
      BY <1>1, <1>2, <1>4 DEF Tools, DataOK
    <3>3. SentOK(calls[c])'
      BY <1>2, <1>4, <1>6, <1>9, <1>12, <2>2, <3>1, <3>2 DEF SentOK
    <3>4. QED
      BY <1>6, <1>12, <2>2, <3>3 DEF CallOK, Underway
  <2>3. QED
    BY <2>1, <2>2
<1>15. \A d \in Calls : CallOK(calls[d])'
  BY <1>1, <1>11, <1>12, <1>14, CallFrame DEF GateInv, FlowInv
<1>16. \A w \in Workers : WorkerOK(w)'
  BY <1>4, <1>11, WorkerFrame DEF GateInv, FlowInv
<1>17. SpentOK' /\ SpentHasCause'
  BY <1>1, <1>4, <1>11, SpentFrame
<1>18. UseInv'
  BY <1>1, <1>4, <1>9, <1>11, UseFrame
<1>19. QED
  BY <1>13, <1>15, <1>16, <1>17, <1>18 DEF GateInv, FlowInv

-----------------------------------------------------------------------------
(* The approval queue.                                                       *)

\* A step of a worker that signs nothing.
LEMMA WorkerStep ==
  ASSUME GateInv, NEW w \in Workers, NEW state, SetWorker(w, state),
         state.pc # "exchanged" \/ state.passport = 0,
         UNCHANGED <<sdk, dead, gateVars, axgVars, toolVars>>,
         queue' \in [DOMAIN queue' -> Row], DOMAIN queue' = DOMAIN queue,
         held \subseteq held', held' \subseteq held \cup Exchanged,
         \/ state = Idle
         \/ state.pc = "taken" /\ state.ticket \in DOMAIN queue
         \/ /\ state.pc = "exchanged" /\ state.passport = 0
            /\ state.ticket \in DOMAIN queue
  PROVE  GateInv'
<1>1. DataOK /\ JtiIsGrant /\ UseInv /\ SpentOK /\ SpentHasCause
  BY DEF GateInv, FlowInv, UseInv
<1>2. UNCHANGED <<sdk, dead, calls, sent, passports, ids, seen, ran, spent>>
  BY DEF gateVars, axgVars, toolVars
<1>3. worker'[w] = state /\ DOMAIN worker' = Workers
      /\ \A v \in Workers \ {w} : worker'[v] = worker[v]
  BY <1>1 DEF SetWorker, DataOK
<1>4. Exchanged' \subseteq Exchanged
  BY <1>1, ExchangedStep
<1>5. Exchanged \subseteq DOMAIN passports
  BY DEF GateInv, FlowInv, WorkerOK, Exchanged, Idle
<1>6. Grown
  BY <1>1, <1>2, <1>4 DEF Grown, Kept, DataOK
<1>7. DataOK'
  BY <1>1, <1>2, <1>3, <1>5 DEF DataOK
<1>8. \A c \in Calls : CallOK(calls[c])'
  BY <1>1, <1>2, <1>6, CallFrame DEF GateInv, FlowInv
<1>9. \A v \in Workers : WorkerOK(v)'
  <2>1. WorkerOK(w)'
    BY <1>3 DEF WorkerOK
  <2>2. QED
    BY <1>3, <1>6, <2>1, WorkerFrame DEF GateInv, FlowInv
<1>10. SpentOK' /\ SpentHasCause'
  BY <1>1, <1>2, <1>6, SpentFrame
<1>11. JtiIsGrant'
  BY <1>1, <1>2 DEF JtiIsGrant
<1>12. UseInv'
  BY <1>1, <1>2, <1>6, <1>11, UseFrame
<1>13. QED
  BY <1>7, <1>8, <1>9, <1>10, <1>12 DEF GateInv, FlowInv

LEMMA QueueStep ==
  ASSUME GateInv, NEW w \in Workers,
         \/ \E t \in DOMAIN queue : Take(w, t)
         \/ RefuseTicket(w) \/ Deny(w) \/ CloseRow(w)
  PROVE  GateInv'
<1>1. DataOK /\ WorkerOK(w)
  BY DEF GateInv, FlowInv
<1>2. Idle.pc # "exchanged"
  BY DEF Idle
<1>3. ASSUME NEW t \in DOMAIN queue, NEW status \in {"denied", "approved"}
      PROVE  LET next == [queue EXCEPT ![t].status = status]
             IN next \in [DOMAIN next -> Row] /\ DOMAIN next = DOMAIN queue
  <2>1. queue[t] \in Row
    BY <1>1 DEF DataOK
  <2>2. [queue[t] EXCEPT !.status = status] \in Row
    BY <2>1 DEF Row
  <2>3. QED
    BY <1>1, <2>2 DEF DataOK
<1>4. ASSUME NEW t \in DOMAIN queue, Take(w, t)
      PROVE  GateInv'
  <2> DEFINE state == [pc |-> "taken", ticket |-> t]
  <2>1. state.pc = "taken" /\ state.ticket \in DOMAIN queue
    OBVIOUS
  <2>2. SetWorker(w, state) /\ UNCHANGED <<sdk, dead, gateVars, axgVars, toolVars>>
        /\ queue' = queue /\ held' = held
    BY <1>4 DEF Take
  <2> HIDE DEF state
  <2>3. QED
    BY <1>1, <2>1, <2>2, WorkerStep DEF DataOK
<1>5. CASE RefuseTicket(w)
  <2>1. SetWorker(w, Idle) /\ UNCHANGED <<sdk, dead, gateVars, axgVars, toolVars>>
        /\ queue' = queue /\ held' = held
    BY <1>5 DEF RefuseTicket
  <2>2. QED
    BY <1>1, <1>2, <2>1, WorkerStep DEF DataOK
<1>6. CASE Deny(w)
  <2> DEFINE state == [pc |-> "exchanged", ticket |-> worker[w].ticket, passport |-> 0]
  <2>1. worker[w].ticket \in DOMAIN queue
    BY <1>1, <1>6 DEF Deny, WorkerOK, Idle
  <2>2. state.pc = "exchanged" /\ state.passport = 0 /\ state.ticket \in DOMAIN queue
    BY <2>1
  <2>3. /\ SetWorker(w, state) /\ UNCHANGED <<sdk, dead, gateVars, axgVars, toolVars>>
        /\ queue' = queue /\ held' = held
    BY <1>6 DEF Deny
  <2> HIDE DEF state
  <2>4. QED
    BY <1>1, <2>2, <2>3, WorkerStep DEF DataOK
<1>7. CASE CloseRow(w)
  <2> DEFINE i == worker[w].passport
             status == IF i = 0 THEN "denied" ELSE "approved"
  <2>1. /\ SetWorker(w, Idle) /\ UNCHANGED <<sdk, dead, gateVars, axgVars, toolVars>>
        /\ queue' = [queue EXCEPT ![worker[w].ticket].status = status]
        /\ held' = held \cup ({i} \ {0})
    BY <1>7 DEF CloseRow
  <2>2. /\ worker[w].ticket \in DOMAIN queue /\ {i} \ {0} \subseteq Exchanged
        /\ status \in {"denied", "approved"}
    BY <1>1, <1>7 DEF CloseRow, WorkerOK, Idle, Exchanged
  <2> HIDE DEF status
  <2>3. queue' \in [DOMAIN queue' -> Row] /\ DOMAIN queue' = DOMAIN queue
    BY <1>3, <2>1, <2>2
  <2>4. held \subseteq held' /\ held' \subseteq held \cup Exchanged
    BY <2>1, <2>2
  <2>5. QED
    BY <1>2, <2>1, <2>3, <2>4, WorkerStep
<1>8. QED
  BY <1>4, <1>5, <1>6, <1>7

LEMMA ExchangeStep ==
  ASSUME GateInv, NEW w \in Workers, NEW lost \in BOOLEAN, Exchange(w, lost)
  PROVE  GateInv'
<1> DEFINE t == worker[w].ticket
           new == NewPassport(t, t, queue[t].tool, queue[t].tenant, queue[t].payload)
           state == IF lost THEN Idle
                    ELSE [pc |-> "exchanged", ticket |-> t, passport |-> Len(passports')]
<1>1. DataOK /\ JtiIsGrant /\ UseInv /\ SpentOK /\ SpentHasCause /\ WorkerOK(w)
  BY DEF GateInv, FlowInv, UseInv
<1>2. t \in DOMAIN queue /\ t \in Nat /\ queue[t] \in Row
  BY <1>1 DEF Exchange, WorkerOK, Idle, DataOK
<1>3. /\ UNCHANGED <<sdk, dead, ids, calls, sent, held, queue, seen, ran, spent>>
      /\ SetWorker(w, state) /\ passports' = Append(passports, new)
  BY DEF Exchange, TicketJti, gateVars, toolVars
<1>4. new \in Passport /\ new.jti = new.grant
  BY <1>2, SignedType DEF Row
<1>5. \/ lost /\ state = Idle /\ state.pc = "idle"
      \/ /\ state.pc = "exchanged" /\ state.ticket = t
         /\ state.passport = Len(passports')
  BY DEF Idle
<1> HIDE DEF new, state
<1>6. /\ passports' \in Seq(Passport) /\ JtiIsGrant'
      /\ DOMAIN passports \subseteq DOMAIN passports'
      /\ \A i \in DOMAIN passports : Kept(i)
      /\ Len(passports') \in DOMAIN passports' \ DOMAIN passports
      /\ Len(passports) <= Len(passports')
  BY <1>1, <1>3, <1>4, SignStep
<1>7. Exchanged' \subseteq Exchanged \cup {Len(passports')}
  BY <1>1, <1>3, <1>5, ExchangedStep
<1>8. Grown
  BY <1>1, <1>3, <1>6, <1>7 DEF Grown, DataOK
<1>9. worker'[w] = state /\ DOMAIN worker' = Workers
      /\ \A v \in Workers \ {w} : worker'[v] = worker[v]
  BY <1>1, <1>3 DEF SetWorker, DataOK
<1>10. DataOK'
  BY <1>1, <1>3, <1>6, <1>9 DEF DataOK
<1>11. \A c \in Calls : CallOK(calls[c])'
  BY <1>1, <1>3, <1>8, CallFrame DEF GateInv, FlowInv
<1>12. \A v \in Workers : WorkerOK(v)'
  <2>1. WorkerOK(w)'
    BY <1>2, <1>3, <1>5, <1>6, <1>9 DEF WorkerOK
  <2>2. QED
    BY <1>8, <1>9, <2>1, WorkerFrame DEF GateInv, FlowInv
<1>13. SpentOK' /\ SpentHasCause'
  BY <1>1, <1>3, <1>8, SpentFrame
<1>14. UseInv'
  BY <1>1, <1>3, <1>6, <1>8, UseFrame
<1>15. QED
  BY <1>10, <1>11, <1>12, <1>13, <1>14 DEF GateInv, FlowInv

-----------------------------------------------------------------------------
(* The tool.                                                                 *)

LEMMA ExpireStep ==
  ASSUME GateInv, Expire
  PROVE  GateInv'
<1>1. DataOK /\ JtiIsGrant /\ UseInv /\ SpentOK /\ SpentHasCause
  BY DEF GateInv, FlowInv, UseInv
<1>2. /\ UNCHANGED <<sdk, passports, ids, calls, sent, held, queue, worker, seen,
                      ran, spent>>
      /\ dead' = dead + 1 /\ dead < Len(passports)
  BY DEF Expire, gateVars, axgVars, queueVars, toolVars
<1>3. dead \in Nat /\ dead' \in 0 .. Len(passports)
  BY <1>1, <1>2 DEF DataOK
<1>4. Exchanged' = Exchanged
  BY <1>2 DEF Exchanged
<1>5. Grown
  BY <1>2, <1>3, <1>4 DEF Grown, Kept
<1>6. DataOK'
  BY <1>1, <1>2, <1>3 DEF DataOK
<1>7. \A c \in Calls : CallOK(calls[c])'
  BY <1>1, <1>2, <1>5, CallFrame DEF GateInv, FlowInv
<1>8. \A w \in Workers : WorkerOK(w)'
  BY <1>2, <1>5, WorkerFrame DEF GateInv, FlowInv
<1>9. SpentOK' /\ SpentHasCause'
  BY <1>1, <1>2, <1>5, SpentFrame
<1>10. JtiIsGrant'
  BY <1>1, <1>2 DEF JtiIsGrant
<1>11. UseInv'
  BY <1>1, <1>2, <1>5, <1>10, UseFrame
<1>12. QED
  BY <1>6, <1>7, <1>8, <1>9, <1>11 DEF GateInv, FlowInv

\* A call moves on with the Passport and the payload it carries.
LEMMA AdvanceOK ==
  ASSUME NEW call, NEW pc \in {"decoded", "clocked"}, NEW now \in 0 .. dead,
         SentOK(call), ClaimsOK(call)
  PROVE  CallOK(Advance(call, pc, now))
<1> DEFINE next == Advance(call, pc, now)
<1>1. /\ next.pc = pc /\ next.now = now /\ next.tool = call.tool
      /\ next.args = call.args /\ next.passport = call.passport
      /\ next.payload = call.payload
  BY DEF Advance, ToTool
<1> HIDE DEF next
<1>2. SentOK(next)
  BY <1>1 DEF SentOK
<1>3. ClaimsOK(next)
  BY <1>1 DEF ClaimsOK
<1>4. CallOK(next)
  BY <1>1, <1>2, <1>3 DEF CallOK, Underway
<1>5. QED
  BY <1>4 DEF next

LEMMA DecodeStep ==
  ASSUME GateInv, NEW c \in Calls, Decode(c)
  PROVE  GateInv'
<1> DEFINE call == calls[c]
           verdict == VerifyPassport(passports[call.passport], Live(call.passport),
                                     call.payload, call.tool, ToolTenant)
           state == IF verdict = "ok" THEN Advance(call, "decoded", 0) ELSE Idle
<1>1. DataOK /\ SentOK(call)
  BY DEF GateInv, FlowInv, CallOK, Underway, Decode
<1>2. Goto(c, state) /\ UNCHANGED <<sdk, dead, sent, axgVars, queueVars, toolVars>>
  BY DEF Decode
<1>3. CallOK(state)
  <2>1. CASE verdict = "ok"
    <3>1. passports[call.passport] \in Passport /\ Live(call.passport) \in BOOLEAN
      BY <1>1 DEF SentOK, DataOK, Live
    <3>2. ClaimsOK(call)
      BY <2>1, <3>1, PassportVerdict DEF ClaimsOK
    <3>3. 0 \in 0 .. dead
      BY <1>1 DEF DataOK
    <3>4. CallOK(Advance(call, "decoded", 0))
      BY <1>1, <3>2, <3>3, AdvanceOK
    <3>5. QED
      BY <2>1, <3>4
  <2>2. CASE verdict # "ok"
    BY <2>2, IdleOK
  <2>3. QED
    BY <2>1, <2>2
<1>4. sent' \in 0 .. MaxSent
  BY <1>1, <1>2 DEF DataOK
<1> HIDE DEF state
<1>5. QED
  BY <1>2, <1>3, <1>4, GateStep

LEMMA ReadClockStep ==
  ASSUME GateInv, NEW c \in Calls, ReadClock(c)
  PROVE  GateInv'
<1> DEFINE state == Advance(calls[c], "clocked", dead)
<1>1. DataOK /\ SentOK(calls[c]) /\ ClaimsOK(calls[c])
  BY DEF GateInv, FlowInv, CallOK, Underway, ReadClock
<1>2. Goto(c, state) /\ UNCHANGED <<sdk, dead, sent, axgVars, queueVars, toolVars>>
  BY DEF ReadClock
<1>3. dead \in 0 .. dead
  BY <1>1 DEF DataOK
<1>4. CallOK(state)
  BY <1>1, <1>3, AdvanceOK
<1>5. sent' \in 0 .. MaxSent
  BY <1>1, <1>2 DEF DataOK
<1> HIDE DEF state
<1>6. QED
  BY <1>2, <1>4, <1>5, GateStep

LEMMA RunStep ==
  ASSUME GateInv, NEW c \in Calls, Run(c)
  PROVE  GateInv'
<1> DEFINE call == calls[c]
           i == call.passport
           p == passports[i]
           now == IF sdk = "python" THEN call.now ELSE dead
           kept == {j \in seen : j > now}
           code == VerifyMcpToolCall(sdk, p.jti, call.payload, Jtis(kept), call.args)
           use == [passport |-> i, tool |-> call.tool, args |-> call.args]
<1>1. DataOK /\ UseInv /\ SpentOK /\ SpentHasCause /\ SentOK(call) /\ ClaimsOK(call)
  BY DEF GateInv, FlowInv, CallOK, Underway, Run
<1>2. i \in DOMAIN passports /\ p \in Passport /\ i \in Nat
  BY <1>1 DEF SentOK, DataOK
<1>3. PICK r \in Requests :
        /\ call.args \in {r.args, WithCedar(r.args)}
        /\ IF i \in held THEN Covered("python", r.args, p.payload)
           ELSE i \notin Exchanged /\ <<r.args, p.payload>> \in Rewrites
  BY <1>1 DEF SentOK
<1>4. /\ UNCHANGED <<sdk, dead, sent, passports, ids, held, queue, worker>>
      /\ Goto(c, Idle)
      /\ seen' = IF Stored(code) THEN kept \cup {i} ELSE kept
      /\ ran' = IF code = "ok" THEN Append(ran, use) ELSE ran
      /\ spent' = IF code = "ARGUMENTS_MISMATCH" THEN spent \cup {i} ELSE spent
  BY DEF Run, axgVars, queueVars
<1>5. /\ Stored(code) => p.jti \notin Jtis(kept)
      /\ code = "ok" => Covered(sdk, call.args, call.payload)
      /\ code = "ARGUMENTS_MISMATCH" => ~Covered(sdk, call.args, call.payload)
  BY CallVerdict
<1>6. use \in Execution /\ use.passport = i /\ use.tool = call.tool /\ use.args = call.args
  <2>1. call.tool \in Tools /\ call.args \in Arguments
    BY <1>1, <1>3 DEF SentOK, Arguments
  <2>2. QED
    BY <1>2, <2>1 DEF Execution
\* The purge drops nothing that lives: the clock it goes by is not ahead.
<1>7. kept \subseteq seen /\ \A j \in seen : j \notin kept => ~Live(j)
  <2>1. now \in Nat /\ now <= dead /\ dead \in Nat
    BY <1>1 DEF SentOK, DataOK
  <2>2. \A j \in seen : j \in Nat
    BY <1>1 DEF DataOK
  <2> HIDE DEF now
  <2>3. QED
    BY <2>1, <2>2 DEF Live
<1> HIDE DEF kept, code, use
<1>8. Exchanged' = Exchanged
  BY <1>4 DEF Exchanged
<1>9. Grown
  BY <1>1, <1>4, <1>8 DEF Grown, Kept, DataOK
<1>10. calls'[c] = Idle /\ DOMAIN calls' = Calls
      /\ \A d \in Calls \ {c} : calls'[d] = calls[d]
  BY <1>1, <1>4 DEF DataOK, Goto
<1>11. \A d \in Calls : CallOK(calls[d])'
  <2>1. CallOK(calls[c])'
    BY <1>10 DEF CallOK, Idle, Underway
  <2>2. QED
    BY <1>1, <1>9, <1>10, <2>1, CallFrame DEF GateInv, FlowInv
<1>12. \A w \in Workers : WorkerOK(w)'
  BY <1>4, <1>9, WorkerFrame DEF GateInv, FlowInv
<1>13. /\ kept \subseteq seen' /\ seen' \subseteq seen \cup {i}
       /\ spent' \subseteq spent \cup {i}
       /\ code = "ok" => i \in seen' /\ Stored(code)
  BY <1>4, <1>7 DEF Stored
<1>14. \A j \in seen : j > dead' => j \in seen'
  BY <1>4, <1>7, <1>13 DEF Live
<1>15. SpentOK' /\ SpentHasCause'
  <2>1. CASE code # "ARGUMENTS_MISMATCH"
    BY <1>1, <1>4, <1>9, <2>1, SpentFrame
  <2>2. CASE code = "ARGUMENTS_MISMATCH"
    <3>1. ~Covered(sdk, r.args, p.payload)
      BY <1>1, <1>3, <1>5, <2>2, CedarIgnored DEF ClaimsOK
    <3>2. \A j \in spent' : j \in spent \/ j = i
      BY <1>13
    <3>3. SpentOK'
      BY <1>1, <1>3, <1>4, <1>8, <3>2 DEF SpentOK
    <3>4. \A j \in spent' : \E q \in Requests :
            /\ ~Covered(sdk, q.args, passports[j].payload)
            /\ IF j \in held THEN Covered("python", q.args, passports[j].payload)
               ELSE <<q.args, passports[j].payload>> \in Rewrites
      BY <1>1, <1>3, <3>1, <3>2 DEF SpentHasCause
    <3>5. \A j \in spent' : \E q \in Requests :
            /\ ~Covered(sdk', q.args, passports'[j].payload)
            /\ IF j \in held' THEN Covered("python", q.args, passports'[j].payload)
               ELSE <<q.args, passports'[j].payload>> \in Rewrites
      BY <1>4, <3>4
    <3>6. SpentHasCause'
      BY <3>5 DEF SpentHasCause, Covered, SameValue
    <3>7. QED
      BY <3>3, <3>6
  <2>3. QED
    BY <2>1, <2>2
<1>16. JtiIsGrant'
  BY <1>1, <1>4 DEF UseInv, JtiIsGrant
<1>17. CASE code # "ok"
  <2>1. UNCHANGED ran
    BY <1>4, <1>17
  <2>2. DataOK'
    BY <1>1, <1>2, <1>4, <1>10, <1>13, <2>1 DEF DataOK
  <2>3. UseInv'
    BY <1>1, <1>9, <1>14, <1>16, <2>1, UseFrame
  <2>4. QED
    BY <1>11, <1>12, <1>15, <2>2, <2>3 DEF GateInv, FlowInv
<1>18. CASE code = "ok"
  <2> DEFINE last == Len(ran) + 1
  <2>1. /\ ran' \in Seq(Execution) /\ DOMAIN ran' = 1..last
        /\ ran'[last] = use /\ DOMAIN ran = 1..Len(ran) /\ Len(ran) \in Nat
        /\ \A n \in DOMAIN ran : ran'[n] = ran[n] /\ n < last
    BY <1>1, <1>4, <1>6, <1>18 DEF DataOK
  <2>2. \A n \in DOMAIN ran' : n \in DOMAIN ran \/ n = last
    BY <2>1
  <2> HIDE DEF last
  <2>3. DataOK'
    <3>1. \A n \in DOMAIN ran' : ran'[n].passport \in DOMAIN passports'
      BY <1>1, <1>2, <1>4, <1>6, <2>1, <2>2 DEF DataOK
    <3>2. held' \cup seen' \cup spent' \subseteq DOMAIN passports'
      BY <1>1, <1>2, <1>4, <1>13 DEF DataOK
    <3>3. QED
      BY <1>1, <1>4, <1>10, <2>1, <3>1, <3>2 DEF DataOK
  <2>4. RanIsSeen'
    BY <1>1, <1>4, <1>6, <1>13, <1>14, <1>18, <2>1, <2>2 DEF UseInv, RanIsSeen, Live
  <2>5. RunsAsAuthorised'
    <3>1. \A f \in DOMAIN call.args \ {"axg"} :
            /\ f \in DOMAIN p.payload /\ call.args[f].n = p.payload[f].n
            /\ sdk = "node" => call.args[f] = p.payload[f]
      BY <1>1, <1>5, <1>18 DEF Covered, SameValue, DataOK, ClaimsOK
    <3>2. p.tool = call.tool /\ ToolTenant \in {NoValue, p.tenant}
      BY <1>1 DEF ClaimsOK
    <3>3. /\ ran'[last].passport = i /\ ran'[last].tool = call.tool
          /\ ran'[last].args = call.args /\ passports'[i] = p
      BY <1>1, <1>4, <1>6, <2>1
    <3>4. ASSUME NEW n \in DOMAIN ran
          PROVE  ran'[n] = ran[n] /\ passports'[ran[n].passport] = passports[ran[n].passport]
      BY <1>1, <1>4, <1>6, <2>1 DEF DataOK
    <3>5. sdk' = sdk /\ RunsAsAuthorised
      BY <1>1, <1>4 DEF UseInv
    <3>6. QED
      BY <2>2, <3>1, <3>2, <3>3, <3>4, <3>5 DEF RunsAsAuthorised
  <2>6. OncePerAuthorisation'
    <3>1. ASSUME NEW m \in DOMAIN ran, passports[ran[m].passport].grant = p.grant
          PROVE  ~Live(ran[m].passport)
      <4>1. passports[ran[m].passport].jti = p.jti
        BY <1>1, <1>2, <3>1 DEF UseInv, JtiIsGrant, DataOK
      <4>2. ran[m].passport \notin kept
        BY <1>5, <1>13, <1>18, <4>1 DEF Jtis
      <4>3. QED
        BY <1>1, <1>7, <4>2 DEF UseInv, RanIsSeen
    <3>2. ASSUME NEW m \in DOMAIN ran', NEW n \in DOMAIN ran', m < n,
                 passports'[ran'[m].passport].grant = passports'[ran'[n].passport].grant
          PROVE  ~Live(ran[m].passport) /\ ran'[m] = ran[m]
      <4>1. m \in DOMAIN ran
        BY <2>1, <2>2, <3>2 DEF last
      <4>2. CASE n = last
        BY <1>4, <1>6, <2>1, <3>1, <3>2, <4>1, <4>2
      <4>3. CASE n \in DOMAIN ran
        BY <1>1, <1>4, <2>1, <3>2, <4>1, <4>3 DEF UseInv, OncePerAuthorisation
      <4>4. QED
        BY <2>2, <4>2, <4>3
    <3>3. QED
      BY <1>4, <3>2 DEF OncePerAuthorisation, Live
  <2>7. UseInv'
    BY <1>16, <2>4, <2>5, <2>6 DEF UseInv
  <2>8. QED
    BY <1>11, <1>12, <1>15, <2>3, <2>7 DEF GateInv, FlowInv
<1>19. QED
  BY <1>17, <1>18

-----------------------------------------------------------------------------

LEMMA Invariant == Spec => []GateInv
<1>1. Init => GateInv
  <2>1. ASSUME Init
        PROVE  GateInv
    <3>1. /\ passports = <<>> /\ ran = <<>> /\ held = {} /\ seen = {} /\ spent = {}
          /\ calls = [c \in Calls |-> Idle] /\ worker = [w \in Workers |-> Idle]
          /\ queue = [t \in {} |-> NoValue] /\ sent = 0 /\ ids = 0 /\ dead = 0
          /\ sdk \in {"python", "node"}
      BY <2>1 DEF Init
    <3>2. passports \in Seq(Passport) /\ ran \in Seq(Execution)
          /\ DOMAIN passports = {} /\ DOMAIN ran = {}
      BY <3>1
    <3>3. DataOK
      BY <3>1, <3>2, GatewayAssumption DEF DataOK
    <3>4. \A c \in Calls : CallOK(calls[c])
      BY <3>1, IdleOK
    <3>5. \A w \in Workers : WorkerOK(w)
      BY <3>1 DEF WorkerOK
    <3>6. SpentOK /\ SpentHasCause
      BY <3>1 DEF SpentOK, SpentHasCause
    <3>7. UseInv
      BY <3>2 DEF UseInv, JtiIsGrant, RanIsSeen, RunsAsAuthorised, OncePerAuthorisation
    <3>8. QED
      BY <3>3, <3>4, <3>5, <3>6, <3>7 DEF GateInv, FlowInv
  <2>2. QED
    BY <2>1
<1>2. GateInv /\ [Next]_vars => GateInv'
  <2>1. ASSUME GateInv, UNCHANGED vars
        PROVE  GateInv'
    <3>1. UNCHANGED <<sdk, dead, calls, sent, passports, ids, held, queue, worker,
                      seen, ran, spent>>
      BY <2>1 DEF vars, gateVars, axgVars, queueVars, toolVars
    <3>2. Exchanged' = Exchanged
      BY <3>1 DEF Exchanged
    <3>3. Grown
      BY <2>1, <3>1, <3>2 DEF Grown, Kept, GateInv, FlowInv, DataOK
    <3>4. DataOK /\ DataOK' /\ JtiIsGrant' /\ UseInv /\ SpentOK /\ SpentHasCause
      BY <2>1, <3>1 DEF GateInv, FlowInv, UseInv, JtiIsGrant, DataOK
    <3>5. (\A c \in Calls : CallOK(calls[c])') /\ (\A w \in Workers : WorkerOK(w)')
      BY <2>1, <3>1, <3>3, <3>4, CallFrame, WorkerFrame DEF GateInv, FlowInv
    <3>6. SpentOK' /\ SpentHasCause' /\ UseInv'
      BY <3>1, <3>3, <3>4, SpentFrame, UseFrame
    <3>7. QED
      BY <3>4, <3>5, <3>6 DEF GateInv, FlowInv
  <2>2. QED
    BY <2>1, PassOnStep, GovernStep, AskStep, ApprovedStep, ForwardStep,
       DecodeStep, ReadClockStep, RunStep, ExpireStep, QueueStep, ExchangeStep DEF Next
<1>3. QED
  BY <1>1, <1>2, PTL DEF Spec

(***************************************************************************)
(* The approval queue.  A row that is closed while a worker still has it   *)
(* was taken by two workers at once (LateIsContested), because take reads  *)
(* pending rows only: so a denial and an approval of one ticket meet only  *)
(* where the row was contested.                                            *)
(***************************************************************************)

Closed(t) == queue[t].status # "pending"

RowsKnown ==
  /\ denied \cup contested \subseteq DOMAIN queue
  /\ \A i \in held : passports[i].grant \in DOMAIN queue

\* A row whose outcome the host has acted on is closed.
OutcomeIsClosed ==
  /\ \A t \in denied : Closed(t)
  /\ \A i \in held : Closed(passports[i].grant)

SharedIsContested ==
  \A w, v \in Workers : \A t \in DOMAIN queue :
    w # v /\ WorksOn(w, t) /\ WorksOn(v, t) => t \in contested

LateIsContested ==
  \A w \in Workers, t \in DOMAIN queue :
    WorksOn(w, t) /\ Closed(t) => t \in contested

ExchangeOfTicket ==
  \A w \in Workers : worker[w].pc = "exchanged" /\ worker[w].passport # 0 =>
    passports[worker[w].passport].grant = worker[w].ticket

RowInv ==
  /\ RowsKnown /\ OutcomeIsClosed /\ SharedIsContested /\ LateIsContested
  /\ ExchangeOfTicket /\ DenialHolds

\* What the steps outside of the queue do to it: at most they add a row.
RowsKept ==
  /\ UNCHANGED <<held, worker, denied, contested>>
  /\ DOMAIN queue \subseteq DOMAIN queue'
  /\ \A t \in DOMAIN queue : queue'[t] = queue[t]
  /\ \A i \in DOMAIN passports : passports'[i].grant = passports[i].grant

LEMMA RowFrame ==
  ASSUME GateInv, RowInv, RowsKept
  PROVE  RowInv'
<1>1. /\ \A w \in Workers : \A t : WorksOn(w, t) => t \in DOMAIN queue
      /\ held \subseteq DOMAIN passports
  BY DEF GateInv, FlowInv, DataOK, WorkerOK, WorksOn
<1>2. \A i \in held : passports'[i].grant = passports[i].grant
  BY <1>1 DEF RowsKept
<1>3. RowsKnown'
  BY <1>2 DEF RowInv, RowsKnown, RowsKept
<1>4. OutcomeIsClosed'
  BY <1>2 DEF RowInv, RowsKnown, OutcomeIsClosed, Closed, RowsKept
<1>5. SharedIsContested' /\ LateIsContested'
  BY <1>1 DEF RowInv, SharedIsContested, LateIsContested, WorksOn, Closed, RowsKept
<1>6. ExchangeOfTicket'
  BY DEF GateInv, FlowInv, WorkerOK, Idle, RowInv, ExchangeOfTicket, RowsKept
<1>7. DenialHolds'
  BY <1>2 DEF RowInv, DenialHolds, RowsKept
<1>8. QED
  BY <1>3, <1>4, <1>5, <1>6, <1>7 DEF RowInv

\* The steps of calls that ask nothing of AXG, and the clock.
CallAction(c) ==
  \/ \E r \in Requests : PassOn(c, r)
  \/ \E r \in Requests, carried \in held \cup {0} :
       \E stated \in Stated(r, carried) : Govern(c, r, carried, stated)
  \/ \E heard \in BOOLEAN : Approved(c, heard)
  \/ Forward(c) \/ Decode(c) \/ ReadClock(c) \/ Run(c)

LEMMA RowsOfCalls ==
  ASSUME NEW c \in Calls, CallAction(c) \/ Expire
  PROVE  RowsKept
<1>1. UNCHANGED <<queueVars, passports>>
  BY DEF CallAction, PassOn, Govern, Approved, Forward, Decode, ReadClock, Run,
         Expire, axgVars
<1>2. QED
  BY <1>1 DEF queueVars, RowsKept

LEMMA RowsOfAsk ==
  ASSUME GateInv, NEW c \in Calls, NEW answer \in Answers, NEW payload \in Payloads,
         Ask(c, answer, payload)
  PROVE  RowsKept
<1>1. DataOK /\ ids' = ids + 1
  BY DEF GateInv, FlowInv, Ask
<1>2. ids' \notin DOMAIN queue
  BY <1>1 DEF DataOK
<1>3. UNCHANGED <<held, worker, denied, contested>>
      /\ (queue' = queue \/ AddRow(ids', calls[c], payload))
  BY DEF Ask
<1>4. /\ DOMAIN queue \subseteq DOMAIN queue'
      /\ \A t \in DOMAIN queue : queue'[t] = queue[t]
  BY <1>2, <1>3 DEF AddRow
<1>5. PICK p : passports' = passports \/ passports' = Append(passports, p)
  BY DEF Ask
<1>6. \A i \in DOMAIN passports : passports'[i] = passports[i]
  <2>1. CASE passports' = passports
    BY <2>1
  <2>2. CASE passports' = Append(passports, p)
    BY <1>1, <2>2 DEF DataOK
  <2>3. QED
    BY <1>5, <2>1, <2>2
<1>7. QED
  BY <1>3, <1>4, <1>6 DEF RowsKept

\* A worker leaves the queue's rows as they are and goes on with its ticket.
LEMMA RowsOfWorker ==
  ASSUME GateInv, RowInv, NEW w \in Workers, NEW state, SetWorker(w, state),
         UNCHANGED <<held, queue, denied, contested>>,
         \A i \in DOMAIN passports : passports'[i].grant = passports[i].grant,
         state = Idle \/ (worker[w] # Idle /\ state.ticket = worker[w].ticket),
         state.pc = "exchanged" /\ state.passport # 0 =>
           passports'[state.passport].grant = state.ticket
  PROVE  RowInv'
<1>1. worker'[w] = state /\ \A v \in Workers \ {w} : worker'[v] = worker[v]
  BY DEF SetWorker, GateInv, FlowInv, DataOK
<1>2. \A v \in Workers, t \in DOMAIN queue : WorksOn(v, t)' => WorksOn(v, t)
  BY <1>1 DEF WorksOn
<1>3. \A i \in held : passports'[i].grant = passports[i].grant
  BY DEF GateInv, FlowInv, DataOK
<1>4. RowsKnown' /\ OutcomeIsClosed' /\ DenialHolds'
  BY <1>3 DEF RowInv, RowsKnown, OutcomeIsClosed, DenialHolds, Closed
<1>5. SharedIsContested' /\ LateIsContested'
  BY <1>2 DEF RowInv, SharedIsContested, LateIsContested, Closed
<1>6. ExchangeOfTicket'
  <2>1. ASSUME NEW v \in Workers, worker'[v].pc = "exchanged", worker'[v].passport # 0
        PROVE  passports'[worker'[v].passport].grant = worker'[v].ticket
    <3>1. CASE v = w
      BY <1>1, <2>1, <3>1
    <3>2. CASE v # w
      <4>1. worker'[v] = worker[v] /\ worker[v].passport \in DOMAIN passports
        BY <1>1, <2>1, <3>2 DEF GateInv, FlowInv, WorkerOK, Idle
      <4>2. QED
        BY <2>1, <4>1 DEF RowInv, ExchangeOfTicket
    <3>3. QED
      BY <3>1, <3>2
  <2>2. QED
    BY <2>1 DEF ExchangeOfTicket
<1>7. QED
  BY <1>4, <1>5, <1>6 DEF RowInv

LEMMA RowsOfTake ==
  ASSUME GateInv, RowInv, NEW w \in Workers, NEW t \in DOMAIN queue, Take(w, t)
  PROVE  RowInv'
<1> DEFINE state == [pc |-> "taken", ticket |-> t]
<1>1. /\ worker'[w] = state /\ \A v \in Workers \ {w} : worker'[v] = worker[v]
      /\ UNCHANGED <<held, queue, denied, passports>> /\ ~Closed(t)
  BY DEF Take, SetWorker, GateInv, FlowInv, DataOK, axgVars, Closed
<1>2. state.pc = "taken" /\ state.ticket = t
  OBVIOUS
<1> HIDE DEF state
<1>3. contested \subseteq contested' /\ contested' \subseteq contested \cup {t}
      /\ ((\E v \in Workers : WorksOn(v, t)) => t \in contested')
  BY DEF Take
<1>4. /\ \A v \in Workers \ {w}, u \in DOMAIN queue : WorksOn(v, u)' <=> WorksOn(v, u)
      /\ \A u \in DOMAIN queue : WorksOn(w, u)' => u = t
  BY <1>1, <1>2 DEF WorksOn
<1>5. RowsKnown' /\ OutcomeIsClosed' /\ DenialHolds'
  BY <1>1, <1>3 DEF RowInv, RowsKnown, OutcomeIsClosed, DenialHolds, Closed
<1>6. SharedIsContested'
  <2> SUFFICES ASSUME NEW v \in Workers, NEW u \in Workers, NEW s \in DOMAIN queue,
                      v # u, WorksOn(v, s)', WorksOn(u, s)'
               PROVE  s \in contested'
    BY <1>1 DEF SharedIsContested
  <2>1. CASE v # w /\ u # w
    BY <1>3, <1>4, <2>1 DEF RowInv, SharedIsContested
  <2>2. CASE v = w \/ u = w
    BY <1>3, <1>4, <2>2
  <2>3. QED
    BY <2>1, <2>2
<1>7. LateIsContested'
  <2> SUFFICES ASSUME NEW v \in Workers, NEW s \in DOMAIN queue, WorksOn(v, s)', Closed(s)
               PROVE  s \in contested'
    BY <1>1 DEF LateIsContested, Closed
  <2>1. CASE v = w
    BY <1>1, <1>4, <2>1
  <2>2. CASE v # w
    BY <1>3, <1>4, <2>2 DEF RowInv, LateIsContested
  <2>3. QED
    BY <2>1, <2>2
<1>8. ExchangeOfTicket'
  BY <1>1, <1>2 DEF RowInv, ExchangeOfTicket
<1>9. QED
  BY <1>5, <1>6, <1>7, <1>8 DEF RowInv

LEMMA RowsOfClose ==
  ASSUME GateInv, RowInv, NEW w \in Workers, CloseRow(w)
  PROVE  RowInv'
<1> DEFINE t == worker[w].ticket
           i == worker[w].passport
<1>1. /\ DataOK /\ t \in DOMAIN queue /\ worker[w].pc = "exchanged" /\ worker[w] # Idle
      /\ i \in DOMAIN passports \cup {0}
  BY DEF GateInv, FlowInv, WorkerOK, Idle, CloseRow
<1>2. PICK status \in {"denied", "approved"} :
        queue' = [queue EXCEPT ![t].status = status]
  BY DEF CloseRow
<1>3. /\ held' = held \cup ({i} \ {0})
      /\ denied' = IF i = 0 THEN denied \cup {t} ELSE denied
      /\ worker'[w] = Idle /\ \A v \in Workers \ {w} : worker'[v] = worker[v]
      /\ UNCHANGED <<passports, contested>>
  BY <1>1 DEF CloseRow, SetWorker, DataOK, axgVars
<1>4. /\ WorksOn(w, t) /\ (i # 0 => passports[i].grant = t)
  BY <1>1 DEF WorksOn, RowInv, ExchangeOfTicket
<1>5. /\ DOMAIN queue' = DOMAIN queue /\ queue'[t].status = status
      /\ \A u \in DOMAIN queue \ {t} : queue'[u] = queue[u]
  <2>1. queue[t] \in Row
    BY <1>1 DEF DataOK
  <2>2. [queue[t] EXCEPT !.status = status].status = status
    BY <2>1 DEF Row
  <2>3. QED
    BY <1>1, <1>2, <2>2 DEF DataOK
<1>6. \A u \in DOMAIN queue : Closed(u)' <=> (Closed(u) \/ u = t)
  BY <1>5 DEF Closed
<1>7. \A v \in Workers : \A u : WorksOn(v, u)' => v # w /\ WorksOn(v, u)
  BY <1>3 DEF WorksOn
\* If the ticket was denied or given to the host before, the row was contested.
<1>8. /\ t \in denied => t \in contested
      /\ \A j \in held : passports[j].grant = t => t \in contested
  BY <1>1, <1>4 DEF RowInv, OutcomeIsClosed, LateIsContested
<1> HIDE DEF t, i
<1>9. RowsKnown'
  BY <1>1, <1>3, <1>4, <1>5 DEF RowInv, RowsKnown
<1>10. OutcomeIsClosed'
  <2>1. \A u \in denied' : u \in DOMAIN queue /\ (Closed(u) \/ u = t)
    BY <1>1, <1>3 DEF RowInv, OutcomeIsClosed, RowsKnown
  <2>2. \A j \in held' : /\ passports[j].grant \in DOMAIN queue
                         /\ Closed(passports[j].grant) \/ passports[j].grant = t
    BY <1>1, <1>3, <1>4 DEF RowInv, OutcomeIsClosed, RowsKnown
  <2>3. (\A u \in denied' : Closed(u)') /\ (\A j \in held' : Closed(passports[j].grant)')
    BY <1>3, <1>6, <2>1, <2>2
  <2>4. QED
    BY <1>3, <2>3 DEF OutcomeIsClosed
<1>11. SharedIsContested'
  BY <1>3, <1>5, <1>7 DEF RowInv, SharedIsContested
<1>12. LateIsContested'
  <2> SUFFICES ASSUME NEW v \in Workers, NEW u \in DOMAIN queue, WorksOn(v, u)', Closed(u)'
               PROVE  u \in contested
    BY <1>3, <1>5 DEF LateIsContested
  <2>1. CASE u = t
    BY <1>1, <1>4, <1>7, <2>1 DEF RowInv, SharedIsContested
  <2>2. CASE u # t
    BY <1>6, <1>7, <2>2 DEF RowInv, LateIsContested
  <2>3. QED
    BY <2>1, <2>2
<1>13. ExchangeOfTicket'
  BY <1>3 DEF RowInv, ExchangeOfTicket, Idle
<1>14. DenialHolds'
  <2>1. \A u \in denied' : u \in denied \/ u = t
    BY <1>3
  <2>2. \A j \in held' : j \in held \/ passports[j].grant = t
    BY <1>3, <1>4
  <2>3. ASSUME NEW j \in held', passports[j].grant \in denied'
        PROVE  passports[j].grant \in contested
    <3>1. CASE j \in held /\ passports[j].grant \in denied
      BY <3>1 DEF RowInv, DenialHolds
    <3>2. CASE passports[j].grant = t /\ (t \in denied \/ j \in held)
      BY <1>8, <3>2
    <3>3. CASE j \notin held /\ t \notin denied
      BY <1>3, <2>1, <2>2, <2>3, <3>3
    <3>4. QED
      BY <2>1, <2>2, <2>3, <3>1, <3>2, <3>3
  <2>4. QED
    BY <1>3, <2>3 DEF DenialHolds
<1>15. QED
  BY <1>9, <1>10, <1>11, <1>12, <1>13, <1>14 DEF RowInv

LEMMA RowStep ==
  ASSUME GateInv, RowInv, [Next]_vars
  PROVE  RowInv'
<1>1. ASSUME RowsKept
      PROVE  RowInv'
  BY <1>1, RowFrame
<1>2. CASE UNCHANGED vars
  BY <1>1, <1>2 DEF vars, axgVars, queueVars, RowsKept
<1>3. CASE \E c \in Calls : CallAction(c)
  BY <1>1, <1>3, RowsOfCalls
<1>4. CASE \E c \in Calls, answer \in Answers, payload \in Payloads :
             Ask(c, answer, payload)
  BY <1>1, <1>4, RowsOfAsk
<1>5. CASE Expire
  BY <1>1, <1>5 DEF Expire, axgVars, queueVars, RowsKept
<1>6. ASSUME NEW w \in Workers, NEW lost \in BOOLEAN, Exchange(w, lost)
      PROVE  RowInv'
  <2> DEFINE t == worker[w].ticket
             new == NewPassport(t, t, queue[t].tool, queue[t].tenant, queue[t].payload)
             state == IF lost THEN Idle
                      ELSE [pc |-> "exchanged", ticket |-> t, passport |-> Len(passports')]
  <2>1. /\ SetWorker(w, state) /\ passports' = Append(passports, new)
        /\ UNCHANGED <<held, queue, denied, contested>> /\ worker[w] # Idle
    BY <1>6 DEF Exchange, TicketJti, Idle
  <2>2. new.grant = t
    BY DEF NewPassport
  <2>3. state = Idle \/ (state.ticket = t /\ state.passport = Len(passports'))
    OBVIOUS
  <2>4. Idle.pc # "exchanged"
    BY DEF Idle
  <2> HIDE DEF new, state
  <2>5. /\ \A j \in DOMAIN passports : passports'[j] = passports[j]
        /\ passports'[Len(passports')] = new
    BY <2>1 DEF GateInv, FlowInv, DataOK
  <2>6. QED
    BY <2>1, <2>2, <2>3, <2>4, <2>5, RowsOfWorker
<1>7. ASSUME NEW w \in Workers, RefuseTicket(w) \/ Deny(w)
      PROVE  RowInv'
  <2> DEFINE next == [pc |-> "exchanged", ticket |-> worker[w].ticket, passport |-> 0]
  <2>1. /\ SetWorker(w, Idle) \/ SetWorker(w, next)
        /\ UNCHANGED <<held, queue, denied, contested, passports>> /\ worker[w] # Idle
    BY <1>7 DEF RefuseTicket, Deny, axgVars, Idle
  <2>2. next.ticket = worker[w].ticket /\ next.passport = 0
    OBVIOUS
  <2>3. Idle.pc # "exchanged"
    BY DEF Idle
  <2> HIDE DEF next
  <2>4. QED
    BY <2>1, <2>2, <2>3, RowsOfWorker
<1>8. ASSUME NEW w \in Workers, NEW t \in DOMAIN queue, Take(w, t)
      PROVE  RowInv'
  BY <1>8, RowsOfTake
<1>9. ASSUME NEW w \in Workers, CloseRow(w)
      PROVE  RowInv'
  BY <1>9, RowsOfClose
<1>10. CASE Next
  BY <1>3, <1>4, <1>5, <1>6, <1>7, <1>8, <1>9, <1>10 DEF Next, CallAction
<1>11. QED
  BY <1>2, <1>10

LEMMA QueueInvariant == Spec => []RowInv
<1>1. Init => RowInv
  BY DEF Init, RowInv, RowsKnown, OutcomeIsClosed, SharedIsContested, LateIsContested,
         ExchangeOfTicket, DenialHolds, Idle
<1>2. GateInv /\ RowInv /\ [Next]_vars => RowInv'
  BY RowStep
<1>3. QED
  BY <1>1, <1>2, Invariant, PTL DEF Spec

\* Whatever is under way refers to what exists, and the interceptor forwards
\* no tool call without a decision (mcp, handler).
THEOREM TypeCorrect == Spec => []TypeOK
<1>1. GateInv /\ RowInv => TypeOK
  BY DEF GateInv, FlowInv, DataOK, WorkerOK, CallOK, SentOK, Underway, RowInv,
         RowsKnown, TypeOK
<1>2. QED
  BY <1>1, Invariant, QueueInvariant, PTL

\* The tool runs only what AXG authorised: a Passport for this tool and tenant
\* with every argument in its payload (govern_tools_call, verify_mcp_tool_call).
THEOREM AuthorisedRuns == Spec => []RunsAsAuthorised
<1>1. GateInv => RunsAsAuthorised
  BY DEF GateInv, UseInv
<1>2. QED
  BY <1>1, Invariant, PTL

\* However the tool's threads interleave decoding, reading the clock and
\* storing, a decision of AXG is executed once while the Passport that ran is
\* live (ApprovalQueue, verify_passport, check_and_store).
THEOREM ExecutedOnce == Spec => []OncePerAuthorisation
<1>1. GateInv => OncePerAuthorisation
  BY DEF GateInv, UseInv
<1>2. QED
  BY <1>1, Invariant, PTL

\* An authorisation is used up without an execution only if a rule changed an
\* argument, or if Python and Node disagree on a value (verify_mcp_tool_call).
THEOREM SpentCause == Spec => []SpentHasCause
<1>1. GateInv => SpentHasCause
  BY DEF GateInv, FlowInv
<1>2. QED
  BY <1>1, Invariant, PTL

\* The host is given a Passport of a ticket it closed as denied only if two
\* workers had taken the row at the same time (ApprovalQueue.take and close).
THEOREM DenialKept == Spec => []DenialHolds
<1>1. RowInv => DenialHolds
  BY DEF RowInv
<1>2. QED
  BY <1>1, QueueInvariant, PTL

=============================================================================
