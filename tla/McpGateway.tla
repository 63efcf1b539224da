------------------------------ MODULE McpGateway ------------------------------
(***************************************************************************)
(* MCP tool calls from a host, through the AXG gateway (or interceptor),   *)
(* to a tool that verifies the Passport with an SDK before it acts; and    *)
(* the approval queue in which workers exchange tickets for Passports.     *)
(*                                                                         *)
(* AXG's decision is any decision, with any payload that its rules may     *)
(* make of the arguments.  A host may send any call again, with or without *)
(* a Passport it holds.  A Passport of an approval has its ticket's id.    *)
(***************************************************************************)
EXTENDS Enforcers, Sequences

CONSTANTS
  Calls,         \* calls the gateway handles at the same time
  Requests,      \* messages of the host
  Rewrites,      \* <<arguments, payload>>: what rules may make of them
  Workers,       \* tasks that work on the approval queue
  ToolTenant,    \* the tenant the tool accepts, or NoValue
  AuthMode,      \* AXG_GATEWAY_AUTH: "jwt" or "static"
  Cedar,         \* AXG_CEDAR_CONTEXT
  MaxSent, MaxIds, MaxRows   \* bounds of a behaviour

ASSUME GatewayAssumption ==
  /\ {MaxSent, MaxIds, MaxRows} \subseteq Nat
  /\ \A r \in Requests : r.kind \in {"call", "batch", "other"}

VARIABLES
  sdk,           \* the SDK the tool was built with
  calls,         \* the state of each call
  passports,     \* Passports AXG has signed, oldest first
  held,          \* indices of the Passports the host was given
  queue,         \* rows of the approval queue, by ticket id
  worker,        \* the state of each worker
  dead,          \* how many Passports have expired: the clock
  seen,          \* the tool's replay cache: indices of Passports
  ran,           \* history: what the tool executed
  spent,         \* history: Passports stored for a call that did not run
  denied,        \* history: tickets whose row was closed as denied
  contested,     \* history: tickets two workers had taken at the same time
  ids,           \* how many decisions AXG has given an id (Passport, ticket)
  sent           \* how many tool calls the host has sent

gateVars  == <<calls, sent>>
axgVars   == <<passports, ids>>
queueVars == <<held, queue, worker, denied, contested>>
toolVars  == <<seen, ran, spent>>
vars == <<sdk, dead, gateVars, axgVars, queueVars, toolVars>>

Idle == [pc |-> "idle"]

\* All Passports have the same lifetime, so the oldest expires first.
Live(i) == i > dead

Jtis(indices) == {passports[i].jti : i \in indices}
Payloads == {p[2] : p \in Rewrites}

Init ==
  /\ sdk \in {"python", "node"}
  /\ calls = [c \in Calls |-> Idle] /\ sent = 0
  /\ passports = <<>> /\ ids = 0 /\ dead = 0
  /\ held = {} /\ queue = [t \in {} |-> NoValue]
  /\ worker = [w \in Workers |-> Idle]
  /\ denied = {} /\ contested = {}
  /\ seen = {} /\ ran = <<>> /\ spent = {}

Goto(c, state) == calls' = [calls EXCEPT ![c] = state]

-----------------------------------------------------------------------------
(* The gateway.                                                            *)

\* CallerIdentity.claims finds the caller's claims.
Identified(r) == AuthMode = "static" \/ r.token = "valid"

\* The host sends a tool call of a caller the gateway can identify.  carried
\* is 0 or a Passport of the host, with which it states a payload: the one it
\* was given, or the arguments of this call.
Govern(c, r, carried, stated) ==
  /\ calls[c] = Idle /\ sent < MaxSent
  /\ Identified(r) /\ r.kind = "call"
  /\ sent' = sent + 1
  /\ Goto(c, [pc |-> "governed", tool |-> r.tool, tenant |-> r.tenant,
              args |-> r.args, passport |-> carried, payload |-> stated])
  /\ UNCHANGED <<sdk, dead, axgVars, queueVars, toolVars>>

Stated(r, carried) ==
  {r.args} \cup IF carried = 0 THEN {} ELSE {passports[carried].payload}

\* Mutant of PassedOn: a batch is forwarded like any other message.
PassedOnBatch(r) == Identified(r) /\ r.kind # "call"

\* mcp and handler: a message is forwarded without a decision unless it is a
\* tools/call or a batch with one, which is refused, or its caller is unknown.
PassedOn(r) == Identified(r) /\ r.kind \notin {"call", "batch"}

PassOn(c, r) ==
  /\ calls[c] = Idle
  /\ PassedOn(r)
  /\ Goto(c, [pc |-> "passed", kind |-> r.kind])
  /\ UNCHANGED <<sdk, dead, sent, axgVars, queueVars, toolVars>>

\* grant is the decision a Passport goes back to.
NewPassport(jti, grant, tool, tenant, payload) ==
  [jti |-> jti, grant |-> grant, tool |-> tool, tenant |-> tenant,
   payload |-> payload]

\* A row the host adds to its queue for an answer with a ticket.
AddRow(t, call, payload) ==
  queue' = [u \in DOMAIN queue \cup {t} |->
              IF u # t THEN queue[u]
              ELSE [status |-> "pending", tool |-> call.tool,
                    tenant |-> call.tenant, payload |-> payload]]

\* The arguments a call is forwarded with.
WithCedar(args) ==
  IF Cedar THEN [f \in DOMAIN args \cup {"axg"} |->
                   IF f = "axg" THEN [kind |-> "text", n |-> 0] ELSE args[f]]
  ELSE args

\* A call on its way to the tool, with Passport and payload in its metadata.
ToTool(tool, args, passport, payload) ==
  [pc |-> "sent", tool |-> tool, args |-> args, passport |-> passport,
   payload |-> payload, now |-> 0]

\* govern_tools_call without a Passport asks for a decision, and an ALLOW puts
\* Passport and payload into the call.  AXG may have signed a Passport that
\* the gateway never hears of.
Ask(c, answer, payload) ==
  /\ calls[c].pc = "governed" /\ calls[c].passport = 0
  /\ ids < MaxIds
  /\ <<calls[c].args, payload>> \in Rewrites
  /\ ids' = ids + 1
  /\ passports' =
       IF answer.passport
       THEN Append(passports, NewPassport(ids', ids', calls[c].tool,
                                          calls[c].tenant, payload))
       ELSE passports
  /\ IF answer.heard /\ answer.decision \in {"CONFIRM", "SUGGEST"}
     THEN /\ Cardinality(DOMAIN queue) < MaxRows
          /\ AddRow(ids', calls[c], payload)
     ELSE UNCHANGED queue
  /\ Goto(c, IF LetsThrough(answer)
             THEN ToTool(calls[c].tool, WithCedar(calls[c].args), Len(passports'),
                         payload)
             ELSE Idle)
  /\ UNCHANGED <<sdk, dead, sent, held, worker, denied, contested, toolVars>>

\* Mutant of ApprovedCall: the arguments are not compared.
ApprovedCallAnyArgs(call, heard) ==
  LET p == passports[call.passport]
  IN /\ heard
     /\ Live(call.passport) /\ p.tool = call.tool /\ p.payload = call.payload

\* _approved_call: the arguments are in the stated payload, AXG answers, and
\* the Passport is active for this tool and payload.
ApprovedCall(call, heard) ==
  LET p == passports[call.passport]
  IN /\ Covered("python", call.args, call.payload)
     /\ heard
     /\ Live(call.passport) /\ p.tool = call.tool /\ p.payload = call.payload

Approved(c, heard) ==
  /\ calls[c].pc = "governed" /\ calls[c].passport # 0
  /\ Goto(c, IF ApprovedCall(calls[c], heard)
             THEN ToTool(calls[c].tool, calls[c].args, calls[c].passport,
                         calls[c].payload)
             ELSE Idle)
  /\ UNCHANGED <<sdk, dead, sent, axgVars, queueVars, toolVars>>

\* forward, for a message that is no tool call, and for a call that never
\* reaches the tool's server.
Forward(c) ==
  /\ calls[c].pc \in {"passed", "sent"}
  /\ Goto(c, Idle)
  /\ UNCHANGED <<sdk, dead, sent, axgVars, queueVars, toolVars>>

-----------------------------------------------------------------------------
(* The tool.                                                               *)

Advance(call, pc, now) ==
  [ToTool(call.tool, call.args, call.passport, call.payload)
     EXCEPT !.pc = pc, !.now = now]

\* The tool decodes the Passport of the call it was sent, and checks its claims.
Decode(c) ==
  LET call == calls[c]
  IN /\ call.pc = "sent"
     /\ Goto(c, IF VerifyPassport(passports[call.passport], Live(call.passport),
                                 call.payload, call.tool, ToolTenant) = "ok"
                THEN Advance(call, "decoded", 0) ELSE Idle)
     /\ UNCHANGED <<sdk, dead, sent, axgVars, queueVars, toolVars>>

\* check_and_store of the Python SDK reads the clock before it takes its lock.
ReadClock(c) ==
  /\ sdk = "python" /\ calls[c].pc = "decoded"
  /\ Goto(c, Advance(calls[c], "clocked", dead))
  /\ UNCHANGED <<sdk, dead, sent, axgVars, queueVars, toolVars>>

\* check_and_store forgets what has expired by its clock and stores the
\* Passport, the arguments are compared, and the tool runs.
Run(c) ==
  LET call == calls[c]
      now  == IF sdk = "python" THEN call.now ELSE dead
      kept == {i \in seen : i > now}
      code == VerifyMcpToolCall(sdk, passports[call.passport].jti, call.payload,
                                Jtis(kept), call.args)
  IN /\ call.pc = IF sdk = "python" THEN "clocked" ELSE "decoded"
     /\ seen' = IF Stored(code) THEN kept \cup {call.passport} ELSE kept
     /\ ran' = IF code = "ok"
               THEN Append(ran, [passport |-> call.passport, tool |-> call.tool,
                                 args |-> call.args])
               ELSE ran
     /\ spent' = IF code = "ARGUMENTS_MISMATCH" THEN spent \cup {call.passport}
                 ELSE spent
     /\ Goto(c, Idle)
     /\ UNCHANGED <<sdk, dead, sent, axgVars, queueVars>>

\* The lifetime of the oldest live Passport ends.
Expire ==
  /\ dead < Len(passports)
  /\ dead' = dead + 1
  /\ UNCHANGED <<sdk, gateVars, axgVars, queueVars, toolVars>>

-----------------------------------------------------------------------------
(* The approval queue.                                                     *)

SetWorker(w, state) == worker' = [worker EXCEPT ![w] = state]

WorksOn(w, t) == worker[w] # Idle /\ worker[w].ticket = t

\* Mutant of Take: the row is read whatever its status.
TakeAny(w, t) ==
  /\ worker[w] = Idle
  /\ SetWorker(w, [pc |-> "taken", ticket |-> t])
  /\ contested' = IF \E v \in Workers : WorksOn(v, t) THEN contested \cup {t}
                  ELSE contested
  /\ UNCHANGED <<sdk, dead, gateVars, axgVars, held, queue, denied, toolVars>>

\* ApprovalQueue.take: a read, so two workers may take the same row.
Take(w, t) ==
  /\ worker[w] = Idle
  /\ queue[t].status = "pending"
  /\ SetWorker(w, [pc |-> "taken", ticket |-> t])
  /\ contested' = IF \E v \in Workers : WorksOn(v, t) THEN contested \cup {t}
                  ELSE contested
  /\ UNCHANGED <<sdk, dead, gateVars, axgVars, held, queue, denied, toolVars>>

\* ApprovalService.submit signs with jti=ticket.jti.
TicketJti(t) == t

\* submit_approval: AXG signs a Passport; the answer may be lost, and then
\* the row stays as it is.
Exchange(w, lost) ==
  LET t == worker[w].ticket
  IN /\ worker[w].pc = "taken"
     /\ Len(passports) < MaxIds
     /\ passports' = Append(passports,
                            NewPassport(TicketJti(t), t, queue[t].tool,
                                        queue[t].tenant, queue[t].payload))
     /\ SetWorker(w, IF lost THEN Idle
                     ELSE [pc |-> "exchanged", ticket |-> t,
                           passport |-> Len(passports')])
     /\ UNCHANGED <<sdk, dead, ids, gateVars, held, queue, denied, contested,
                    toolVars>>

\* submit_approval with the outcome "deny": AXG signs nothing.
Deny(w) ==
  /\ worker[w].pc = "taken"
  /\ SetWorker(w, [pc |-> "exchanged", ticket |-> worker[w].ticket, passport |-> 0])
  /\ UNCHANGED <<sdk, dead, gateVars, axgVars, held, queue, denied, contested,
                 toolVars>>

\* AXG refuses the ticket or cannot be reached, or its answer to a denial is
\* lost.
RefuseTicket(w) ==
  /\ worker[w].pc = "taken"
  /\ SetWorker(w, Idle)
  /\ UNCHANGED <<sdk, dead, gateVars, axgVars, held, queue, denied, contested,
                 toolVars>>

\* ApprovalQueue.close with AXG's outcome; a Passport goes to the host.
CloseRow(w) ==
  LET t == worker[w].ticket
      i == worker[w].passport
  IN /\ worker[w].pc = "exchanged"
     /\ queue' = [queue EXCEPT ![t].status = IF i = 0 THEN "denied" ELSE "approved"]
     /\ held' = held \cup ({i} \ {0})
     /\ denied' = IF i = 0 THEN denied \cup {t} ELSE denied
     /\ SetWorker(w, Idle)
     /\ UNCHANGED <<sdk, dead, gateVars, axgVars, contested, toolVars>>

-----------------------------------------------------------------------------
\* What may come back from AXG.  A Passport was signed only for an ALLOW,
\* which a gateway that gave up waiting, or lost the connection, never sees.
Answers ==
  {Answer(TRUE, d, FALSE) : d \in {"ALLOW", "SUGGEST", "CONFIRM", "BLOCK"}}
    \cup {Answer(heard, "ALLOW", TRUE) : heard \in BOOLEAN}
    \cup {Answer(FALSE, NoValue, FALSE)}

Next ==
  \/ \E c \in Calls :
       \/ \E r \in Requests : PassOn(c, r)
       \/ \E r \in Requests, carried \in held \cup {0} :
            \E stated \in Stated(r, carried) :
              Govern(c, r, carried, stated)
       \/ \E answer \in Answers, payload \in Payloads : Ask(c, answer, payload)
       \/ \E heard \in BOOLEAN : Approved(c, heard)
       \/ Forward(c) \/ Decode(c) \/ ReadClock(c) \/ Run(c)
  \/ Expire
  \/ \E w \in Workers :
       \/ \E t \in DOMAIN queue : Take(w, t)
       \/ \E lost \in BOOLEAN : Exchange(w, lost)
       \/ RefuseTicket(w) \/ Deny(w) \/ CloseRow(w)

Spec == Init /\ [][Next]_vars

-----------------------------------------------------------------------------
Underway == {"sent", "decoded", "clocked"}

\* The shape of the state: whatever is under way refers to what exists, and
\* no tool call was forwarded without a decision.
TypeOK ==
  /\ sdk \in {"python", "node"}
  /\ held \cup seen \cup spent \subseteq DOMAIN passports
  /\ \A c \in Calls :
       /\ calls[c].pc \in {"idle", "governed", "passed"} \cup Underway
       /\ calls[c].pc = "passed" => calls[c].kind = "other"
       /\ calls[c].pc \in Underway => calls[c].passport \in DOMAIN passports
  /\ \A w \in Workers : worker[w] # Idle => worker[w].ticket \in DOMAIN queue
  /\ \A t \in DOMAIN queue : t \in 1 .. ids
  /\ denied \cup contested \subseteq DOMAIN queue
  /\ dead \in 0 .. Len(passports)
  /\ sent \in 0 .. MaxSent /\ ids \in 0 .. MaxIds

\* axg_interceptor.py:115-147, SDK 202-247: whatever is lost, repeated or
\* answered late, the tool runs only what AXG authorised: a Passport for this
\* tool and tenant, with every argument (as the tool's SDK compares values)
\* in the payload.
RunsAsAuthorised ==
  \A n \in DOMAIN ran :
    LET p == passports[ran[n].passport]
    IN /\ p.tool = ran[n].tool
       /\ ToolTenant \in {NoValue, p.tenant}
       /\ \A f \in DOMAIN ran[n].args \ {"axg"} :
            /\ f \in DOMAIN p.payload
            /\ ran[n].args[f].n = p.payload[f].n
            /\ sdk = "node" => ran[n].args[f] = p.payload[f]

\* sqlite_approval_queue.py:55-62, approvals.py:64, SDK 48-55, 88: however
\* often a call is sent again, a ticket taken or an exchange repeated, and
\* however late the tool's threads decode, read the clock and store, a
\* decision of AXG is executed once while the Passport that ran is live.
\* Later it may run again, with another Passport of the ticket or, by a call
\* that decoded in time, with the same one.
OncePerAuthorisation ==
  \A m, n \in DOMAIN ran :
    /\ m < n
    /\ passports[ran[m].passport].grant = passports[ran[n].passport].grant
    => ~Live(ran[m].passport)

\* sqlite_approval_queue.py:55-62: the host gets a Passport of a ticket that
\* it has closed as denied, before or after, only if two workers had taken
\* the row at the same time: take is a read, and close asks for no status.
DenialHolds ==
  \A i \in held : passports[i].grant \in denied => passports[i].grant \in contested

\* SDK 240-246, axg_interceptor.py:128-131: an authorisation is used up by a
\* call that does not run only if a rule changed an argument of an allowed
\* call, or if the gateway (Python) and the tool (Node) disagree on a value.
SpentHasCause ==
  \A i \in spent : \E r \in Requests :
    /\ ~Covered(sdk, r.args, passports[i].payload)
    /\ IF i \in held THEN Covered("python", r.args, passports[i].payload)
       ELSE <<r.args, passports[i].payload>> \in Rewrites

=============================================================================
