------------------------------- MODULE Enforcers -------------------------------
(***************************************************************************)
(* What the SDKs conclude from a Passport in front of a tool, and what the *)
(* MCP interceptor makes of AXG's answer.                                  *)
(*                                                                         *)
(* A payload is a function from field names to values [kind, n]: kind is   *)
(* "num" or "bool", and true and false have n 1 and 0.                     *)
(***************************************************************************)
EXTENDS Integers, FiniteSetsExt

CONSTANT NoValue     \* an absent value

\* The code of the first check that fails, "ok" if none does.
FirstFailure(checks) ==
  LET failed == {i \in DOMAIN checks : ~checks[i].ok}
  IN IF failed = {} THEN "ok" ELSE checks[Min(failed)].code

-----------------------------------------------------------------------------
(* The SDKs: verify_passport and verifyPassport.                           *)

\* The checks of both SDKs before the replay cache, in their order; live says
\* that the Passport has not expired when it is decoded.
PassportChecks(p, live, payload, tool, tenant) ==
  <<[ok |-> live, code |-> "JWT_ERROR"],
    [ok |-> tenant \in {NoValue, p.tenant}, code |-> "TENANT_ID_MISMATCH"],
    [ok |-> p.tool = tool, code |-> "ACTION_TYPE_MISMATCH"],
    [ok |-> p.payload = payload, code |-> "PAYLOAD_TAMPERED"]>>

VerifyPassport(p, live, payload, tool, tenant) ==
  FirstFailure(PassportChecks(p, live, payload, tool, tenant))

\* Mutant of SeenBefore: the answer of the cache is ignored.
SeenBeforeIgnored(jti, seen) == FALSE

\* check_and_store finds the jti among those it has kept.
SeenBefore(jti, seen) == jti \in seen

\* Python compares values with ==, for which True is 1; Node compares their
\* canonical text.
SameValue(sdk, a, b) == IF sdk = "python" THEN a.n = b.n ELSE a = b

\* Every argument but the ignored one is in the payload, unchanged.
Covered(sdk, args, payload) ==
  \A field \in DOMAIN args \ {"axg"} :
    field \in DOMAIN payload /\ SameValue(sdk, args[field], payload[field])

\* Mutant of VerifyMcpToolCall: the arguments are not compared.
VerifyMcpToolCallAnyArgs(sdk, jti, payload, seen, args) ==
  IF SeenBefore(jti, seen) THEN "PASSPORT_REPLAYED" ELSE "ok"

\* The end of verify_mcp_tool_call and verifyMcpToolCall, for a Passport whose
\* claims are right: the replay cache, which stores it, then the arguments.
VerifyMcpToolCall(sdk, jti, payload, seen, args) ==
  CASE SeenBefore(jti, seen) -> "PASSPORT_REPLAYED"
    [] ~SeenBefore(jti, seen) /\ ~Covered(sdk, args, payload)
         -> "ARGUMENTS_MISMATCH"
    [] OTHER -> "ok"

\* The Passport was stored in the replay cache on the way to this code.
Stored(code) == code \in {"ok", "ARGUMENTS_MISMATCH"}

-----------------------------------------------------------------------------
(* The interceptor.                                                        *)

\* What comes of a call to AXG.  heard is FALSE when the client does not get
\* the decision: AXG could not be reached, was too slow, answered with an
\* error or with something else than a decision, or the connection broke.
Answer(heard, decision, passport) ==
  [heard |-> heard, decision |-> decision, passport |-> passport]

\* govern_tools_call lets a call through only for an ALLOW with a Passport;
\* anything else ends it with a tool error or an exception.
LetsThrough(answer) ==
  answer.heard /\ answer.decision = "ALLOW" /\ answer.passport

=============================================================================
