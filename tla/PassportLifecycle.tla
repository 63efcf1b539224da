-------------------------- MODULE PassportLifecycle --------------------------
(***************************************************************************)
(* The life of one authorisation in AXG, from the decision to the          *)
(* execution:                                                              *)
(*                                                                         *)
(*   DecisionEngine  evaluates a request and signs a Passport (ALLOW) or   *)
(*                   an approval ticket (CONFIRM, SUGGEST);                *)
(*   ApprovalService exchanges an approved ticket for a Passport, keeping  *)
(*                   no state of its own;                                  *)
(*   executors       verify the Passport with the SDK and a replay cache,  *)
(*                   and then act.                                         *)
(*                                                                         *)
(* A token is modelled by the claims its checks read.  A signature cannot  *)
(* be forged, so a token exists only if AXG signed it, and a SHA-256 is    *)
(* modelled by the payload it is taken of.  All decisions are about one    *)
(* app, tenant, action and plugin.  A rejected call changes nothing, so    *)
(* the rejections are the values for which an action is not enabled.       *)
(***************************************************************************)
EXTENDS Integers, Sequences

CONSTANTS
  Decisions,    \* decision requests; one also names its token's jti
  Payloads,     \* actionable payloads
  Ids,          \* ids of agents, end users and approvers
  Roles,        \* approver roles
  EndUser,      \* the role "end_user"
  Policies,     \* policy version labels
  Clients,      \* authenticated API clients
  Approvers,    \* those that may approve for the app (approvals:approve)
  Submitters,   \* POST /v1/approvals requests in flight
  Workers,      \* executor threads
  Caches,       \* replay caches
  CacheOf,      \* the cache each executor thread verifies with
  PassportTTL,  \* lifetime of a Passport (5 minutes)
  TicketTTL,    \* lifetime of an approval ticket (1 minute to 7 days)
  MaxTime,      \* bound on the clock
  None          \* an absent value

ASSUME TimeAssumption ==
  /\ PassportTTL \in Nat \ {0}
  /\ TicketTTL \in Nat \ {0}
  /\ MaxTime \in Nat

ASSUME SetAssumption ==
  /\ EndUser \in Roles
  /\ Approvers \subseteq Clients
  /\ CacheOf \in [Workers -> Caches]

Verdict  == {"ALLOW", "SUGGEST", "CONFIRM", "BLOCK"}
OrNone(S) == S \cup {None}

\* What the engine knows of a request, and the policy version it loaded.
Request == [payload : Payloads, agent : OrNone(Ids), user : OrNone(Ids),
            authenticated : BOOLEAN, shadow : BOOLEAN,
            policy : Policies, verdict : Verdict \cup {"PENDING"}]

ASSUME NoneAssumption == None \notin Ids \cup Request

\* The claims of an approval ticket.
Ticket == [payload : Payloads, policy : Policies, role : Roles,
           agent : OrNone(Ids), user : OrNone(Ids), exp : Nat]

\* The claims of a Passport; approver is None when the policy allowed.
Passport == [jti : Decisions, payload : Payloads, iat : Nat, exp : Nat,
             approver : OrNone(Ids)]

\* An approval request that passed every check before the policy is loaded.
Submission == [ticket : Decisions, payload : Payloads, approver : Ids,
               role : Roles, client : Clients, outcome : {"approve", "deny"}]

\* A verification past jwt.decode; clock is -1 until the cache read the time.
Check == [passport : Passport, payload : Payloads, clock : Int]

\* ApprovalRecord: what the approval endpoint hands to the audit trail.
Approval == [ticket : Decisions, approver : Ids, role : Roles,
             client : Clients, policy : Policies]

\* An accepted verification: the executor acts on it.
Use == [cache : Caches, jti : Decisions, payload : Payloads,
        exp : Nat, at : Nat]

VARIABLES
  now,          \* seconds, the same on every host
  policy,       \* the label the plugin loader returns, None if it fails
  requests,     \* requests[d]: the evaluated request, None before it
  tickets,      \* tickets[d]: the approval ticket, None if there is none
  passports,    \* every Passport signed so far
  submissions,  \* submissions[s]: the approval awaiting its policy
  loaded,       \* loaded[s]: the label load() returned to it, None before
  inForce,      \* history: inForce[s]: the labels since it was verified
  approvals,    \* history: outcome "approved" records
  checks,       \* checks[w]: the verification under way in a thread
  seen,         \* seen[c][j]: expiry stored for jti j, 0 if absent
  uses          \* history: the accepted verifications, in order

submitVars == <<submissions, loaded, inForce>>

vars == <<now, policy, requests, tickets, passports, submitVars, approvals,
          checks, seen, uses>>

axgVars  == <<policy, requests, tickets, passports, submitVars, approvals>>
execVars == <<checks, seen, uses>>

TypeOK ==
  /\ now \in Nat
  /\ policy \in OrNone(Policies)
  /\ requests \in [Decisions -> OrNone(Request)]
  /\ tickets \in [Decisions -> OrNone(Ticket)]
  /\ passports \subseteq Passport
  /\ submissions \in [Submitters -> OrNone(Submission)]
  /\ loaded \in [Submitters -> OrNone(Policies)]
  /\ inForce \in [Submitters -> SUBSET OrNone(Policies)]
  /\ approvals \subseteq Approval
  /\ checks \in [Workers -> OrNone(Check)]
  /\ seen \in [Caches -> [Decisions -> Nat]]
  /\ uses \in Seq(Use)

Init ==
  /\ now = 0
  /\ policy \in Policies
  /\ requests = [d \in Decisions |-> None]
  /\ tickets = [d \in Decisions |-> None]
  /\ passports = {}
  /\ submissions = [s \in Submitters |-> None]
  /\ loaded = [s \in Submitters |-> None]
  /\ inForce = [s \in Submitters |-> {}]
  /\ approvals = {}
  /\ checks = [w \in Workers |-> None]
  /\ seen = [c \in Caches |-> [d \in Decisions |-> 0]]
  /\ uses = <<>>

-----------------------------------------------------------------------------
(* The environment: time, and operators changing the policy. *)

Tick ==
  /\ now < MaxTime
  /\ now' = now + 1
  /\ UNCHANGED <<axgVars, execVars>>

\* A plugin file is replaced or removed and the cache is reloaded.
ChangePolicy(l) ==
  /\ l # policy
  /\ policy' = l
  /\ inForce' = [s \in Submitters |->
       IF submissions[s] = None THEN {} ELSE inForce[s] \cup {l}]
  /\ UNCHANGED <<now, requests, tickets, passports, submissions, loaded,
                 approvals, execVars>>

-----------------------------------------------------------------------------
(* POST /v1/decisions.  The engine loads the policy, and may then wait for *)
(* the keys of a context provider before it decides and signs.             *)

\* Mutant of SignPassport: the lifetime is subtracted.
SignPassportPast(jti, payload, approver) ==
  passports \cup {[jti |-> jti, payload |-> payload, iat |-> now,
                   exp |-> now - PassportTTL, approver |-> approver]}

SignPassport(jti, payload, approver) ==
  passports \cup {[jti |-> jti, payload |-> payload, iat |-> now,
                   exp |-> now + PassportTTL, approver |-> approver]}

SignTicket(d, role) ==
  [payload |-> requests[d].payload, policy |-> requests[d].policy,
   role |-> role, agent |-> requests[d].agent, user |-> requests[d].user,
   exp |-> now + TicketTTL]

DecideLoad(d, payload, agent, user, authenticated, shadow) ==
  /\ requests[d] = None
  /\ policy # None    \* otherwise fail-safe: CONFIRM without any token
  /\ requests' = [requests EXCEPT ![d] =
       [payload |-> payload, agent |-> agent, user |-> user,
        authenticated |-> authenticated, shadow |-> shadow,
        policy |-> policy, verdict |-> "PENDING"]]
  /\ UNCHANGED <<now, policy, tickets, passports, submitVars, approvals,
                 execVars>>

Pending(d) == requests[d] # None /\ requests[d].verdict = "PENDING"

\* No token for an anonymous caller or a shadow evaluation.
Live(r) == r.authenticated /\ ~r.shadow

Conclude(d, verdict) ==
  /\ requests' = [requests EXCEPT ![d].verdict = verdict]
  /\ UNCHANGED <<now, policy, submitVars, approvals, execVars>>

DecideAllow(d) ==
  /\ Pending(d) /\ Live(requests[d])
  /\ Conclude(d, "ALLOW")
  /\ passports' = SignPassport(d, requests[d].payload, None)
  /\ UNCHANGED tickets

\* A human must decide.
DecideTicket(d, verdict, role) ==
  /\ verdict \in {"CONFIRM", "SUGGEST"}
  /\ Pending(d) /\ Live(requests[d])
  /\ Conclude(d, verdict)
  /\ tickets' = [tickets EXCEPT ![d] = SignTicket(d, role)]
  /\ UNCHANGED passports

\* No token: BLOCK, an anonymous caller (whose ALLOW becomes CONFIRM), shadow
\* mode, or a failed signature, which makes a CONFIRM of an ALLOW and takes
\* the ticket away as well.
DecideNoToken(d, verdict) ==
  /\ Pending(d)
  /\ verdict = "ALLOW" => requests[d].authenticated /\ requests[d].shadow
  /\ Conclude(d, verdict)
  /\ UNCHANGED <<tickets, passports>>

-----------------------------------------------------------------------------
(* POST /v1/approvals.  Everything up to the call of load() runs at once;  *)
(* load() awaits the file unless the policy is cached, and returns the     *)
(* label that was in force when it was read.                               *)

TicketValid(t) == t # None /\ now < t.exp

\* Mutant of MayApprove: the agent may approve its own action.
MayApproveAgent(t, approver, role) ==
  /\ role = t.role
  /\ (t.role = EndUser /\ t.user # None) => approver = t.user

MayApprove(t, approver, role) ==
  /\ role = t.role
  /\ t.agent # None => approver # t.agent
  /\ (t.role = EndUser /\ t.user # None) => approver = t.user

SubmitVerify(s, r) ==
  LET t == tickets[r.ticket] IN
  /\ submissions[s] = None
  /\ r.client \in Approvers
  /\ TicketValid(t)
  /\ r.payload = t.payload
  /\ MayApprove(t, r.approver, r.role)
  /\ submissions' = [submissions EXCEPT ![s] = r]
  /\ inForce' = [inForce EXCEPT ![s] = {policy}]
  /\ UNCHANGED <<now, policy, requests, tickets, passports, loaded, approvals,
                 execVars>>

\* load() reads the policy; one that fails to load leaves the label absent.
SubmitLoad(s) ==
  /\ submissions[s] # None
  /\ loaded[s] = None
  /\ policy # None
  /\ loaded' = [loaded EXCEPT ![s] = policy]
  /\ UNCHANGED <<now, policy, requests, tickets, passports, submissions,
                 inForce, approvals, execVars>>

\* Mutant of PolicyUnchanged: a policy that still loads is enough.
PolicyAvailable(s) == loaded[s] # None

PolicyUnchanged(s) ==
  loaded[s] # None /\ loaded[s] = tickets[submissions[s].ticket].policy

Answer(s) ==
  /\ submissions[s] # None
  /\ submissions' = [submissions EXCEPT ![s] = None]
  /\ loaded' = [loaded EXCEPT ![s] = None]
  /\ inForce' = [inForce EXCEPT ![s] = {}]
  /\ UNCHANGED <<now, policy, requests, tickets, execVars>>

SubmitApprove(s) ==
  LET r == submissions[s] IN
  /\ Answer(s)
  /\ r.outcome = "approve"
  /\ PolicyUnchanged(s)
  /\ passports' = SignPassport(r.ticket, r.payload, r.approver)
  /\ approvals' = approvals \cup
       {[ticket |-> r.ticket, approver |-> r.approver, role |-> r.role,
         client |-> r.client, policy |-> loaded[s]]}

\* Denied, policy changed (409), or the signature failed (503): the ticket
\* stays as valid as it was.
SubmitNoPassport(s) ==
  /\ Answer(s)
  /\ UNCHANGED <<passports, approvals>>

-----------------------------------------------------------------------------
(* verify_passport in an executor thread: decode, then the replay cache    *)
(* reads the clock, then it checks and stores under its lock.              *)

\* Mutant of VerifyDecode: the jti is marked as seen before the other checks.
VerifyDecodeMarks(w, p, payload) ==
  /\ checks[w] = None
  /\ p \in passports
  /\ now < p.exp
  /\ payload = p.payload
  /\ checks' = [checks EXCEPT ![w] =
       [passport |-> p, payload |-> payload, clock |-> -1]]
  /\ seen' = [seen EXCEPT ![CacheOf[w]][p.jti] = p.exp]
  /\ UNCHANGED <<now, axgVars, uses>>

VerifyDecode(w, p, payload) ==
  /\ checks[w] = None
  /\ p \in passports
  /\ now < p.exp
  /\ payload = p.payload
  /\ checks' = [checks EXCEPT ![w] =
       [passport |-> p, payload |-> payload, clock |-> -1]]
  /\ UNCHANGED <<now, axgVars, seen, uses>>

VerifyClock(w) ==
  /\ checks[w] # None
  /\ checks[w].clock = -1
  /\ checks' = [checks EXCEPT ![w].clock = now]
  /\ UNCHANGED <<now, axgVars, seen, uses>>

\* Mutant of Unexpired: an entry is dropped in the last second of its life.
UnexpiredNextSecond(entries, t) ==
  [j \in Decisions |-> IF entries[j] > t + 1 THEN entries[j] ELSE 0]

\* The entries still unexpired at time t.
Unexpired(entries, t) ==
  [j \in Decisions |-> IF entries[j] > t THEN entries[j] ELSE 0]

UseOf(c, k) ==
  [cache |-> c, jti |-> k.passport.jti, payload |-> k.payload,
   exp |-> k.passport.exp, at |-> now]

\* Mutant of VerifyStore: the entry is kept until the Passport's iat.
VerifyStoreIat(w) ==
  LET k    == checks[w]
      c    == CacheOf[w]
      kept == Unexpired(seen[c], k.clock)
      j    == k.passport.jti
  IN
  /\ k # None
  /\ k.clock # -1
  /\ checks' = [checks EXCEPT ![w] = None]
  /\ \/ kept[j] # 0 /\ seen' = [seen EXCEPT ![c] = kept] /\ UNCHANGED uses
     \/ /\ kept[j] = 0
        /\ seen' = [seen EXCEPT ![c] = [kept EXCEPT ![j] = k.passport.iat]]
        /\ uses' = Append(uses, UseOf(c, k))
  /\ UNCHANGED <<now, axgVars>>

\* check_and_store, and with it the outcome of verify_passport.
VerifyStore(w) ==
  LET k    == checks[w]
      c    == CacheOf[w]
      kept == Unexpired(seen[c], k.clock)
      j    == k.passport.jti
  IN
  /\ k # None
  /\ k.clock # -1
  /\ checks' = [checks EXCEPT ![w] = None]
  /\ \/ /\ kept[j] # 0      \* PASSPORT_REPLAYED
        /\ seen' = [seen EXCEPT ![c] = kept]
        /\ UNCHANGED uses
     \/ /\ kept[j] = 0
        /\ seen' = [seen EXCEPT ![c] = [kept EXCEPT ![j] = k.passport.exp]]
        /\ uses' = Append(uses, UseOf(c, k))
  /\ UNCHANGED <<now, axgVars>>

-----------------------------------------------------------------------------

Decide(d) ==
  \/ \E payload \in Payloads, agent, user \in OrNone(Ids) :
       \E authenticated, shadow \in BOOLEAN :
         DecideLoad(d, payload, agent, user, authenticated, shadow)
  \/ DecideAllow(d)
  \/ \E verdict \in Verdict, role \in Roles : DecideTicket(d, verdict, role)
  \/ \E verdict \in Verdict : DecideNoToken(d, verdict)

Submit(s) ==
  \/ \E r \in Submission : SubmitVerify(s, r)
  \/ SubmitLoad(s)
  \/ SubmitApprove(s)
  \/ SubmitNoPassport(s)

Verify(w) ==
  \/ \E p \in passports, payload \in Payloads : VerifyDecode(w, p, payload)
  \/ VerifyClock(w)
  \/ VerifyStore(w)

Next ==
  \/ Tick
  \/ \E l \in OrNone(Policies) : ChangePolicy(l)
  \/ \E d \in Decisions : Decide(d)
  \/ \E s \in Submitters : Submit(s)
  \/ \E w \in Workers : Verify(w)

Spec == Init /\ [][Next]_vars

\* An executor thread that entered verify_passport runs to its end.
FairSpec == Spec /\ \A w \in Workers : WF_vars(VerifyClock(w) \/ VerifyStore(w))

-----------------------------------------------------------------------------
(* Properties. *)

SameAuthority(u, v) == u.cache = v.cache /\ u.jti = v.jti

\* A replay cache accepts a jti again only when the Passport it accepted
\* before has expired, whatever order its threads decode, read the clock and
\* take the lock in (InMemoryReplayCache.check_and_store).
SingleUseInWindow ==
  \A i, k \in DOMAIN uses :
    (i < k /\ SameAuthority(uses[i], uses[k])) => uses[i].exp <= uses[k].at

\* The person behind a human approval is one the deciding policy accepts.
EligibleApproval(a, r) ==
  /\ r.verdict \in {"CONFIRM", "SUGGEST"}
  /\ a.client \in Approvers
  /\ a.policy = r.policy
  /\ a.role = tickets[a.ticket].role
  /\ a.approver # r.agent
  /\ (a.role = EndUser /\ r.user # None) => a.approver = r.user

\* From end to end: an executor acts on a payload only if it is the payload
\* the engine evaluated and the policy allowed it, or an eligible human
\* approved it under the policy version that asked for one.  A BLOCK, a
\* shadow evaluation and an anonymous request are never acted on.
UseIsAuthorised ==
  \A i \in DOMAIN uses :
    LET r == requests[uses[i].jti] IN
    /\ r # None
    /\ r.authenticated /\ ~r.shadow
    /\ uses[i].payload = r.payload
    /\ \/ r.verdict = "ALLOW"
       \/ \E a \in approvals : a.ticket = uses[i].jti /\ EligibleApproval(a, r)

\* A Passport is refused as replayed only because an executor of the same
\* cache did act on its jti: a verification that fails, or that is still
\* waiting, never uses an authorisation up.
RefusalHasCause ==
  \A c \in Caches, j \in Decisions :
    seen[c][j] # 0 =>
      \E i \in DOMAIN uses :
        uses[i].cache = c /\ uses[i].jti = j /\ uses[i].exp = seen[c][j]

\* A ticket turns into a Passport only if its policy was in force at some
\* moment since that submission was verified: a policy replaced before the
\* submission stops the ticket, one replaced while load() is awaited may not
\* (ApprovalService._check_policy).
ReplacedPolicyStopsTicket ==
  [][\A p \in passports' \ passports :
       p.approver # None =>
         \E s \in Submitters :
           /\ submissions[s] # None
           /\ submissions[s].ticket = p.jti
           /\ tickets[p.jti].policy \in inForce[s]]_vars

\* Once a valid Passport is presented to an executor, an executor of that
\* cache acts on its jti: threads that present it together never refuse one
\* another and leave the authorised action undone.
PresentedIsUsed ==
  \A w \in Workers, d \in Decisions :
    (checks[w] # None /\ checks[w].passport.jti = d)
      ~> \E i \in DOMAIN uses : uses[i].cache = CacheOf[w] /\ uses[i].jti = d

\* The lifecycle implements the abstract promise: the Passports are the
\* grants, the accepted verifications the executions.
Guard == INSTANCE AuthorisedUse
  WITH Times <- 0..(MaxTime + PassportTTL),
       granted <- {<<p.jti, p.payload>> : p \in passports}

ImplementsAuthorisedUse == Guard!Spec

-----------------------------------------------------------------------------
(* What the documentation says, and the code does not keep. *)

InTime(u) == u.at < u.exp

\* "Executors that verify Passports with a replay cache accept the first and
\* reject the rest, so one approval authorizes one execution"
\* (docs/approvals.md).  The cache forgets the jti when the first Passport
\* expires, while the ticket still yields Passports.
OneApprovalOneExecution ==
  \A i, k \in DOMAIN uses :
    (/\ SameAuthority(uses[i], uses[k])
     /\ requests[uses[i].jti].verdict # "ALLOW"
     /\ InTime(uses[i]) /\ InTime(uses[k])) => i = k

\* "Pass replay_cache to reject a Passport presented more than once"
\* (axg_python_sdk.verify_passport).  A verification that decodes the Passport
\* just before it expires reaches the cache just after the entry is dropped.
PassportPresentedOnce ==
  \A i, k \in DOMAIN uses :
    (SameAuthority(uses[i], uses[k]) /\ uses[i].exp = uses[k].exp) => i = k

=============================================================================
