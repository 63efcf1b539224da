---------------------------- MODULE AuthorisedUse ----------------------------
(***************************************************************************)
(* What AXG promises about one authorisation, without tickets, tokens or   *)
(* threads: a decision authorises at most one payload, an executor acts    *)
(* only on an authorised payload, and the executors that share a replay    *)
(* cache act on a decision again only after the Passport of every earlier  *)
(* action has expired.                                                     *)
(***************************************************************************)
EXTENDS Naturals, Sequences

CONSTANTS
  Decisions,  \* decisions, each with its own jti
  Payloads,   \* actionable payloads
  Caches,     \* replay caches
  Times       \* the times of executions and expiries

VARIABLES
  now,      \* the time
  granted,  \* pairs <<decision, payload>> that may be executed
  uses      \* the executions, in order

vars == <<now, granted, uses>>

Init ==
  /\ now = 0
  /\ granted = {}
  /\ uses = <<>>

Advance ==
  /\ now' = now + 1
  /\ UNCHANGED <<granted, uses>>

Grant(d, payload) ==
  /\ \A g \in granted : g[1] = d => g[2] = payload
  /\ granted' = granted \cup {<<d, payload>>}
  /\ UNCHANGED <<now, uses>>

\* u is an execution by an executor of cache u.cache, with a Passport that
\* expires at u.exp.
Execute(u) ==
  /\ <<u.jti, u.payload>> \in granted
  /\ \A i \in DOMAIN uses :
       (uses[i].cache = u.cache /\ uses[i].jti = u.jti) => uses[i].exp <= now
  /\ uses' = Append(uses, u)
  /\ UNCHANGED <<now, granted>>

\* The executions possible now.
NewUse == [cache : Caches, jti : Decisions, payload : Payloads,
           exp : Times, at : {now}]

Next ==
  \/ Advance
  \/ \E d \in Decisions, payload \in Payloads : Grant(d, payload)
  \/ \E u \in NewUse : Execute(u)

Spec == Init /\ [][Next]_vars

=============================================================================
