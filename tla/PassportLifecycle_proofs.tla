----------------------- MODULE PassportLifecycle_proofs -----------------------
(***************************************************************************)
(* Theorems about PassportLifecycle, for every number of decisions,        *)
(* people, executor threads and replay caches, and every lifetime.         *)
(***************************************************************************)
EXTENDS PassportLifecycle, TLAPS

(***************************************************************************)
(* Type correctness.  Each action is a lemma step, and under it only the   *)
(* variables the action changes.                                           *)
(***************************************************************************)

LEMMA SignPassportType ==
  ASSUME TypeOK, NEW d \in Decisions, NEW payload \in Payloads,
         NEW approver \in OrNone(Ids)
  PROVE  SignPassport(d, payload, approver) \subseteq Passport
<1>1. now + PassportTTL \in Nat
  BY TimeAssumption DEF TypeOK
<1>2. QED
  BY <1>1 DEF TypeOK, SignPassport, Passport

LEMMA UnexpiredType ==
  ASSUME NEW entries \in [Decisions -> Nat], NEW t \in Int
  PROVE  Unexpired(entries, t) \in [Decisions -> Nat]
BY DEF Unexpired

LEMMA UseType ==
  ASSUME TypeOK, NEW i \in DOMAIN uses
  PROVE  /\ uses[i] \in Use /\ uses[i].cache \in Caches
         /\ uses[i].jti \in Decisions /\ uses[i].exp \in Nat
<1>1. uses[i] \in Use
  <2>1. uses \in Seq(Use)
    BY DEF TypeOK
  <2>2. QED
    BY <2>1
<1>2. QED
  BY <1>1 DEF Use

LEMMA DecideType ==
  ASSUME TypeOK, NEW d \in Decisions, Decide(d)
  PROVE  TypeOK'
<1>1. ASSUME NEW payload \in Payloads, NEW agent \in OrNone(Ids),
             NEW user \in OrNone(Ids), NEW authenticated \in BOOLEAN,
             NEW shadow \in BOOLEAN,
             DecideLoad(d, payload, agent, user, authenticated, shadow)
      PROVE  TypeOK'
  <2>1. requests' \in [Decisions -> OrNone(Request)]
    BY <1>1 DEF TypeOK, DecideLoad, Request, OrNone
  <2>2. QED
    BY <1>1, <2>1 DEF TypeOK, DecideLoad, execVars, submitVars
<1>2. ASSUME NEW verdict \in Verdict, Pending(d), Conclude(d, verdict)
      PROVE  /\ requests[d] \in Request
             /\ requests' \in [Decisions -> OrNone(Request)]
             /\ UNCHANGED <<now, policy, submitVars, approvals, execVars>>
  <2>1. requests[d] \in Request
    BY <1>2 DEF TypeOK, Conclude, Pending, OrNone
  <2>2. [requests[d] EXCEPT !.verdict = verdict] \in Request
    BY <2>1 DEF Request
  <2>3. QED
    BY <1>2, <2>1, <2>2 DEF TypeOK, Conclude, OrNone
<1>3. CASE DecideAllow(d)
  <2>1. Pending(d) /\ Conclude(d, "ALLOW") /\ "ALLOW" \in Verdict
    BY <1>3 DEF DecideAllow, Verdict
  <2>2. requests[d].payload \in Payloads /\ None \in OrNone(Ids)
    BY <1>2, <2>1 DEF Request, OrNone
  <2>3. passports' \subseteq Passport /\ UNCHANGED tickets
    BY <1>3, <2>2, SignPassportType DEF DecideAllow
  <2>4. QED
    BY <1>2, <2>1, <2>3 DEF TypeOK, execVars, submitVars
<1>4. ASSUME NEW verdict \in Verdict, NEW role \in Roles,
             DecideTicket(d, verdict, role)
      PROVE  TypeOK'
  <2>1. Pending(d) /\ Conclude(d, verdict)
    BY <1>4 DEF DecideTicket
  <2>2. now + TicketTTL \in Nat
    BY TimeAssumption DEF TypeOK
  <2>3. SignTicket(d, role) \in Ticket
    BY <1>2, <2>1, <2>2 DEF SignTicket, Ticket, Request
  <2>4. tickets' \in [Decisions -> OrNone(Ticket)] /\ UNCHANGED passports
    BY <1>4, <2>3 DEF TypeOK, DecideTicket, OrNone
  <2>5. QED
    BY <1>2, <2>1, <2>4 DEF TypeOK, execVars, submitVars
<1>5. ASSUME NEW verdict \in Verdict, DecideNoToken(d, verdict)
      PROVE  TypeOK'
  BY <1>2, <1>5 DEF TypeOK, DecideNoToken, execVars, submitVars
<1>6. QED
  BY <1>1, <1>3, <1>4, <1>5 DEF Decide

LEMMA SubmitType ==
  ASSUME TypeOK, NEW s \in Submitters, Submit(s)
  PROVE  TypeOK'
<1>1. ASSUME NEW r \in Submission, SubmitVerify(s, r)
      PROVE  TypeOK'
  <2>1. submissions' \in [Submitters -> OrNone(Submission)]
    BY <1>1 DEF TypeOK, SubmitVerify, OrNone
  <2>2. inForce' \in [Submitters -> SUBSET OrNone(Policies)]
    BY <1>1 DEF TypeOK, SubmitVerify
  <2>3. QED
    BY <1>1, <2>1, <2>2 DEF TypeOK, SubmitVerify, execVars
<1>2. ASSUME Answer(s)
      PROVE  /\ submissions[s] \in Submission
             /\ submissions' \in [Submitters -> OrNone(Submission)]
             /\ loaded' \in [Submitters -> OrNone(Policies)]
             /\ inForce' \in [Submitters -> SUBSET OrNone(Policies)]
             /\ UNCHANGED <<now, policy, requests, tickets, execVars>>
  BY <1>2 DEF TypeOK, Answer, OrNone
<1>3. CASE SubmitApprove(s)
  <2>1. Answer(s)
    BY <1>3 DEF SubmitApprove
  <2>2. PICK r \in Submission : r = submissions[s]
    BY <1>2, <2>1
  <2>3. /\ r.ticket \in Decisions /\ r.payload \in Payloads
        /\ r.approver \in OrNone(Ids) /\ r.approver \in Ids
        /\ r.role \in Roles /\ r.client \in Clients
    BY DEF Submission, OrNone
  <2>4. passports' \subseteq Passport
    BY <1>3, <2>2, <2>3, SignPassportType DEF SubmitApprove
  <2>5. loaded[s] \in Policies
    BY <1>3 DEF TypeOK, SubmitApprove, PolicyUnchanged, OrNone
  <2>6. approvals' \subseteq Approval
    BY <1>3, <2>2, <2>3, <2>5 DEF TypeOK, SubmitApprove, Approval
  <2>7. QED
    BY <1>2, <2>1, <2>4, <2>6 DEF TypeOK, execVars
<1>4. CASE SubmitNoPassport(s)
  BY <1>2, <1>4 DEF TypeOK, SubmitNoPassport, execVars
<1>5. CASE SubmitLoad(s)
  <2>1. loaded' \in [Submitters -> OrNone(Policies)]
    BY <1>5 DEF TypeOK, SubmitLoad
  <2>2. QED
    BY <1>5, <2>1 DEF TypeOK, SubmitLoad, execVars
<1>6. QED
  BY <1>1, <1>3, <1>4, <1>5 DEF Submit

LEMMA VerifyType ==
  ASSUME TypeOK, NEW w \in Workers, Verify(w)
  PROVE  TypeOK'
<1>1. ASSUME NEW p \in passports, NEW payload \in Payloads,
             VerifyDecode(w, p, payload)
      PROVE  TypeOK'
  <2>1. [passport |-> p, payload |-> payload, clock |-> -1] \in Check
    BY <1>1 DEF TypeOK, Check
  <2>2. checks' \in [Workers -> OrNone(Check)]
    BY <1>1, <2>1 DEF TypeOK, VerifyDecode, OrNone
  <2>3. QED
    BY <1>1, <2>2 DEF TypeOK, VerifyDecode, axgVars, submitVars
<1>2. CASE VerifyClock(w)
  <2>1. checks[w] \in Check
    BY <1>2 DEF TypeOK, VerifyClock, OrNone
  <2>2. [checks[w] EXCEPT !.clock = now] \in Check
    <3>1. now \in Int
      BY DEF TypeOK
    <3>2. QED
      BY <2>1, <3>1 DEF Check
  <2>3. checks' \in [Workers -> OrNone(Check)]
    BY <1>2, <2>2 DEF TypeOK, VerifyClock, OrNone
  <2>4. QED
    BY <1>2, <2>3 DEF TypeOK, VerifyClock, axgVars, submitVars
<1>3. CASE VerifyStore(w)
  <2> DEFINE k == checks[w]
             c == CacheOf[w]
             kept == Unexpired(seen[c], k.clock)
  <2>1. k \in Check /\ k.passport \in Passport /\ c \in Caches
    BY <1>3, SetAssumption DEF TypeOK, VerifyStore, OrNone, Check
  <2>2. kept \in [Decisions -> Nat]
    BY <2>1, UnexpiredType DEF TypeOK, Check
  <2>3. [kept EXCEPT ![k.passport.jti] = k.passport.exp]
          \in [Decisions -> Nat]
    BY <2>1, <2>2 DEF Passport
  <2>4. seen' \in [Caches -> [Decisions -> Nat]]
    BY <1>3, <2>1, <2>2, <2>3 DEF TypeOK, VerifyStore
  <2>5. UseOf(c, k) \in Use
    BY <2>1 DEF TypeOK, UseOf, Use, Check, Passport
  <2>6. uses' \in Seq(Use)
    <3>1. uses' = uses \/ uses' = Append(uses, UseOf(c, k))
      BY <1>3 DEF VerifyStore
    <3>2. uses \in Seq(Use)
      BY DEF TypeOK
    <3>3. QED
      BY <2>5, <3>1, <3>2
  <2>7. checks' \in [Workers -> OrNone(Check)]
    BY <1>3 DEF TypeOK, VerifyStore, OrNone
  <2>8. QED
    BY <1>3, <2>4, <2>6, <2>7 DEF TypeOK, VerifyStore, axgVars, submitVars
<1>4. QED
  BY <1>1, <1>2, <1>3 DEF Verify

\* Every variable of the lifecycle keeps its type.
THEOREM TypeCorrect == Spec => []TypeOK
<1>1. Init => TypeOK
  BY DEF Init, TypeOK, OrNone
<1>2. TypeOK /\ [Next]_vars => TypeOK'
  <2> SUFFICES ASSUME TypeOK, [Next]_vars
               PROVE  TypeOK'
    OBVIOUS
  <2>1. CASE Tick
    BY <2>1 DEF TypeOK, Tick, axgVars, execVars, submitVars
  <2>2. ASSUME NEW l \in OrNone(Policies), ChangePolicy(l)
        PROVE  TypeOK'
    <3>1. inForce' \in [Submitters -> SUBSET OrNone(Policies)]
      BY <2>2 DEF TypeOK, ChangePolicy
    <3>2. QED
      BY <2>2, <3>1 DEF TypeOK, ChangePolicy, execVars
  <2>3. CASE UNCHANGED vars
    BY <2>3 DEF TypeOK, vars, submitVars
  <2>4. QED
    BY <2>1, <2>2, <2>3, DecideType, SubmitType, VerifyType DEF Next
<1>3. QED
  BY <1>1, <1>2, PTL DEF Spec

-----------------------------------------------------------------------------
(***************************************************************************)
(* Single use.  SingleUseInWindow is not inductive: it says nothing of     *)
(* what the caches hold.  The strengthening relates each execution to the  *)
(* cache it went through (Remembered): its Passport has expired, or the    *)
(* cache still holds an entry that outlives it.  A thread may purge with   *)
(* a time it read long ago, but never with one of the future (ClockRead).  *)
(***************************************************************************)

ClockRead == \A w \in Workers : checks[w] # None => checks[w].clock <= now

Remembered ==
  \A i \in DOMAIN uses :
    LET u == uses[i] IN u.exp <= now \/ u.exp <= seen[u.cache][u.jti]

IInv == TypeOK /\ ClockRead /\ Remembered /\ SingleUseInWindow

\* Only the executor threads touch what SingleUseInWindow depends on.
LEMMA SingleUseFrame ==
  ASSUME IInv, TypeOK', now <= now', UNCHANGED execVars
  PROVE  IInv'
<1>1. ClockRead'
  <2> SUFFICES ASSUME NEW w \in Workers, checks[w] # None
               PROVE  checks[w].clock <= now'
    BY DEF ClockRead, execVars
  <2>1. checks[w].clock \in Int /\ checks[w].clock <= now
    BY DEF IInv, ClockRead, TypeOK, Check, OrNone
  <2>2. QED
    BY <2>1 DEF IInv, TypeOK
<1>2. Remembered'
  <2> SUFFICES ASSUME NEW i \in DOMAIN uses
               PROVE  \/ uses[i].exp <= now'
                      \/ uses[i].exp <= seen[uses[i].cache][uses[i].jti]
    BY DEF Remembered, execVars
  <2>1. uses[i].exp \in Nat /\ now \in Nat /\ now' \in Nat
    BY UseType DEF IInv, TypeOK
  <2>2. \/ uses[i].exp <= now
        \/ uses[i].exp <= seen[uses[i].cache][uses[i].jti]
    BY DEF IInv, Remembered
  <2>3. QED
    BY <2>1, <2>2
<1>3. SingleUseInWindow'
  BY DEF IInv, SingleUseInWindow, SameAuthority, execVars
<1>4. QED
  BY <1>1, <1>2, <1>3 DEF IInv

LEMMA SingleUseVerify ==
  ASSUME IInv, TypeOK', NEW w \in Workers, Verify(w)
  PROVE  IInv'
<1>1. ASSUME NEW p \in passports, NEW payload \in Payloads,
             VerifyDecode(w, p, payload)
      PROVE  IInv'
  <2>1. ClockRead'
    BY <1>1 DEF IInv, TypeOK, ClockRead, VerifyDecode
  <2>2. QED
    BY <1>1, <2>1 DEF IInv, Remembered, SingleUseInWindow, SameAuthority,
                      VerifyDecode
<1>2. CASE VerifyClock(w)
  <2>1. checks[w] \in Check
    BY <1>2 DEF IInv, TypeOK, VerifyClock, OrNone
  <2>2. ClockRead'
    BY <1>2, <2>1 DEF IInv, TypeOK, ClockRead, VerifyClock, Check
  <2>3. QED
    BY <1>2, <2>2 DEF IInv, Remembered, SingleUseInWindow, SameAuthority,
                      VerifyClock
<1>3. CASE VerifyStore(w)
  <2> DEFINE k == checks[w]
             c == CacheOf[w]
             j == k.passport.jti
             kept == Unexpired(seen[c], k.clock)
  <2>1. /\ k \in Check /\ k.passport \in Passport /\ c \in Caches
        /\ k.clock \in Int /\ k.clock <= now /\ j \in Decisions
    BY <1>3, SetAssumption
    DEF IInv, TypeOK, ClockRead, VerifyStore, OrNone, Check, Passport
  <2>2. now \in Nat /\ now' = now
    BY <1>3 DEF IInv, TypeOK, VerifyStore
  <2>3. ClockRead'
    BY <1>3, <2>2 DEF IInv, TypeOK, ClockRead, VerifyStore
  \* What the purge drops has expired.
  <2>4. ASSUME NEW i \in DOMAIN uses, uses[i].cache = c
        PROVE  uses[i].exp <= now \/ uses[i].exp <= kept[uses[i].jti]
    <3>1. uses[i] \in Use /\ uses[i].jti \in Decisions /\ uses[i].exp \in Nat
      BY UseType DEF IInv
    <3>2. seen[c][uses[i].jti] \in Nat
      BY <2>1, <3>1 DEF IInv, TypeOK
    <3>3. uses[i].exp <= now \/ uses[i].exp <= seen[c][uses[i].jti]
      BY <2>4 DEF IInv, Remembered
    <3>4. CASE seen[c][uses[i].jti] > k.clock
      BY <3>1, <3>3, <3>4 DEF Unexpired
    <3>5. CASE ~(seen[c][uses[i].jti] > k.clock)
      BY <2>1, <2>2, <3>1, <3>2, <3>3, <3>5
    <3>6. QED
      BY <3>4, <3>5
  <2>5. CASE kept[j] # 0 /\ seen' = [seen EXCEPT ![c] = kept] /\ UNCHANGED uses
    <3>1. Remembered'
      <4> SUFFICES ASSUME NEW i \in DOMAIN uses
                   PROVE  \/ uses[i].exp <= now
                          \/ uses[i].exp <= seen'[uses[i].cache][uses[i].jti]
        BY <2>2, <2>5 DEF Remembered
      <4>1. uses[i].cache \in Caches
        BY UseType DEF IInv
      <4>2. CASE uses[i].cache = c
        BY <2>1, <2>4, <2>5, <4>2 DEF IInv, TypeOK
      <4>3. CASE uses[i].cache # c
        BY <2>5, <4>1, <4>3 DEF IInv, TypeOK, Remembered
      <4>4. QED
        BY <4>2, <4>3
    <3>2. SingleUseInWindow'
      BY <2>5 DEF IInv, SingleUseInWindow, SameAuthority
    <3>3. QED
      BY <2>3, <3>1, <3>2 DEF IInv
  <2>6. CASE /\ kept[j] = 0
             /\ seen' = [seen EXCEPT
                           ![c] = [kept EXCEPT ![j] = k.passport.exp]]
             /\ uses' = Append(uses, UseOf(c, k))
    <3> DEFINE n == Len(uses) + 1
    <3>1. /\ uses \in Seq(Use) /\ UseOf(c, k) \in Use
          /\ Len(uses) \in Nat /\ DOMAIN uses = 1..Len(uses)
      BY <2>1, <2>2 DEF IInv, TypeOK, UseOf, Use, Check, Passport
    <3>2. /\ DOMAIN uses' = 1..n
          /\ uses'[n] = UseOf(c, k)
          /\ \A i \in DOMAIN uses : uses'[i] = uses[i]
          /\ \A i \in DOMAIN uses' : i \in DOMAIN uses \/ i = n
      BY <2>6, <3>1
    \* The jti was absent, so whatever it authorised before has expired.
    <3>3. ASSUME NEW i \in DOMAIN uses, uses[i].cache = c, uses[i].jti = j
          PROVE  uses[i].exp <= now
      <4>1. uses[i].exp \in Nat
        BY UseType DEF IInv
      <4>2. uses[i].exp <= now \/ uses[i].exp <= 0
        BY <2>4, <2>6, <3>3
      <4>3. QED
        BY <2>2, <4>1, <4>2
    <3>4. kept \in [Decisions -> Nat]
      BY <2>1, UnexpiredType DEF IInv, TypeOK
    <3>5. /\ seen'[c][j] = k.passport.exp
          /\ \A d \in Decisions : d # j => seen'[c][d] = kept[d]
          /\ \A e \in Caches : e # c => seen'[e] = seen[e]
      BY <2>1, <2>6, <3>4 DEF IInv, TypeOK
    <3>6. Remembered'
      <4> SUFFICES ASSUME NEW i \in DOMAIN uses'
                   PROVE  \/ uses'[i].exp <= now
                          \/ uses'[i].exp <= seen'[uses'[i].cache][uses'[i].jti]
        BY <2>2 DEF Remembered
      <4>1. CASE i = n
        BY <2>1, <3>2, <3>5, <4>1 DEF UseOf, Passport
      <4>2. CASE i \in DOMAIN uses
        <5>1. uses'[i] = uses[i] /\ uses[i] \in Use
          BY <3>1, <3>2, <4>2
        <5>2. CASE uses[i].cache # c
          BY <3>5, <4>2, <5>1, <5>2 DEF IInv, Remembered, Use
        <5>3. CASE uses[i].cache = c /\ uses[i].jti = j
          BY <3>3, <4>2, <5>1, <5>3
        <5>4. CASE uses[i].cache = c /\ uses[i].jti # j
          BY <2>4, <3>5, <4>2, <5>1, <5>4 DEF Use
        <5>5. QED
          BY <5>2, <5>3, <5>4
      <4>3. QED
        BY <3>2, <4>1, <4>2
    <3>7. SingleUseInWindow'
      <4> SUFFICES ASSUME NEW i \in DOMAIN uses', NEW m \in DOMAIN uses',
                          i < m, SameAuthority(uses'[i], uses'[m])
                   PROVE  uses'[i].exp <= uses'[m].at
        BY DEF SingleUseInWindow, SameAuthority
      <4>1. i \in DOMAIN uses
        BY <3>1, <3>2
      <4>2. CASE m \in DOMAIN uses
        BY <3>2, <4>1, <4>2 DEF IInv, SingleUseInWindow, SameAuthority
      <4>3. CASE m = n
        BY <3>2, <3>3, <4>1, <4>3 DEF SameAuthority, UseOf
      <4>4. QED
        BY <3>2, <4>2, <4>3
    <3>8. QED
      BY <2>3, <3>6, <3>7 DEF IInv
  <2>7. QED
    BY <1>3, <2>5, <2>6 DEF VerifyStore
<1>4. QED
  BY <1>1, <1>2, <1>3 DEF Verify

\* A replay cache accepts a jti again only after the Passport it accepted
\* before has expired, however its threads interleave.
THEOREM SingleUse == Spec => []SingleUseInWindow
<1>1. Init => IInv
  BY DEF Init, IInv, TypeOK, OrNone, ClockRead, Remembered, SingleUseInWindow
<1>2. IInv /\ TypeOK' /\ [Next]_vars => IInv'
  <2> SUFFICES ASSUME IInv, TypeOK', [Next]_vars
               PROVE  IInv'
    OBVIOUS
  <2>1. now \in Nat
    BY DEF IInv, TypeOK
  <2>2. CASE Tick
    BY <2>1, <2>2, SingleUseFrame DEF Tick
  <2>3. ASSUME NEW l \in OrNone(Policies), ChangePolicy(l)
        PROVE  IInv'
    BY <2>1, <2>3, SingleUseFrame DEF ChangePolicy
  <2>4. ASSUME NEW d \in Decisions, Decide(d)
        PROVE  IInv'
    BY <2>1, <2>4, SingleUseFrame
    DEF Decide, DecideLoad, DecideAllow, DecideTicket, DecideNoToken, Conclude
  <2>5. ASSUME NEW s \in Submitters, Submit(s)
        PROVE  IInv'
    BY <2>1, <2>5, SingleUseFrame
    DEF Submit, SubmitVerify, SubmitLoad, SubmitApprove, SubmitNoPassport, Answer
  <2>6. CASE UNCHANGED vars
    BY <2>1, <2>6, SingleUseFrame DEF vars, execVars
  <2>7. QED
    BY <2>2, <2>3, <2>4, <2>5, <2>6, SingleUseVerify DEF Next
<1>3. IInv => SingleUseInWindow
  BY DEF IInv
<1>4. QED
  BY <1>1, <1>2, <1>3, TypeCorrect, PTL DEF Spec

-----------------------------------------------------------------------------
(***************************************************************************)
(* Refusals.  RefusalHasCause is inductive together with the types: a      *)
(* purge only removes entries, and an entry is made with the execution.    *)
(***************************************************************************)

\* Executions are only ever added, so an entry that is kept keeps its cause.
LEMMA RefusalFrame ==
  ASSUME RefusalHasCause, UNCHANGED <<seen, uses>>
  PROVE  RefusalHasCause'
BY DEF RefusalHasCause

LEMMA RefusalStore ==
  ASSUME TypeOK, RefusalHasCause, NEW w \in Workers, VerifyStore(w)
  PROVE  RefusalHasCause'
<1> DEFINE k == checks[w]
           c == CacheOf[w]
           j == k.passport.jti
           kept == Unexpired(seen[c], k.clock)
<1>1. /\ k \in Check /\ k.passport \in Passport /\ c \in Caches
      /\ j \in Decisions /\ k.clock \in Int
  BY SetAssumption DEF TypeOK, VerifyStore, OrNone, Check, Passport
<1>2. kept \in [Decisions -> Nat] /\ \A d \in Decisions : kept[d] \in {0, seen[c][d]}
  BY <1>1, UnexpiredType DEF TypeOK, Unexpired
<1>3. CASE seen' = [seen EXCEPT ![c] = kept] /\ UNCHANGED uses
  BY <1>1, <1>2, <1>3 DEF RefusalHasCause, TypeOK
<1>4. CASE /\ seen' = [seen EXCEPT ![c] = [kept EXCEPT ![j] = k.passport.exp]]
           /\ uses' = Append(uses, UseOf(c, k))
  <2> DEFINE n == Len(uses) + 1
  <2>1. /\ uses \in Seq(Use) /\ UseOf(c, k) \in Use
        /\ Len(uses) \in Nat /\ DOMAIN uses = 1..Len(uses)
    BY <1>1 DEF TypeOK, UseOf, Use, Check, Passport
  <2>2. /\ n \in DOMAIN uses' /\ uses'[n] = UseOf(c, k)
        /\ \A i \in DOMAIN uses : i \in DOMAIN uses' /\ uses'[i] = uses[i]
    BY <1>4, <2>1
  <2>3. /\ seen'[c][j] = k.passport.exp
        /\ \A d \in Decisions : d # j => seen'[c][d] = kept[d]
        /\ \A e \in Caches : e # c => seen'[e] = seen[e]
    BY <1>1, <1>2, <1>4 DEF TypeOK
  <2> SUFFICES ASSUME NEW e \in Caches, NEW d \in Decisions, seen'[e][d] # 0
               PROVE  \E i \in DOMAIN uses' :
                        /\ uses'[i].cache = e /\ uses'[i].jti = d
                        /\ uses'[i].exp = seen'[e][d]
    BY DEF RefusalHasCause
  <2>4. CASE e = c /\ d = j
    BY <2>2, <2>3, <2>4 DEF UseOf
  <2>5. CASE ~(e = c /\ d = j)
    <3>1. seen'[e][d] = seen[e][d]
      BY <1>2, <2>3, <2>5
    <3>2. PICK i \in DOMAIN uses : /\ uses[i].cache = e /\ uses[i].jti = d
                                   /\ uses[i].exp = seen[e][d]
      BY <3>1 DEF RefusalHasCause
    <3>3. QED
      BY <2>2, <3>1, <3>2
  <2>6. QED
    BY <2>4, <2>5
<1>5. QED
  BY <1>3, <1>4 DEF VerifyStore

\* An executor of the cache acted on every jti the cache refuses, however the
\* threads that verify it interleave (InMemoryReplayCache.check_and_store).
THEOREM RefusalCause == Spec => []RefusalHasCause
<1>1. Init => RefusalHasCause
  BY DEF Init, RefusalHasCause
<1>2. TypeOK /\ RefusalHasCause /\ [Next]_vars => RefusalHasCause'
  <2> SUFFICES ASSUME TypeOK, RefusalHasCause, [Next]_vars
               PROVE  RefusalHasCause'
    OBVIOUS
  <2>1. CASE Tick
    BY <2>1, RefusalFrame DEF Tick, execVars
  <2>2. ASSUME NEW l \in OrNone(Policies), ChangePolicy(l)
        PROVE  RefusalHasCause'
    BY <2>2, RefusalFrame DEF ChangePolicy, execVars
  <2>3. ASSUME NEW d \in Decisions, Decide(d)
        PROVE  RefusalHasCause'
    BY <2>3, RefusalFrame
    DEF Decide, DecideLoad, DecideAllow, DecideTicket, DecideNoToken, Conclude,
        execVars
  <2>4. ASSUME NEW s \in Submitters, Submit(s)
        PROVE  RefusalHasCause'
    BY <2>4, RefusalFrame
    DEF Submit, SubmitVerify, SubmitLoad, SubmitApprove, SubmitNoPassport, Answer,
        execVars
  <2>5. ASSUME NEW w \in Workers, Verify(w)
        PROVE  RefusalHasCause'
    BY <2>5, RefusalFrame, RefusalStore DEF Verify, VerifyDecode, VerifyClock
  <2>6. CASE UNCHANGED vars
    BY <2>6, RefusalFrame DEF vars
  <2>7. QED
    BY <2>1, <2>2, <2>3, <2>4, <2>5, <2>6 DEF Next
<1>3. QED
  BY <1>1, <1>2, TypeCorrect, PTL DEF Spec

-----------------------------------------------------------------------------
(***************************************************************************)
(* Authorisation from end to end.  UseIsAuthorised is about the ends of a  *)
(* chain; the strengthening says what each link carries: a ticket repeats  *)
(* a concluded request, an approval in flight was checked against its      *)
(* ticket, a Passport is authorised, and so on to the executions.  A       *)
(* request that is concluded, and its ticket, never change again.          *)
(***************************************************************************)

Authorised(d, payload) ==
  /\ requests[d] # None /\ Live(requests[d])
  /\ payload = requests[d].payload
  /\ \/ requests[d].verdict = "ALLOW"
     \/ \E a \in approvals : a.ticket = d /\ EligibleApproval(a, requests[d])

TicketsGenuine ==
  \A d \in Decisions : tickets[d] # None =>
    /\ requests[d] # None /\ Live(requests[d])
    /\ requests[d].verdict \in {"CONFIRM", "SUGGEST"}
    /\ tickets[d].payload = requests[d].payload
    /\ tickets[d].policy = requests[d].policy
    /\ tickets[d].agent = requests[d].agent
    /\ tickets[d].user = requests[d].user

SubmissionsChecked ==
  \A s \in Submitters : submissions[s] # None =>
    LET r == submissions[s] IN
    /\ tickets[r.ticket] # None
    /\ r.client \in Approvers
    /\ r.payload = tickets[r.ticket].payload
    /\ MayApprove(tickets[r.ticket], r.approver, r.role)

PassportsAuthorised == \A p \in passports : Authorised(p.jti, p.payload)

ChecksGenuine ==
  \A w \in Workers : checks[w] # None =>
    /\ checks[w].passport \in passports
    /\ checks[w].payload = checks[w].passport.payload

UsesGranted ==
  \A i \in DOMAIN uses :
    \E p \in passports : p.jti = uses[i].jti /\ p.payload = uses[i].payload

AuthInv ==
  /\ TicketsGenuine /\ SubmissionsChecked
  /\ PassportsAuthorised /\ ChecksGenuine /\ UsesGranted

LEMMA AuthorisedKept ==
  ASSUME NEW d, NEW payload, Authorised(d, payload),
         requests'[d] = requests[d], tickets'[d] = tickets[d],
         approvals \subseteq approvals'
  PROVE  Authorised(d, payload)'
BY DEF Authorised, EligibleApproval

\* What is under way for other decisions survives the steps of decision d,
\* which has no ticket and no Passport before it is concluded.
LEMMA DecideFrame ==
  ASSUME TypeOK, AuthInv, NEW d \in Decisions, requests[d] = None \/ Pending(d),
         \A e \in Decisions \ {d} :
           requests'[e] = requests[e] /\ tickets'[e] = tickets[e],
         passports \subseteq passports', UNCHANGED <<submissions, approvals, execVars>>
  PROVE  /\ tickets[d] = None
         /\ SubmissionsChecked' /\ ChecksGenuine' /\ UsesGranted'
         /\ \A p \in passports : Authorised(p.jti, p.payload)'
         /\ tickets'[d] = None => TicketsGenuine'
<1>1. tickets[d] = None
  BY DEF AuthInv, TicketsGenuine, Pending
<1>2. SubmissionsChecked'
  <2> SUFFICES ASSUME NEW s \in Submitters, submissions[s] # None
               PROVE  LET r == submissions[s] IN
                      /\ tickets'[r.ticket] # None
                      /\ r.client \in Approvers
                      /\ r.payload = tickets'[r.ticket].payload
                      /\ MayApprove(tickets'[r.ticket], r.approver, r.role)
    BY DEF SubmissionsChecked, MayApprove
  <2>1. submissions[s].ticket \in Decisions \ {d}
    BY <1>1 DEF AuthInv, SubmissionsChecked, TypeOK, OrNone, Submission
  <2>2. QED
    BY <2>1 DEF AuthInv, SubmissionsChecked
<1>3. ASSUME NEW p \in passports
      PROVE  Authorised(p.jti, p.payload)'
  <2>1. Authorised(p.jti, p.payload)
    BY DEF AuthInv, PassportsAuthorised
  <2>2. p.jti \in Decisions /\ p.jti # d
    BY <2>1 DEF TypeOK, Passport, Authorised, Pending, EligibleApproval
  <2>3. requests'[p.jti] = requests[p.jti] /\ tickets'[p.jti] = tickets[p.jti]
    BY <2>2
  <2>4. QED
    BY <2>1, <2>3, AuthorisedKept
<1>4. ChecksGenuine' /\ UsesGranted'
  BY DEF AuthInv, ChecksGenuine, UsesGranted, execVars
<1>5. tickets'[d] = None => TicketsGenuine'
  BY DEF AuthInv, TicketsGenuine, Live
<1>6. QED
  BY <1>1, <1>2, <1>3, <1>4, <1>5

LEMMA AuthDecide ==
  ASSUME TypeOK, AuthInv, NEW d \in Decisions, Decide(d)
  PROVE  AuthInv'
<1>1. ASSUME NEW payload \in Payloads, NEW agent \in OrNone(Ids),
             NEW user \in OrNone(Ids), NEW authenticated \in BOOLEAN,
             NEW shadow \in BOOLEAN,
             DecideLoad(d, payload, agent, user, authenticated, shadow)
      PROVE  AuthInv'
  <2>1. /\ requests[d] = None
        /\ \A e \in Decisions \ {d} :
             requests'[e] = requests[e] /\ tickets'[e] = tickets[e]
        /\ UNCHANGED <<tickets, passports, submissions, approvals, execVars>>
    BY <1>1 DEF DecideLoad, TypeOK, submitVars
  <2>2. QED
    BY <2>1, DecideFrame DEF AuthInv, PassportsAuthorised
<1>2. ASSUME NEW verdict \in Verdict, Pending(d), Conclude(d, verdict)
      PROVE  /\ requests[d] \in Request
             /\ requests'[d] = [requests[d] EXCEPT !.verdict = verdict]
             /\ requests'[d] # None /\ requests'[d].verdict = verdict
             /\ requests'[d].payload = requests[d].payload
             /\ requests'[d].policy = requests[d].policy
             /\ requests'[d].agent = requests[d].agent
             /\ requests'[d].user = requests[d].user
             /\ Live(requests[d]) => Live(requests'[d])
             /\ \A e \in Decisions \ {d} : requests'[e] = requests[e]
             /\ UNCHANGED <<submissions, approvals, execVars>>
  <2>1. requests[d] \in Request
    BY <1>2 DEF TypeOK, Pending, OrNone
  <2>2. requests' = [requests EXCEPT ![d] = [requests[d] EXCEPT !.verdict = verdict]]
    BY <1>2 DEF Conclude
  <2>3. [requests[d] EXCEPT !.verdict = verdict] \in Request
    BY <2>1 DEF Request
  <2>4. requests'[d] = [requests[d] EXCEPT !.verdict = verdict]
    BY <2>2 DEF TypeOK
  <2>5. requests'[d] # None
    BY <2>3, <2>4, NoneAssumption
  <2>6. \A e \in Decisions \ {d} : requests'[e] = requests[e]
    BY <2>2 DEF TypeOK
  <2>7. UNCHANGED <<submissions, approvals, execVars>>
    BY <1>2 DEF Conclude, submitVars
  <2>8. QED
    BY <2>1, <2>4, <2>5, <2>6, <2>7 DEF Request, Live
<1>3. CASE DecideAllow(d)
  <2>1. Pending(d) /\ Live(requests[d]) /\ Conclude(d, "ALLOW")
        /\ "ALLOW" \in Verdict /\ UNCHANGED tickets
    BY <1>3 DEF DecideAllow, Verdict
  <2>2. passports' = passports \cup {[jti |-> d, payload |-> requests[d].payload,
                        iat |-> now, exp |-> now + PassportTTL, approver |-> None]}
    BY <1>3 DEF DecideAllow, SignPassport
  <2>3. /\ SubmissionsChecked' /\ ChecksGenuine' /\ UsesGranted'
        /\ \A p \in passports : Authorised(p.jti, p.payload)'
        /\ TicketsGenuine'
    BY <1>2, <2>1, <2>2, DecideFrame
  <2>4. Authorised(d, requests[d].payload)'
    BY <1>2, <2>1 DEF Authorised, Pending
  <2>5. PassportsAuthorised'
    <3> SUFFICES ASSUME NEW p \in passports'
                 PROVE  Authorised(p.jti, p.payload)'
      BY DEF PassportsAuthorised
    <3>1. CASE p \in passports
      BY <2>3, <3>1
    <3>2. CASE p \notin passports
      <4>1. p.jti = d /\ p.payload = requests[d].payload
        BY <2>2, <3>2
      <4>2. p.payload = requests'[d].payload
        BY <1>2, <2>1, <4>1
      <4>3. QED
        BY <1>2, <2>1, <4>1, <4>2 DEF Authorised, Pending
    <3>3. QED
      BY <3>1, <3>2
  <2>6. QED
    BY <2>3, <2>5 DEF AuthInv
<1>4. ASSUME NEW verdict \in Verdict, NEW role \in Roles,
             DecideTicket(d, verdict, role)
      PROVE  AuthInv'
  <2>1. /\ verdict \in {"CONFIRM", "SUGGEST"} /\ UNCHANGED passports
        /\ Pending(d) /\ Live(requests[d]) /\ Conclude(d, verdict)
    BY <1>4 DEF DecideTicket
  <2>2. /\ tickets'[d] = SignTicket(d, role)
        /\ \A e \in Decisions \ {d} : tickets'[e] = tickets[e]
    BY <1>4 DEF DecideTicket, TypeOK
  <2>3. /\ SubmissionsChecked' /\ ChecksGenuine' /\ UsesGranted'
        /\ \A p \in passports : Authorised(p.jti, p.payload)'
    BY <1>2, <2>1, <2>2, DecideFrame
  <2>4. TicketsGenuine'
    <3> SUFFICES ASSUME NEW e \in Decisions, tickets'[e] # None
                 PROVE  /\ requests'[e] # None /\ Live(requests'[e])
                        /\ requests'[e].verdict \in {"CONFIRM", "SUGGEST"}
                        /\ tickets'[e].payload = requests'[e].payload
                        /\ tickets'[e].policy = requests'[e].policy
                        /\ tickets'[e].agent = requests'[e].agent
                        /\ tickets'[e].user = requests'[e].user
      BY DEF TicketsGenuine, Live
    <3>1. /\ requests'[d] # None /\ Live(requests'[d])
          /\ requests'[d].verdict = verdict
          /\ requests'[d].payload = requests[d].payload
          /\ requests'[d].policy = requests[d].policy
          /\ requests'[d].agent = requests[d].agent
          /\ requests'[d].user = requests[d].user
      BY <1>2, <2>1
    <3>2. \A f \in Decisions \ {d} : requests'[f] = requests[f]
      BY <1>2, <2>1
    <3>3. CASE e = d
      BY <2>1, <2>2, <3>1, <3>3 DEF SignTicket
    <3>4. CASE e # d
      BY <2>2, <3>2, <3>4 DEF AuthInv, TicketsGenuine
    <3>5. QED
      BY <3>3, <3>4
  <2>5. QED
    BY <2>1, <2>3, <2>4 DEF AuthInv, PassportsAuthorised
<1>5. ASSUME NEW verdict \in Verdict, DecideNoToken(d, verdict)
      PROVE  AuthInv'
  <2>1. Pending(d) /\ Conclude(d, verdict) /\ UNCHANGED <<tickets, passports>>
    BY <1>5 DEF DecideNoToken
  <2>2. QED
    BY <1>2, <2>1, DecideFrame DEF AuthInv, PassportsAuthorised
<1>6. QED
  BY <1>1, <1>3, <1>4, <1>5 DEF Decide

\* Steps that leave the decisions and their tickets alone.
LEMMA LinksFrame ==
  ASSUME TypeOK, AuthInv, UNCHANGED <<requests, tickets>>,
         passports \subseteq passports', approvals \subseteq approvals'
  PROVE  /\ TicketsGenuine'
         /\ \A p \in passports : Authorised(p.jti, p.payload)'
         /\ submissions' = submissions => SubmissionsChecked'
         /\ checks' = checks => ChecksGenuine'
         /\ uses' = uses => UsesGranted'
<1>1. TicketsGenuine'
  BY DEF AuthInv, TicketsGenuine, Live
<1>2. \A p \in passports : Authorised(p.jti, p.payload)'
  BY AuthorisedKept DEF AuthInv, PassportsAuthorised
<1>3. submissions' = submissions => SubmissionsChecked'
  BY DEF AuthInv, SubmissionsChecked, MayApprove
<1>4. checks' = checks => ChecksGenuine'
  BY DEF AuthInv, ChecksGenuine
<1>5. uses' = uses => UsesGranted'
  BY DEF AuthInv, UsesGranted
<1>6. QED
  BY <1>1, <1>2, <1>3, <1>4, <1>5

LEMMA AuthSubmit ==
  ASSUME TypeOK, AuthInv, NEW s \in Submitters, Submit(s)
  PROVE  AuthInv'
<1>1. ASSUME NEW r \in Submission, SubmitVerify(s, r)
      PROVE  AuthInv'
  <2>1. /\ UNCHANGED <<requests, tickets, passports, approvals, checks, uses>>
        /\ submissions'[s] = r
        /\ \A q \in Submitters \ {s} : submissions'[q] = submissions[q]
    BY <1>1 DEF SubmitVerify, TypeOK, execVars
  <2>2. /\ tickets[r.ticket] # None /\ r.client \in Approvers
        /\ r.payload = tickets[r.ticket].payload
        /\ MayApprove(tickets[r.ticket], r.approver, r.role)
    BY <1>1 DEF SubmitVerify, TicketValid
  <2>3. SubmissionsChecked'
    BY <2>1, <2>2 DEF AuthInv, SubmissionsChecked, MayApprove
  <2>4. QED
    BY <2>1, <2>3, LinksFrame DEF AuthInv, PassportsAuthorised
<1>2. ASSUME Answer(s)
      PROVE  /\ UNCHANGED <<requests, tickets, checks, uses>>
             /\ SubmissionsChecked'
  BY <1>2 DEF Answer, AuthInv, SubmissionsChecked, MayApprove, TypeOK, execVars
<1>3. CASE SubmitApprove(s)
  <2>1. Answer(s) /\ submissions[s] # None /\ PolicyUnchanged(s)
    BY <1>3 DEF SubmitApprove, Answer
  <2>2. PICK r \in Submission : r = submissions[s]
    BY <2>1 DEF TypeOK, OrNone
  <2>3. r.ticket \in Decisions /\ r.approver \in Ids
    BY DEF Submission
  <2>4. /\ tickets[r.ticket] # None /\ r.client \in Approvers
        /\ r.payload = tickets[r.ticket].payload
        /\ MayApprove(tickets[r.ticket], r.approver, r.role)
        /\ loaded[s] = tickets[r.ticket].policy
    BY <2>1, <2>2 DEF AuthInv, SubmissionsChecked, PolicyUnchanged
  <2> DEFINE a == [ticket |-> r.ticket, approver |-> r.approver, role |-> r.role,
                   client |-> r.client, policy |-> loaded[s]]
             q == [jti |-> r.ticket, payload |-> r.payload, iat |-> now,
                   exp |-> now + PassportTTL, approver |-> r.approver]
  <2>5. passports' = passports \cup {q} /\ approvals' = approvals \cup {a}
    BY <1>3, <2>2 DEF SubmitApprove, SignPassport
  <2>6. Authorised(r.ticket, r.payload)'
    <3> DEFINE t == tickets[r.ticket]
               req == requests[r.ticket]
    <3>1. /\ req # None /\ Live(req) /\ req.verdict \in {"CONFIRM", "SUGGEST"}
          /\ t.payload = req.payload /\ t.policy = req.policy
          /\ t.agent = req.agent /\ t.user = req.user
      BY <2>3, <2>4 DEF AuthInv, TicketsGenuine
    <3>2. r.approver # None
      BY <2>3, NoneAssumption
    <3>3. /\ a.ticket = r.ticket /\ a.approver = r.approver /\ a.role = r.role
          /\ a.client = r.client /\ a.policy = loaded[s]
      OBVIOUS
    <3>4. EligibleApproval(a, req)
      BY <2>4, <3>1, <3>2, <3>3 DEF EligibleApproval, MayApprove
    <3>5. UNCHANGED <<requests, tickets>> /\ a \in approvals'
      BY <1>2, <2>1, <2>5
    <3> HIDE DEF a
    <3>6. QED
      BY <2>4, <3>1, <3>3, <3>4, <3>5 DEF Authorised, EligibleApproval, Live
  <2>7. /\ UNCHANGED <<requests, tickets, checks, uses>>
        /\ passports \subseteq passports' /\ approvals \subseteq approvals'
    BY <1>2, <2>1, <2>5
  <2>8. /\ TicketsGenuine' /\ ChecksGenuine' /\ UsesGranted'
        /\ \A p \in passports : Authorised(p.jti, p.payload)'
    BY <2>7, LinksFrame
  <2>9. PassportsAuthorised'
    <3> SUFFICES ASSUME NEW p \in passports'
                 PROVE  Authorised(p.jti, p.payload)'
      BY DEF PassportsAuthorised
    <3>1. CASE p \in passports
      BY <2>8, <3>1
    <3>2. CASE p = q
      <4>1. p.jti = r.ticket /\ p.payload = r.payload
        BY <3>2
      <4>2. QED
        BY <2>6, <4>1 DEF Authorised
    <3>3. QED
      BY <2>5, <3>1, <3>2
  <2>10. QED
    BY <1>2, <2>1, <2>8, <2>9 DEF AuthInv
<1>4. CASE SubmitNoPassport(s)
  BY <1>2, <1>4, LinksFrame DEF SubmitNoPassport, AuthInv, PassportsAuthorised
<1>5. CASE SubmitLoad(s)
  BY <1>5, LinksFrame DEF SubmitLoad, AuthInv, PassportsAuthorised, execVars
<1>6. QED
  BY <1>1, <1>3, <1>4, <1>5 DEF Submit

LEMMA AuthVerify ==
  ASSUME TypeOK, AuthInv, NEW w \in Workers, Verify(w)
  PROVE  AuthInv'
<1>1. UNCHANGED axgVars
  BY DEF Verify, VerifyDecode, VerifyClock, VerifyStore
<1>2. /\ TicketsGenuine' /\ SubmissionsChecked' /\ PassportsAuthorised'
      /\ checks' = checks => ChecksGenuine'
      /\ uses' = uses => UsesGranted'
  BY <1>1, LinksFrame DEF axgVars, submitVars, PassportsAuthorised
<1>3. ASSUME NEW p \in passports, NEW payload \in Payloads,
             VerifyDecode(w, p, payload)
      PROVE  AuthInv'
  <2>1. ChecksGenuine'
    BY <1>1, <1>3 DEF VerifyDecode, AuthInv, ChecksGenuine, TypeOK, axgVars
  <2>2. QED
    BY <1>2, <1>3, <2>1 DEF VerifyDecode, AuthInv
<1>4. CASE VerifyClock(w)
  <2>1. checks[w] \in Check
    BY <1>4 DEF VerifyClock, TypeOK, OrNone
  <2>2. /\ checks'[w].passport = checks[w].passport
        /\ checks'[w].payload = checks[w].payload
        /\ \A v \in Workers \ {w} : checks'[v] = checks[v]
    BY <1>4, <2>1 DEF VerifyClock, TypeOK, Check
  <2>3. ChecksGenuine'
    BY <1>1, <1>4, <2>2 DEF VerifyClock, AuthInv, ChecksGenuine, axgVars
  <2>4. QED
    BY <1>2, <1>4, <2>3 DEF VerifyClock, AuthInv
<1>5. CASE VerifyStore(w)
  <2>1. ChecksGenuine'
    BY <1>1, <1>5 DEF VerifyStore, AuthInv, ChecksGenuine, TypeOK, axgVars
  <2>2. UsesGranted'
    <3> DEFINE u == UseOf(CacheOf[w], checks[w])
    <3>1. CASE uses' = uses
      BY <1>2, <3>1
    <3>2. CASE uses' = Append(uses, u)
      <4>1. checks[w] \in Check /\ CacheOf[w] \in Caches
        BY <1>5, SetAssumption DEF VerifyStore, TypeOK, OrNone
      <4>2. u \in Use /\ uses \in Seq(Use)
        BY <4>1 DEF TypeOK, UseOf, Use, Check, Passport
      <4>3. \A i \in DOMAIN uses' :
              (i \in DOMAIN uses /\ uses'[i] = uses[i]) \/ uses'[i] = u
        BY <3>2, <4>2
      <4>4. \E p \in passports : p.jti = u.jti /\ p.payload = u.payload
        BY <1>5 DEF VerifyStore, AuthInv, ChecksGenuine, UseOf
      <4>5. QED
        BY <1>1, <4>3, <4>4 DEF AuthInv, UsesGranted, axgVars
    <3>3. QED
      BY <1>5, <3>1, <3>2 DEF VerifyStore
  <2>3. QED
    BY <1>2, <2>1, <2>2 DEF AuthInv
<1>6. QED
  BY <1>3, <1>4, <1>5 DEF Verify

LEMMA AuthInvariant == Spec => []AuthInv
<1>1. Init => AuthInv
  BY DEF Init, AuthInv, TicketsGenuine, SubmissionsChecked, PassportsAuthorised,
         ChecksGenuine, UsesGranted
<1>2. TypeOK /\ AuthInv /\ [Next]_vars => AuthInv'
  <2> SUFFICES ASSUME TypeOK, AuthInv, [Next]_vars
               PROVE  AuthInv'
    OBVIOUS
  <2>1. CASE Tick
    BY <2>1, LinksFrame
    DEF Tick, axgVars, submitVars, execVars, AuthInv, PassportsAuthorised
  <2>2. ASSUME NEW l \in OrNone(Policies), ChangePolicy(l)
        PROVE  AuthInv'
    BY <2>2, LinksFrame DEF ChangePolicy, execVars, AuthInv, PassportsAuthorised
  <2>3. CASE UNCHANGED vars
    BY <2>3, LinksFrame DEF vars, submitVars, AuthInv, PassportsAuthorised
  <2>4. QED
    BY <2>1, <2>2, <2>3, AuthDecide, AuthSubmit, AuthVerify DEF Next
<1>3. QED
  BY <1>1, <1>2, TypeCorrect, PTL DEF Spec

\* An executor acts only on the payload the engine evaluated, for a live
\* request, which the policy allowed or an eligible human approved under the
\* policy version that asked for one: whatever people, threads and policy
\* changes do between the decision and the execution.
THEOREM EndToEnd == Spec => []UseIsAuthorised
<1>1. AuthInv => UseIsAuthorised
  BY DEF AuthInv, UsesGranted, PassportsAuthorised, Authorised, UseIsAuthorised, Live
<1>2. QED
  BY <1>1, AuthInvariant, PTL

-----------------------------------------------------------------------------
(***************************************************************************)
(* What one step may do to the Passports and the executions: the action    *)
(* property, and the refinement of AuthorisedUse.                          *)
(***************************************************************************)

\* Where a new Passport can come from.
LEMMA NewPassport ==
  ASSUME [Next]_vars
  PROVE  \/ passports' = passports
         \/ /\ UNCHANGED <<now, uses>>
            /\ \/ \E d \in Decisions :
                    /\ DecideAllow(d)
                    /\ passports' = SignPassport(d, requests[d].payload, None)
               \/ \E s \in Submitters : LET r == submissions[s] IN
                    /\ SubmitApprove(s) /\ r # None /\ PolicyUnchanged(s)
                    /\ passports' = SignPassport(r.ticket, r.payload, r.approver)
<1>1. CASE Tick
  BY <1>1 DEF Tick, axgVars
<1>2. ASSUME NEW l \in OrNone(Policies), ChangePolicy(l)
      PROVE  passports' = passports
  BY <1>2 DEF ChangePolicy
<1>3. ASSUME NEW d \in Decisions, Decide(d), ~DecideAllow(d)
      PROVE  passports' = passports
  BY <1>3 DEF Decide, DecideLoad, DecideTicket, DecideNoToken
<1>4. ASSUME NEW d \in Decisions, DecideAllow(d)
      PROVE  /\ UNCHANGED <<now, uses>>
             /\ passports' = SignPassport(d, requests[d].payload, None)
  BY <1>4 DEF DecideAllow, Conclude, execVars
<1>5. ASSUME NEW s \in Submitters, Submit(s), ~SubmitApprove(s)
      PROVE  passports' = passports
  BY <1>5 DEF Submit, SubmitVerify, SubmitLoad, SubmitNoPassport
<1>6. ASSUME NEW s \in Submitters, SubmitApprove(s)
      PROVE  LET r == submissions[s] IN
             /\ UNCHANGED <<now, uses>> /\ r # None /\ PolicyUnchanged(s)
             /\ passports' = SignPassport(r.ticket, r.payload, r.approver)
  BY <1>6 DEF SubmitApprove, Answer, execVars
<1>7. ASSUME NEW w \in Workers, Verify(w)
      PROVE  passports' = passports
  BY <1>7 DEF Verify, VerifyDecode, VerifyClock, VerifyStore, axgVars
<1>8. CASE UNCHANGED vars
  BY <1>8 DEF vars
<1>9. QED
  BY <1>1, <1>2, <1>3, <1>4, <1>5, <1>6, <1>7, <1>8 DEF Next

(***************************************************************************)
(* A replaced policy.  The label is read in one step and compared in       *)
(* another, and the policy may change between them, so the guard of        *)
(* SubmitApprove says nothing of the present policy; WindowInv ties the    *)
(* label that was read to those in force since the ticket was verified.    *)
(***************************************************************************)

WindowInv ==
  \A s \in Submitters :
    /\ submissions[s] # None => policy \in inForce[s]
    /\ loaded[s] # None => submissions[s] # None /\ loaded[s] \in inForce[s]

LEMMA WindowFrame ==
  ASSUME WindowInv, UNCHANGED <<policy, submissions, loaded, inForce>>
  PROVE  WindowInv'
BY DEF WindowInv

LEMMA WindowSubmit ==
  ASSUME TypeOK, WindowInv, NEW s \in Submitters, Submit(s)
  PROVE  WindowInv'
<1>1. ASSUME NEW r \in Submission, SubmitVerify(s, r)
      PROVE  WindowInv'
  BY <1>1 DEF SubmitVerify, WindowInv, TypeOK
<1>2. CASE SubmitLoad(s)
  BY <1>2 DEF SubmitLoad, WindowInv, TypeOK
<1>3. ASSUME Answer(s)
      PROVE  WindowInv'
  BY <1>3 DEF Answer, WindowInv, TypeOK
<1>4. QED
  BY <1>1, <1>2, <1>3 DEF Submit, SubmitApprove, SubmitNoPassport

LEMMA WindowInvariant == Spec => []WindowInv
<1>1. Init => WindowInv
  BY DEF Init, WindowInv
<1>2. TypeOK /\ WindowInv /\ [Next]_vars => WindowInv'
  <2> SUFFICES ASSUME TypeOK, WindowInv, [Next]_vars
               PROVE  WindowInv'
    OBVIOUS
  <2>1. ASSUME NEW l \in OrNone(Policies), ChangePolicy(l)
        PROVE  WindowInv'
    BY <2>1 DEF ChangePolicy, WindowInv, TypeOK
  <2>2. CASE UNCHANGED axgVars
    BY <2>2, WindowFrame DEF axgVars, submitVars
  <2>3. ASSUME NEW d \in Decisions, Decide(d)
        PROVE  WindowInv'
    BY <2>3, WindowFrame
    DEF Decide, DecideLoad, DecideAllow, DecideTicket, DecideNoToken, Conclude,
        submitVars
  <2>4. ASSUME NEW w \in Workers, Verify(w)
        PROVE  UNCHANGED axgVars
    BY <2>4 DEF Verify, VerifyDecode, VerifyClock, VerifyStore
  <2>5. QED
    BY <2>1, <2>2, <2>3, <2>4, WindowSubmit DEF Next, Tick, vars, axgVars
<1>3. QED
  BY <1>1, <1>2, TypeCorrect, PTL DEF Spec

\* A ticket turns into a Passport only if its policy was in force at some
\* moment since that submission was verified, whatever changes while load()
\* is awaited.
THEOREM PolicyStopsTicket == Spec => ReplacedPolicyStopsTicket
<1> DEFINE A == \A p \in passports' \ passports :
                  p.approver # None =>
                    \E s \in Submitters :
                      /\ submissions[s] # None
                      /\ submissions[s].ticket = p.jti
                      /\ tickets[p.jti].policy \in inForce[s]
<1>1. WindowInv /\ [Next]_vars => A
  <2> SUFFICES ASSUME WindowInv, [Next]_vars,
                      NEW p \in passports' \ passports, p.approver # None
               PROVE  \E s \in Submitters :
                        /\ submissions[s] # None
                        /\ submissions[s].ticket = p.jti
                        /\ tickets[p.jti].policy \in inForce[s]
    OBVIOUS
  <2>1. PICK s \in Submitters :
          /\ submissions[s] # None /\ PolicyUnchanged(s)
          /\ passports' = SignPassport(submissions[s].ticket, submissions[s].payload,
                                       submissions[s].approver)
    BY NewPassport DEF SignPassport
  <2>2. p.jti = submissions[s].ticket
    BY <2>1 DEF SignPassport
  <2>3. tickets[p.jti].policy \in inForce[s]
    BY <2>1, <2>2 DEF PolicyUnchanged, WindowInv
  <2>4. QED
    BY <2>1, <2>2, <2>3
<1>2. QED
  BY <1>1, WindowInvariant, PTL DEF Spec, ReplacedPolicyStopsTicket

\* The clock and the expiries stay within the bounds of the behaviour.
Bounded ==
  /\ now <= MaxTime
  /\ \A p \in passports : p.exp <= MaxTime + PassportTTL

LEMMA BoundedInvariant == Spec => []Bounded
<1>1. Init => Bounded
  BY TimeAssumption DEF Init, Bounded
<1>2. TypeOK /\ Bounded /\ [Next]_vars => Bounded'
  <2> SUFFICES ASSUME TypeOK, Bounded, [Next]_vars
               PROVE  Bounded'
    OBVIOUS
  <2>1. now \in Nat /\ PassportTTL \in Nat /\ MaxTime \in Nat
    BY TimeAssumption DEF TypeOK
  <2>2. now' = now \/ (now < MaxTime /\ now' = now + 1)
    BY DEF Next, Tick, ChangePolicy, Decide, DecideLoad, DecideAllow, DecideTicket,
           DecideNoToken, Conclude, Submit, SubmitVerify, SubmitLoad, SubmitApprove,
           SubmitNoPassport, Answer, Verify, VerifyDecode, VerifyClock, VerifyStore,
           vars
  <2>3. \A p \in passports' : p \in passports \/ p.exp = now + PassportTTL
    BY NewPassport DEF SignPassport
  <2>4. QED
    BY <2>1, <2>2, <2>3 DEF Bounded
<1>3. QED
  BY <1>1, <1>2, TypeCorrect, PTL DEF Spec

Granted == {<<p.jti, p.payload>> : p \in passports}

\* A decision grants one payload.
LEMMA GrantStep ==
  ASSUME AuthInv, AuthInv', TypeOK, NEW d \in Decisions, NEW payload \in Payloads,
         NEW approver, passports' = SignPassport(d, payload, approver),
         UNCHANGED <<now, uses>>
  PROVE  Guard!Grant(d, payload)
<1> DEFINE new == [jti |-> d, payload |-> payload, iat |-> now,
                   exp |-> now + PassportTTL, approver |-> approver]
<1>1. passports' = passports \cup {new} /\ new.jti = d /\ new.payload = payload
  BY DEF SignPassport
<1> HIDE DEF new
<1>2. payload = requests'[d].payload
  BY <1>1 DEF AuthInv, PassportsAuthorised, Authorised
<1>3. \A p \in passports : p.jti = d => p.payload = payload
  BY <1>1, <1>2 DEF AuthInv, PassportsAuthorised, Authorised
<1>4. \A g \in Granted : g[1] = d => g[2] = payload
  BY <1>3 DEF Granted
<1>5. Granted' = Granted \cup {<<d, payload>>}
  BY <1>1 DEF Granted
<1>6. QED
  BY <1>4, <1>5 DEF Guard!Grant, Granted

LEMMA ExecuteStep ==
  ASSUME AuthInv, TypeOK, Bounded, SingleUseInWindow', NEW w \in Workers,
         VerifyStore(w), uses' # uses
  PROVE  \E u \in Guard!NewUse : Guard!Execute(u)
<1> DEFINE u == UseOf(CacheOf[w], checks[w])
           n == Len(uses) + 1
<1>1. uses' = Append(uses, u) /\ UNCHANGED <<now, passports>>
  BY DEF VerifyStore, axgVars
<1>2. /\ checks[w] \in Check /\ CacheOf[w] \in Caches
      /\ checks[w].passport \in passports /\ checks[w].passport \in Passport
      /\ checks[w].payload = checks[w].passport.payload
  BY SetAssumption DEF VerifyStore, AuthInv, ChecksGenuine, TypeOK, OrNone
<1>3. u \in Use /\ uses \in Seq(Use) /\ u.at = now
  BY <1>2 DEF TypeOK, UseOf, Use, Check, Passport
<1>4. /\ u.cache \in Caches /\ u.jti \in Decisions /\ u.payload \in Payloads
      /\ u.exp \in Nat /\ u.exp <= MaxTime + PassportTTL
  BY <1>2 DEF UseOf, Passport, Bounded
<1>5. u \in Guard!NewUse
  BY <1>2, <1>4, TimeAssumption DEF UseOf, Guard!NewUse
<1>6. <<u.jti, u.payload>> \in Granted
  BY <1>2 DEF Granted, UseOf
<1>7. /\ n \in DOMAIN uses' /\ uses'[n] = u
      /\ \A i \in DOMAIN uses : i \in DOMAIN uses' /\ i < n /\ uses'[i] = uses[i]
  BY <1>1, <1>3
<1>8. \A i \in DOMAIN uses :
        (uses[i].cache = u.cache /\ uses[i].jti = u.jti) => uses[i].exp <= now
  BY <1>3, <1>7 DEF SingleUseInWindow, SameAuthority
<1> HIDE DEF u
<1>9. Guard!Execute(u)
  BY <1>1, <1>6, <1>8 DEF Guard!Execute, Granted
<1>10. QED
  BY <1>5, <1>9

\* The lifecycle implements the abstract promise AuthorisedUse: a decision
\* grants one payload, an executor acts only on what was granted, and a cache
\* lets a decision be executed again only after the earlier Passports expired.
THEOREM Refinement == Spec => ImplementsAuthorisedUse
<1>1. Init => Guard!Init
  BY DEF Init, Guard!Init
<1>2. /\ TypeOK /\ AuthInv /\ AuthInv' /\ Bounded /\ SingleUseInWindow'
      /\ [Next]_vars
      => [Guard!Next]_Guard!vars
  <2> SUFFICES ASSUME TypeOK, AuthInv, AuthInv', Bounded, SingleUseInWindow',
                      [Next]_vars
               PROVE  [Guard!Next]_Guard!vars
    OBVIOUS
  <2>1. CASE passports' # passports
    <3>1. ASSUME NEW d \in Decisions, DecideAllow(d), UNCHANGED <<now, uses>>,
                 passports' = SignPassport(d, requests[d].payload, None)
          PROVE  Guard!Next
      <4>1. requests[d].payload \in Payloads
        BY <3>1 DEF DecideAllow, Pending, TypeOK, OrNone, Request
      <4>2. QED
        BY <3>1, <4>1, GrantStep DEF Guard!Next
    <3>2. ASSUME NEW s \in Submitters, submissions[s] # None, UNCHANGED <<now, uses>>,
                 passports' = SignPassport(submissions[s].ticket,
                                submissions[s].payload, submissions[s].approver)
          PROVE  Guard!Next
      <4>1. submissions[s].ticket \in Decisions /\ submissions[s].payload \in Payloads
        BY <3>2 DEF TypeOK, OrNone, Submission
      <4>2. QED
        BY <3>2, <4>1, GrantStep DEF Guard!Next
    <3>3. QED
      BY <2>1, <3>1, <3>2, NewPassport
  <2>2. CASE passports' = passports
    <3>1. Granted' = Granted
      BY <2>2 DEF Granted
    <3>2. CASE Tick
      BY <3>1, <3>2 DEF Tick, execVars, Guard!Next, Guard!Advance, Granted
    <3>3. ASSUME NEW w \in Workers, VerifyStore(w), uses' # uses
          PROVE  Guard!Next
      BY <3>3, ExecuteStep DEF Guard!Next
    <3>4. CASE UNCHANGED <<now, uses>>
      BY <3>1, <3>4 DEF Guard!vars, Granted
    <3>5. \/ Tick \/ UNCHANGED <<now, uses>>
          \/ \E w \in Workers : VerifyStore(w) /\ uses' # uses
      BY DEF Next, ChangePolicy, Decide, DecideLoad, DecideAllow, DecideTicket,
             DecideNoToken, Conclude, Submit, SubmitVerify, SubmitLoad, SubmitApprove,
             SubmitNoPassport, Answer, Verify, VerifyDecode, VerifyClock,
             VerifyStore, vars, execVars
    <3>6. QED
      BY <3>2, <3>3, <3>4, <3>5
  <2>3. QED
    BY <2>1, <2>2
<1>3. QED
  BY <1>1, <1>2, TypeCorrect, AuthInvariant, BoundedInvariant, SingleUse, PTL
  DEF Spec, ImplementsAuthorisedUse, Guard!Spec

=============================================================================
