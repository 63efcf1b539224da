---------------------------- MODULE HttpApi_proofs ----------------------------
(***************************************************************************)
(* Theorems about HttpApi, for any connections, requests, environments,    *)
(* limits, windows and clocks.                                             *)
(***************************************************************************)
EXTENDS HttpApi, Recursion_proofs, FiniteSetTheorems

(***************************************************************************)
(* Connections and callers.                                                *)
(***************************************************************************)

Fields == {"pc", "request", "chunks", "size", "caller", "reply", "retry", "clock"}

\* A connection that has a request.
ConnOK(x) ==
  /\ DOMAIN x = Fields
  /\ x.pc \in {"reading", "read", "called", "admitted", "answered"}
  /\ x.request \in Requests
  /\ x.chunks \in 0 .. Len(x.request.chunks)
  /\ x.pc = "reading" => x.chunks < Len(x.request.chunks)
  /\ x.pc # "answered" => x.reply = NoValue

\* Its caller was found by resolve_caller, and has passed the handler's checks
\* if something was done for it.
CallerOK(x) ==
  /\ x.pc \in {"called", "admitted"} =>
       /\ x.request.route # "reload"
       /\ x.caller = ResolveCaller(x.request.auth) /\ x.caller # NoValue
  /\ x.pc = "admitted" =>
       /\ x.request.route \in {"decide", "approve"}
       /\ Objection(x.caller, x.request) = NoValue
  /\ x.reply \in {"ok", "claims", "inactive"} =>
       IF x.request.route = "reload"
       THEN x.request.auth = config.admin /\ config.admin # NoValue
       ELSE /\ x.caller = ResolveCaller(x.request.auth) /\ x.caller # NoValue
            /\ Objection(x.caller, x.request) = NoValue
            /\ x.reply = "ok" => x.request.route \in {"decide", "approve"}
            /\ x.reply # "ok" => x.request.route = "introspect"
            /\ x.reply = "claims" => MayActFor(x.caller, x.request.app)
            /\ x.reply = "ok" /\ x.request.route = "approve" =>
                 MayApprove(x.caller, x.request.app)

AccessInv ==
  /\ config \in Configs
  /\ DOMAIN conn = Conns
  /\ \A c \in Conns : conn[c] = Idle \/ (ConnOK(conn[c]) /\ CallerOK(conn[c]))

LEMMA BodyLength ==
  ASSUME NEW r \in Requests
  PROVE  Len(r.chunks) \in Nat /\ 0 < Len(r.chunks)
<1>1. r.chunks \in Seq(Nat) /\ r.chunks # <<>>
  BY ApiAssumption
<1>2. \A s \in Seq(Nat) : s # <<>> => Len(s) \in Nat /\ 0 < Len(s)
  OBVIOUS
<1>3. QED
  BY <1>1, <1>2

\* A connection that is past the first step has a request.
LEMMA ActiveConn ==
  ASSUME AccessInv, NEW c \in Conns, conn[c].pc # "idle"
  PROVE  conn[c] # Idle /\ ConnOK(conn[c]) /\ CallerOK(conn[c])
BY DEF AccessInv, Idle

\* Updates of the fields of a connection.
LEMMA FieldsUpdated ==
  ASSUME NEW x, DOMAIN x = Fields, NEW v, NEW f \in Fields
  PROVE  LET y == [x EXCEPT ![f] = v] IN
         /\ DOMAIN y = Fields /\ y[f] = v
         /\ \A g \in Fields \ {f} : y[g] = x[g]
OBVIOUS

LEMMA Replied ==
  ASSUME NEW x, DOMAIN x = Fields, NEW what
  PROVE  LET y == [x EXCEPT !.pc = "answered", !.reply = what] IN
         /\ DOMAIN y = Fields /\ y.pc = "answered" /\ y.reply = what
         /\ y.request = x.request /\ y.chunks = x.chunks /\ y.size = x.size
         /\ y.caller = x.caller /\ y.retry = x.retry /\ y.clock = x.clock
BY DEF Fields

\* One connection moves, the environment stays: the invariant is about it.
LEMMA ConnStep ==
  ASSUME AccessInv, NEW c \in Conns, NEW state, Step(c, state), UNCHANGED config,
         ConnOK(state), CallerOK(state)
  PROVE  AccessInv'
<1>1. conn'[c] = state /\ DOMAIN conn' = Conns
      /\ \A d \in Conns \ {c} : conn'[d] = conn[d]
  BY DEF AccessInv, Step
<1>2. ASSUME NEW d \in Conns, conn'[d] = state \/ (ConnOK(conn'[d]) /\ CallerOK(conn'[d]))
      PROVE  ConnOK(conn[d])' /\ CallerOK(conn[d])'
  BY <1>2 DEF ConnOK, CallerOK, ResolveCaller
<1>3. ASSUME NEW d \in Conns
      PROVE  (conn[d] = Idle)' \/ (ConnOK(conn[d])' /\ CallerOK(conn[d])')
  <2>1. CASE d = c
    BY <1>1, <1>2, <2>1
  <2>2. CASE d # c
    BY <1>1, <1>2, <2>2 DEF AccessInv
  <2>3. QED
    BY <2>1, <2>2
<1>4. QED
  BY <1>1, <1>3 DEF AccessInv

Granted == {"ok", "claims", "inactive"}

\* A request is turned away.
LEMMA RefuseStep ==
  ASSUME AccessInv, NEW c \in Conns, conn[c].pc # "idle",
         NEW what \in Replies \ Granted, Reply(c, what), UNCHANGED config
  PROVE  AccessInv'
<1> DEFINE y == [conn[c] EXCEPT !.pc = "answered", !.reply = what]
<1>1. ConnOK(conn[c])
  BY ActiveConn
<1>2. /\ DOMAIN y = Fields /\ y.pc = "answered" /\ y.reply = what
      /\ y.request = conn[c].request /\ y.chunks = conn[c].chunks
  BY <1>1, Replied DEF ConnOK
<1>3. Step(c, y)
  BY DEF Reply
<1> HIDE DEF y
<1>4. ConnOK(y) /\ CallerOK(y)
  BY <1>1, <1>2 DEF ConnOK, CallerOK, Granted
<1>5. QED
  BY <1>3, <1>4, ConnStep

LEMMA ConnectAccess ==
  ASSUME AccessInv, NEW c \in Conns, NEW r \in Requests, Connect(c, r)
  PROVE  AccessInv'
<1> DEFINE new == [pc |-> "reading", request |-> r, chunks |-> 0, size |-> 0,
                   caller |-> NoValue, reply |-> NoValue, retry |-> 0, clock |-> 0]
           refused == [new EXCEPT !.pc = "answered", !.reply = "too_large"]
<1>1. Len(r.chunks) \in Nat /\ 0 < Len(r.chunks)
  BY BodyLength
<1>2. DOMAIN new = Fields
  BY DEF Fields
<1>3. ConnOK(new) /\ CallerOK(new)
  BY <1>1, <1>2, NoValueAssumption DEF ConnOK, CallerOK, Replies
<1>4. /\ DOMAIN refused = Fields /\ refused.pc = "answered"
      /\ refused.reply = "too_large" /\ refused.request = r /\ refused.chunks = 0
  BY <1>2, Replied
<1>5. Step(c, new) \/ Step(c, refused)
  BY DEF Connect
<1> HIDE DEF new, refused
<1>6. ConnOK(refused) /\ CallerOK(refused)
  BY <1>1, <1>4 DEF ConnOK, CallerOK
<1>7. UNCHANGED config
  BY DEF Connect, Outside
<1>8. QED
  BY <1>3, <1>5, <1>6, <1>7, ConnStep

LEMMA ReceiveAccess ==
  ASSUME AccessInv, NEW c \in Conns, Receive(c)
  PROVE  AccessInv'
<1> DEFINE request == conn[c].request
           n == conn[c].chunks + 1
           size == conn[c].size + request.chunks[n]
           got == [conn[c] EXCEPT !.chunks = n, !.size = size]
           refused == [got EXCEPT !.pc = "answered", !.reply = "too_large"]
           whole == [got EXCEPT !.pc = "read"]
<1>1. conn[c].pc = "reading" /\ UNCHANGED config
      /\ Step(c, IF TooLong(size) THEN refused
                 ELSE IF n = Len(request.chunks) THEN whole ELSE got)
  BY DEF Receive, Outside
<1>2. ConnOK(conn[c]) /\ CallerOK(conn[c])
  BY <1>1, ActiveConn
<1>3. /\ DOMAIN got = Fields /\ got.request = request /\ got.chunks = n
      /\ got.pc = "reading" /\ got.reply = NoValue
  BY <1>1, <1>2 DEF ConnOK, Fields
<1>4. n \in 0 .. Len(request.chunks) /\ Len(request.chunks) \in Nat
  <2>1. conn[c].pc = "reading"
    BY <1>1
  <2>2. request \in Requests /\ conn[c].chunks \in 0 .. Len(request.chunks)
        /\ conn[c].chunks < Len(request.chunks)
    BY <1>2, <2>1 DEF ConnOK
  <2>3. Len(request.chunks) \in Nat
    BY <2>2, BodyLength
  <2>4. \A len, k \in Nat : k < len => k + 1 \in 0 .. len
    OBVIOUS
  <2>5. conn[c].chunks \in Nat
    BY <2>2, <2>3
  <2> HIDE DEF request
  <2>6. QED
    BY <2>2, <2>3, <2>4, <2>5
<1> HIDE DEF got, n, size
<1>5. /\ DOMAIN refused = Fields /\ refused.pc = "answered"
      /\ refused.reply = "too_large" /\ refused.request = request /\ refused.chunks = n
  BY <1>3, Replied
<1>6. /\ DOMAIN whole = Fields /\ whole.pc = "read" /\ whole.request = request
      /\ whole.chunks = n /\ whole.reply = NoValue
  BY <1>3 DEF Fields
<1>7. request \in Requests
  BY <1>2 DEF ConnOK
<1> HIDE DEF refused, whole, request
<1>8. ConnOK(refused) /\ CallerOK(refused)
  BY <1>4, <1>5, <1>7 DEF ConnOK, CallerOK
<1>9. ConnOK(whole) /\ CallerOK(whole)
  BY <1>4, <1>6, <1>7, NoValueAssumption DEF ConnOK, CallerOK, Replies
<1>10. n # Len(request.chunks) => ConnOK(got) /\ CallerOK(got)
  BY <1>3, <1>4, <1>7, NoValueAssumption DEF ConnOK, CallerOK, Replies
<1>11. QED
  BY <1>1, <1>8, <1>9, <1>10, ConnStep

LEMMA DisconnectAccess ==
  ASSUME AccessInv, NEW c \in Conns, Disconnect(c)
  PROVE  AccessInv'
<1> DEFINE y == [conn[c] EXCEPT !.pc = "read"]
<1>1. conn[c].pc = "reading" /\ Step(c, y) /\ UNCHANGED config
  BY DEF Disconnect, Outside
<1>2. ConnOK(conn[c])
  BY <1>1, ActiveConn
<1>3. /\ DOMAIN y = Fields /\ y.pc = "read" /\ y.request = conn[c].request
      /\ y.chunks = conn[c].chunks /\ y.reply = NoValue
  BY <1>1, <1>2 DEF ConnOK, Fields
<1> HIDE DEF y
<1>4. ConnOK(y) /\ CallerOK(y)
  BY <1>2, <1>3, NoValueAssumption DEF ConnOK, CallerOK, Replies
<1>5. QED
  BY <1>1, <1>4, ConnStep

LEMMA ResolveAccess ==
  ASSUME AccessInv, NEW c \in Conns, Resolve(c)
  PROVE  AccessInv'
<1> DEFINE caller == ResolveCaller(conn[c].request.auth)
           known == [conn[c] EXCEPT !.pc = "called", !.caller = caller]
<1>1. conn[c].pc = "read" /\ conn[c].request.route # "reload" /\ UNCHANGED config
  BY DEF Resolve, ReadsBody, Outside
<1>2. ConnOK(conn[c]) /\ CallerOK(conn[c])
  BY <1>1, ActiveConn
<1>3. CASE caller = NoValue
  <2>1. Reply(c, "unauthorized")
    BY <1>3 DEF Resolve
  <2>2. QED
    BY <1>1, <2>1, RefuseStep DEF Replies, Granted
<1>4. CASE caller # NoValue
  <2>1. Step(c, known)
    BY <1>4 DEF Resolve
  <2>2. /\ DOMAIN known = Fields /\ known.pc = "called" /\ known.caller = caller
        /\ known.request = conn[c].request /\ known.chunks = conn[c].chunks
        /\ known.reply = conn[c].reply
    BY <1>2 DEF ConnOK, Fields
  <2> HIDE DEF known
  <2>3. ConnOK(known) /\ CallerOK(known)
    BY <1>1, <1>2, <1>4, <2>2, NoValueAssumption DEF ConnOK, CallerOK, Replies
  <2>4. QED
    BY <1>1, <2>1, <2>3, ConnStep
<1>5. QED
  BY <1>3, <1>4

LEMMA ObjectionType ==
  ASSUME NEW caller, NEW request
  PROVE  /\ Objection(caller, request) \in {"forbidden", "unauthorized", NoValue}
         /\ Objection(caller, request) = NoValue =>
              /\ request.route = "decide" => MayActFor(caller, request.app)
              /\ request.route = "introspect" => caller.authenticated
<1>1. NoValue # "forbidden" /\ NoValue # "unauthorized"
  BY NoValueAssumption DEF Replies
<1>2. QED
  BY <1>1 DEF Objection

LEMMA LimitAccess ==
  ASSUME AccessInv, NEW c \in Conns, Limit(c)
  PROVE  AccessInv'
<1> DEFINE y == [conn[c] EXCEPT !.pc = "answered", !.reply = "rate_limited",
                                !.retry = RetryAfter, !.clock = Clock]
<1>1. conn[c].pc = "called" /\ UNCHANGED config /\ Step(c, y)
  BY DEF Limit, Checks, Outside
<1>2. ConnOK(conn[c])
  BY <1>1, ActiveConn
<1>3. /\ DOMAIN y = Fields /\ y.pc = "answered" /\ y.reply = "rate_limited"
      /\ y.request = conn[c].request /\ y.chunks = conn[c].chunks
  BY <1>2 DEF ConnOK, Fields
<1> HIDE DEF y
<1>4. ConnOK(y) /\ CallerOK(y)
  BY <1>2, <1>3 DEF ConnOK, CallerOK
<1>5. QED
  BY <1>1, <1>4, ConnStep

LEMMA AdmitAccess ==
  ASSUME AccessInv, NEW c \in Conns, Admit(c)
  PROVE  AccessInv'
<1> DEFINE y == [conn[c] EXCEPT !.pc = "admitted"]
<1>1. /\ conn[c].pc = "called" /\ UNCHANGED config /\ Step(c, y)
      /\ conn[c].request.route \in {"decide", "approve"}
      /\ Objection(conn[c].caller, conn[c].request) = NoValue
  BY DEF Admit, Checks, Outside
<1>2. ConnOK(conn[c]) /\ CallerOK(conn[c])
  BY <1>1, ActiveConn
<1>3. /\ DOMAIN y = Fields /\ y.pc = "admitted" /\ y.caller = conn[c].caller
      /\ y.request = conn[c].request /\ y.chunks = conn[c].chunks
      /\ y.reply = conn[c].reply
  BY <1>2 DEF ConnOK, Fields
<1> HIDE DEF y
<1>4. ConnOK(y) /\ CallerOK(y)
  BY <1>1, <1>2, <1>3, NoValueAssumption DEF ConnOK, CallerOK, Replies
<1>5. QED
  BY <1>1, <1>4, ConnStep

\* A request succeeds.
LEMMA GrantStep ==
  ASSUME AccessInv, NEW c \in Conns, conn[c].pc \in {"called", "admitted"},
         Objection(conn[c].caller, conn[c].request) = NoValue,
         NEW what \in Granted, Reply(c, what), UNCHANGED config,
         what = "ok" => conn[c].request.route \in {"decide", "approve"},
         what # "ok" => conn[c].request.route = "introspect",
         what = "claims" => MayActFor(conn[c].caller, conn[c].request.app),
         what = "ok" /\ conn[c].request.route = "approve" =>
           MayApprove(conn[c].caller, conn[c].request.app)
  PROVE  AccessInv'
<1> DEFINE y == [conn[c] EXCEPT !.pc = "answered", !.reply = what]
<1>1. ConnOK(conn[c]) /\ CallerOK(conn[c])
  BY ActiveConn
<1>2. /\ DOMAIN y = Fields /\ y.pc = "answered" /\ y.reply = what
      /\ y.request = conn[c].request /\ y.chunks = conn[c].chunks
      /\ y.caller = conn[c].caller
  BY <1>1, Replied DEF ConnOK
<1>3. Step(c, y)
  BY DEF Reply
<1> HIDE DEF y
<1>4. ConnOK(y)
  BY <1>1, <1>2 DEF ConnOK
<1>5. CallerOK(y)
  BY <1>1, <1>2 DEF CallerOK
<1>6. QED
  BY <1>3, <1>4, <1>5, ConnStep

LEMMA ReloadAccess ==
  ASSUME AccessInv, NEW c \in Conns, ReloadPlugins(c)
  PROVE  AccessInv'
<1>1. conn[c].pc = "read" /\ conn[c].request.route = "reload" /\ UNCHANGED config
  BY DEF ReloadPlugins, ReadsBody, Outside
<1>2. CASE config.admin = NoValue \/ conn[c].request.auth # config.admin
  <2>1. Reply(c, "unauthorized")
    BY <1>2 DEF ReloadPlugins
  <2>2. QED
    BY <1>1, <2>1, RefuseStep DEF Replies, Granted
<1>3. CASE config.admin # NoValue /\ conn[c].request.auth = config.admin
  <2> DEFINE y == [conn[c] EXCEPT !.pc = "answered", !.reply = "ok"]
  <2>1. ConnOK(conn[c])
    BY <1>1, ActiveConn
  <2>2. /\ DOMAIN y = Fields /\ y.pc = "answered" /\ y.reply = "ok"
        /\ y.request = conn[c].request /\ y.chunks = conn[c].chunks
    BY <2>1, Replied DEF ConnOK
  <2>3. Step(c, y)
    BY <1>3 DEF ReloadPlugins, Reply
  <2> HIDE DEF y
  <2>4. ConnOK(y) /\ CallerOK(y)
    BY <1>1, <1>3, <2>1, <2>2 DEF ConnOK, CallerOK
  <2>5. QED
    BY <1>1, <2>3, <2>4, ConnStep
<1>4. QED
  BY <1>2, <1>3

LEMMA AccessStep ==
  ASSUME AccessInv, [Next]_vars
  PROVE  AccessInv'
<1>1. ASSUME NEW c \in Conns, BodyFails(c)
      PROVE  AccessInv'
  <2>1. conn[c].pc = "read" /\ Reply(c, "bad_request") /\ UNCHANGED config
    BY <1>1 DEF BodyFails, Outside
  <2>2. QED
    BY <2>1, RefuseStep DEF Replies, Granted
<1>2. ASSUME NEW c \in Conns, Object(c)
      PROVE  AccessInv'
  <2> DEFINE what == Objection(conn[c].caller, conn[c].request)
  <2>1. conn[c].pc = "called" /\ what # NoValue /\ Reply(c, what) /\ UNCHANGED config
    BY <1>2 DEF Object, Outside
  <2>2. what \in Replies \ Granted
    BY <2>1, ObjectionType DEF Replies, Granted
  <2> HIDE DEF what
  <2>3. QED
    BY <2>1, <2>2, RefuseStep
<1>3. ASSUME NEW c \in Conns, Answer(c)
      PROVE  AccessInv'
  <2>1. conn[c].pc = "admitted" /\ UNCHANGED config
    BY <1>3 DEF Answer, Outside
  <2>2. /\ Objection(conn[c].caller, conn[c].request) = NoValue
        /\ conn[c].request.route \in {"decide", "approve"}
    BY <2>1, ActiveConn DEF CallerOK
  <2>3. CASE /\ Reply(c, "ok")
             /\ \/ conn[c].request.route = "decide"
                \/ MayApprove(conn[c].caller, conn[c].request.app)
    BY <2>1, <2>2, <2>3, GrantStep DEF Granted
  <2>4. CASE Reply(c, "bad_request")
    BY <2>1, <2>4, RefuseStep DEF Replies, Granted
  <2>5. QED
    BY <1>3, <2>3, <2>4 DEF Answer
<1>4. ASSUME NEW c \in Conns, Introspect(c)
      PROVE  AccessInv'
  <2>1. /\ conn[c].pc = "called" /\ UNCHANGED config
        /\ Objection(conn[c].caller, conn[c].request) = NoValue
        /\ conn[c].request.route = "introspect"
    BY <1>4 DEF Introspect, Checks, Outside
  <2>2. CASE MayActFor(conn[c].caller, conn[c].request.app) /\ Reply(c, "claims")
    BY <2>1, <2>2, GrantStep DEF Granted
  <2>3. CASE Reply(c, "inactive")
    BY <2>1, <2>3, GrantStep DEF Granted
  <2>4. QED
    BY <1>4, <2>2, <2>3 DEF Introspect
<1>5. ASSUME UNCHANGED <<config, conn>>
      PROVE  AccessInv'
  BY <1>5 DEF AccessInv, ConnOK, CallerOK, ResolveCaller
<1>6. CASE Restart
  BY <1>6 DEF Restart, AccessInv
<1>7. ASSUME NEW t \in DOMAIN tasks, Audit(t)
      PROVE  UNCHANGED <<config, conn>>
  BY <1>7 DEF Audit, RecordInFile, Quiet, Trickle, Delivered, Refused, TimedOut,
              Failed, Outside
<1>8. Tick \/ SetClock \/ UNCHANGED vars => UNCHANGED <<config, conn>>
  BY DEF Tick, SetClock, vars
<1>9. QED
  BY <1>1, <1>2, <1>3, <1>4, <1>5, <1>6, <1>7, <1>8, ConnectAccess, ReceiveAccess,
     DisconnectAccess, ResolveAccess, LimitAccess, AdmitAccess, ReloadAccess DEF Next, Serve

LEMMA AccessInvariant == Spec => []AccessInv
<1>1. Init => AccessInv
  BY DEF Init, AccessInv
<1>2. QED
  BY <1>1, AccessStep, PTL DEF Spec

\* resolve_caller compares every entry: the last one that matches is the caller.
LEMMA LastMatch ==
  ASSUME NEW e \in Configs, NEW key, Authenticate(e.clients, key) # NoValue
  PROVE  \E i \in DOMAIN e.clients :
           /\ e.clients[i].key = key
           /\ \A j \in DOMAIN e.clients : e.clients[j].key = key => j <= i
           /\ Authenticate(e.clients, key).id = e.clients[i].id
           /\ Authenticate(e.clients, key).apps = e.clients[i].apps
           /\ Authenticate(e.clients, key).approves = e.clients[i].approves
<1> DEFINE match == {i \in DOMAIN e.clients : e.clients[i].key = key}
           top == CHOOSE i \in match : \A j \in match : j <= i
           n == Len(e.clients)
           rest == {n - i : i \in match}
           Less == {ss \in Nat \X Nat : ss[1] < ss[2]}
<1>1. match # {} /\ Authenticate(e.clients, key) =
        [id |-> e.clients[top].id, authenticated |-> TRUE, apps |-> e.clients[top].apps,
         approves |-> e.clients[top].approves]
  BY DEF Authenticate
<1>2. n \in Nat /\ match \subseteq 1..n
  BY ApiAssumption
<1> HIDE DEF match, n
<1>3. rest \subseteq Nat /\ rest # {}
  <2>1. \A i \in match : n - i \in Nat
    BY <1>2
  <2>2. PICK i \in match : TRUE
    BY <1>1
  <2>3. n - i \in rest
    OBVIOUS
  <2>4. QED
    BY <2>1, <2>3
<1>4. IsWellFoundedOn(Less, Nat)
  BY NatLessThanWellFounded DEF OpToRel
<1>5. \A x, y \in rest : y < x => <<y, x>> \in Less
  BY <1>3
<1> HIDE DEF Less
<1>6. PICK x \in rest : \A y \in rest : ~ (<<y, x>> \in Less)
  BY <1>3, <1>4, WFMin
<1>7. \A y \in rest : ~ (y < x)
  BY <1>5, <1>6, Zenon
<1>8. PICK i \in match : x = n - i
  BY <1>6
<1>9. \A j \in match : j <= i
  <2>1. SUFFICES ASSUME NEW j \in match PROVE j <= i
    OBVIOUS
  <2>2. ~ (n - j < n - i)
    BY <1>7, <1>8
  <2>3. QED
    BY <1>2, <2>2
<1>10. top \in match /\ \A j \in match : j <= top
  BY <1>9
<1> HIDE DEF top
<1>11. QED
  BY <1>1, <1>10 DEF match

\* What succeeds was asked for by whom the configuration allows it
\* (resolve_caller and the routes of api.py).
THEOREM GrantedAccess == Spec => []AccessIsGranted
<1>1. ASSUME AccessInv, NEW c \in Conns, conn[c] # Idle,
             conn[c].reply \in {"ok", "claims", "inactive"},
             conn[c].request.route # "reload"
      PROVE  /\ conn[c].caller = ResolveCaller(conn[c].request.auth)
             /\ conn[c].caller # NoValue
             /\ Objection(conn[c].caller, conn[c].request) = NoValue
             /\ conn[c].reply = "ok" => conn[c].request.route \in {"decide", "approve"}
             /\ conn[c].reply # "ok" => conn[c].request.route = "introspect"
             /\ conn[c].reply = "claims" =>
                  MayActFor(conn[c].caller, conn[c].request.app)
             /\ conn[c].request.route = "approve" =>
                  MayApprove(conn[c].caller, conn[c].request.app)
  BY <1>1 DEF AccessInv, CallerOK
<1>2. ASSUME AccessInv, NEW c \in Conns, conn[c] # Idle,
             conn[c].reply \in {"ok", "claims", "inactive"},
             conn[c].request.route # "reload", conn[c].request.auth = NoValue
      PROVE  config.optional /\ conn[c].request.route = "decide"
  <2>1. config.optional /\ conn[c].caller = Anonymous
    BY <1>1, <1>2 DEF ResolveCaller
  <2>2. QED
    BY <1>1, <1>2, <2>1, ObjectionType DEF Anonymous, MayApprove
<1>3. ASSUME AccessInv, NEW c \in Conns, conn[c] # Idle,
             conn[c].reply \in {"ok", "claims", "inactive"},
             conn[c].request.route # "reload", conn[c].request.auth # NoValue
      PROVE  \E i \in DOMAIN config.clients :
               /\ config.clients[i].key = conn[c].request.auth
               /\ \A j \in DOMAIN config.clients :
                    config.clients[j].key = conn[c].request.auth => j <= i
               /\ conn[c].caller.id = config.clients[i].id
               /\ \/ {conn[c].request.app, "*"} \cap config.clients[i].apps # {}
                  \/ conn[c].reply = "inactive"
               /\ conn[c].request.route = "approve" => config.clients[i].approves
  <2>1. /\ conn[c].caller = Authenticate(config.clients, conn[c].request.auth)
        /\ conn[c].caller # NoValue /\ config \in Configs
    BY <1>1, <1>3 DEF ResolveCaller, AccessInv
  <2> DEFINE key == conn[c].request.auth
  <2> HIDE DEF key
  <2>2. Authenticate(config.clients, key) # NoValue
    BY <2>1 DEF key
  <2>3. PICK i \in DOMAIN config.clients :
           /\ config.clients[i].key = key
           /\ \A j \in DOMAIN config.clients : config.clients[j].key = key => j <= i
           /\ Authenticate(config.clients, key).id = config.clients[i].id
           /\ Authenticate(config.clients, key).apps = config.clients[i].apps
           /\ Authenticate(config.clients, key).approves = config.clients[i].approves
    BY <2>1, <2>2, LastMatch
  <2>4. /\ \/ MayActFor(conn[c].caller, conn[c].request.app)
           \/ conn[c].reply = "inactive"
        /\ conn[c].request.route = "approve" => conn[c].caller.approves
    BY <1>1, <1>3, ObjectionType DEF MayApprove
  <2>5. conn[c].caller.id = config.clients[i].id
        /\ conn[c].caller.apps = config.clients[i].apps
        /\ conn[c].caller.approves = config.clients[i].approves
    BY <2>1, <2>3 DEF key
  <2>6. QED
    BY <2>3, <2>4, <2>5 DEF MayActFor, key
<1>4. ASSUME AccessInv, NEW c \in Conns, conn[c] # Idle,
             conn[c].reply \in {"ok", "claims", "inactive"},
             conn[c].request.route = "reload"
      PROVE  conn[c].request.auth = config.admin /\ config.admin # NoValue
  BY <1>4 DEF AccessInv, CallerOK
<1>5. AccessInv => AccessIsGranted
  BY <1>2, <1>3, <1>4 DEF AccessIsGranted
<1>6. QED
  BY <1>5, AccessInvariant, PTL

(***************************************************************************)
(* Bodies.                                                                 *)
(***************************************************************************)

\* A handler read the body of this connection.
Read(x) ==
  \/ x.pc \in {"called", "admitted"}
  \/ x.reply \in Replies \ {"bad_request", "too_large"} /\ x.request.route # "reload"

\* What was read is the sum of the chunks so far.
BodyOK(x) ==
  /\ x.size = PartialSums(x.request.chunks)[x.chunks]
  /\ x.reply # "too_large" => x.size <= BodyLimit
  /\ Read(x) => x.chunks = Len(x.request.chunks) /\ x.reply # "too_large"
  /\ x.reply = "too_large" => Total(x.request.chunks) > BodyLimit

BodyInv == \A c \in Conns : conn[c] = Idle \/ BodyOK(conn[c])

\* What a step does to a connection: its body changes only while it arrives,
\* only then is it found to be too large, and a handler reads only whole ones.
LEMMA BodyCases ==
  ASSUME AccessInv, [Next]_vars, NEW c \in Conns
  PROVE  \/ conn'[c] = conn[c] \/ conn'[c] = Idle
         \/ (\E r \in Requests : Connect(c, r)) \/ Receive(c)
         \/ /\ conn[c] # Idle
            /\ conn'[c].request = conn[c].request /\ conn'[c].chunks = conn[c].chunks
            /\ conn'[c].size = conn[c].size /\ conn[c].reply # "too_large"
            /\ conn'[c].reply # "too_large"
            /\ Read(conn'[c]) => Read(conn[c]) \/ Whole(c)
<1> DEFINE kept(d, y) ==
             /\ conn[d] # Idle
             /\ y.request = conn[d].request /\ y.chunks = conn[d].chunks
             /\ y.size = conn[d].size /\ y.reply # "too_large"
             /\ conn[d].reply # "too_large"
             /\ Read(y) => Read(conn[d]) \/ Whole(d)
           good == conn'[c] = conn[c] \/ kept(c, conn'[c])
<1>1. ASSUME NEW d \in Conns, NEW y, Step(d, y), kept(d, y)
      PROVE  good
  BY <1>1 DEF Step, AccessInv
<1>2. ASSUME NEW d \in Conns, NEW what \in Replies \ {"too_large"},
             conn[d].pc \notin {"idle", "answered"}, Reply(d, what),
             \/ conn[d].pc \in {"called", "admitted"} \/ Whole(d)
             \/ what = "bad_request" \/ ~ReadsBody(d)
      PROVE  good
  <2> DEFINE y == [conn[d] EXCEPT !.pc = "answered", !.reply = what]
  <2>1. DOMAIN conn[d] = Fields /\ conn[d] # Idle /\ conn[d].reply # "too_large"
    BY <1>2, ActiveConn, NoValueAssumption DEF ConnOK, Replies
  <2>2. /\ y.pc = "answered" /\ y.reply = what /\ y.request = conn[d].request
        /\ y.chunks = conn[d].chunks /\ y.size = conn[d].size
    BY <2>1, Replied
  <2>3. Step(d, y)
    BY <1>2 DEF Reply
  <2> HIDE DEF y, good
  <2>4. kept(d, y)
    BY <1>2, <2>1, <2>2 DEF Read, ReadsBody
  <2>5. QED
    BY <1>1, <2>3, <2>4
<1>3. NoValue # "too_large" /\ NoValue \notin Replies
  BY NoValueAssumption DEF Replies
<1>4. ASSUME NEW d \in Conns, Resolve(d)
      PROVE  good
  <2> DEFINE caller == ResolveCaller(conn[d].request.auth)
             y == [conn[d] EXCEPT !.pc = "called", !.caller = caller]
  <2>1. conn[d].pc = "read" /\ Whole(d) /\ (Reply(d, "unauthorized") \/ Step(d, y))
    BY <1>4 DEF Resolve
  <2>2. DOMAIN conn[d] = Fields /\ conn[d].reply = NoValue /\ conn[d] # Idle
    BY <2>1, ActiveConn DEF ConnOK
  <2>3. /\ y.reply = NoValue /\ y.request = conn[d].request
        /\ y.chunks = conn[d].chunks /\ y.size = conn[d].size
    BY <2>2 DEF Fields
  <2> HIDE DEF y, good
  <2>4. kept(d, y)
    BY <1>3, <2>1, <2>2, <2>3
  <2>5. Reply(d, "unauthorized") => good
    BY <1>2, <2>1 DEF Replies
  <2>6. QED
    BY <1>1, <2>1, <2>4, <2>5
<1>5. ASSUME NEW d \in Conns, Admit(d)
      PROVE  good
  <2> DEFINE y == [conn[d] EXCEPT !.pc = "admitted"]
  <2>1. conn[d].pc = "called" /\ Step(d, y)
    BY <1>5 DEF Admit, Checks
  <2>2. DOMAIN conn[d] = Fields /\ conn[d].reply = NoValue /\ conn[d] # Idle
    BY <2>1, ActiveConn DEF ConnOK
  <2>3. /\ y.reply = NoValue /\ y.request = conn[d].request
        /\ y.chunks = conn[d].chunks /\ y.size = conn[d].size
    BY <2>2 DEF Fields
  <2> HIDE DEF y, good
  <2>4. kept(d, y)
    BY <1>3, <2>1, <2>2, <2>3 DEF Read
  <2>5. QED
    BY <1>1, <2>1, <2>4
<1>6. ASSUME NEW d \in Conns, Limit(d)
      PROVE  good
  <2> DEFINE y == [conn[d] EXCEPT !.pc = "answered", !.reply = "rate_limited",
                                  !.retry = RetryAfter, !.clock = Clock]
  <2>1. conn[d].pc = "called" /\ Step(d, y)
    BY <1>6 DEF Limit, Checks
  <2>2. DOMAIN conn[d] = Fields /\ conn[d] # Idle /\ conn[d].reply = NoValue
    BY <2>1, ActiveConn DEF ConnOK
  <2>3. /\ y.pc = "answered" /\ y.reply = "rate_limited" /\ y.request = conn[d].request
        /\ y.chunks = conn[d].chunks /\ y.size = conn[d].size
    BY <2>2 DEF Fields
  <2> HIDE DEF y, good
  <2>4. kept(d, y)
    BY <1>3, <2>1, <2>2, <2>3 DEF Read
  <2>5. QED
    BY <1>1, <2>1, <2>4
<1>7. ASSUME NEW d \in Conns, Object(d)
      PROVE  good
  <2> DEFINE what == Objection(conn[d].caller, conn[d].request)
  <2>1. conn[d].pc = "called" /\ what # NoValue /\ Reply(d, what)
    BY <1>7 DEF Object
  <2>2. what \in Replies \ {"too_large"}
    BY <2>1, ObjectionType DEF Replies
  <2> HIDE DEF what, good
  <2>3. QED
    BY <1>2, <2>1, <2>2
<1>8. ASSUME NEW d \in Conns,
             BodyFails(d) \/ Answer(d) \/ Introspect(d) \/ ReloadPlugins(d)
      PROVE  good
  <2>1. /\ conn[d].pc \notin {"idle", "answered"}
        /\ \E what \in Replies \ {"too_large"} :
             /\ Reply(d, what)
             /\ \/ conn[d].pc \in {"called", "admitted"} \/ what = "bad_request"
                \/ ~ReadsBody(d)
    BY <1>8 DEF BodyFails, Answer, Introspect, Checks, ReloadPlugins, Replies
  <2> HIDE DEF good
  <2>2. QED
    BY <1>2, <2>1
<1>9. ASSUME NEW d \in Conns, Disconnect(d)
      PROVE  good
  <2> DEFINE y == [conn[d] EXCEPT !.pc = "read"]
  <2>1. conn[d].pc = "reading" /\ Step(d, y)
    BY <1>9 DEF Disconnect
  <2>2. DOMAIN conn[d] = Fields /\ conn[d].reply = NoValue /\ conn[d] # Idle
    BY <2>1, ActiveConn DEF ConnOK
  <2>3. /\ y.pc = "read" /\ y.reply = NoValue /\ y.request = conn[d].request
        /\ y.chunks = conn[d].chunks /\ y.size = conn[d].size
    BY <2>2 DEF Fields
  <2> HIDE DEF y, good
  <2>4. kept(d, y)
    BY <1>3, <2>1, <2>2, <2>3 DEF Read
  <2>5. QED
    BY <1>1, <2>1, <2>4
<1>10. ASSUME NEW d \in Conns, (\E r \in Requests : Connect(d, r)) \/ Receive(d), d # c
      PROVE  conn'[c] = conn[c]
  <2>1. \E y : Step(d, y)
    BY <1>10 DEF Connect, Receive
  <2>2. QED
    BY <1>10, <2>1 DEF Step, AccessInv
<1>11. ASSUME NEW t \in DOMAIN tasks, Audit(t)
       PROVE  UNCHANGED conn
  BY <1>11 DEF Audit, RecordInFile, Quiet, Trickle, Delivered, Refused, TimedOut, Failed
<1>12. Tick \/ SetClock \/ UNCHANGED vars => UNCHANGED conn
  BY DEF Tick, SetClock, vars
<1>13. Restart => conn'[c] = Idle
  BY DEF Restart
<1>14. good \/ conn'[c] = Idle \/ (\E r \in Requests : Connect(c, r)) \/ Receive(c)
  <2> DEFINE reads(d) == (\E r \in Requests : Connect(d, r)) \/ Receive(d)
  <2>1. UNCHANGED conn => good
    OBVIOUS
  <2>2. \A d \in Conns : reads(d) => good \/ reads(c)
    BY <1>10
  <2> HIDE DEF good
  <2>3. QED
    BY <1>4, <1>5, <1>6, <1>7, <1>8, <1>11, <1>12, <1>13, <1>9, <2>1, <2>2 DEF Next, Serve
<1>15. QED
  BY <1>14

LEMMA ConnectBody ==
  ASSUME AccessInv, NEW c \in Conns, NEW r \in Requests, Connect(c, r)
  PROVE  BodyOK(conn'[c])
<1> DEFINE new == [pc |-> "reading", request |-> r, chunks |-> 0, size |-> 0,
                   caller |-> NoValue, reply |-> NoValue, retry |-> 0, clock |-> 0]
           refused == [new EXCEPT !.pc = "answered", !.reply = "too_large"]
           long == r.declared # NoValue /\ TooLong(r.declared)
<1>1. r.chunks \in Seq(Nat) /\ r.declared \in {NoValue, Total(r.chunks)}
  BY ApiAssumption
<1>2. PartialSums(r.chunks)[0] = 0
  <2>1. \A s \in Seq(Nat) : s \in Seq(Int)
    OBVIOUS
  <2>2. QED
    BY <1>1, <2>1, SumsDefined
<1>3. conn'[c] = IF long THEN refused ELSE new
  BY DEF Connect, Step, AccessInv
<1>4. /\ new.pc = "reading" /\ new.request = r /\ new.chunks = 0 /\ new.size = 0
      /\ new.reply = NoValue /\ DOMAIN new = Fields
  BY DEF Fields
<1> HIDE DEF new
<1>5. /\ refused.pc = "answered" /\ refused.request = r /\ refused.chunks = 0
      /\ refused.size = 0 /\ refused.reply = "too_large"
  BY <1>4 DEF Fields
<1> HIDE DEF refused
<1>6. NoValue # "too_large" /\ NoValue \notin Replies
  BY NoValueAssumption DEF Replies
<1>7. CASE long
  <2>1. Total(r.chunks) > BodyLimit
    BY <1>1, <1>7 DEF TooLong
  <2>2. QED
    BY <1>2, <1>3, <1>5, <1>7, <2>1 DEF BodyOK, Read
<1>8. CASE ~long
  <2>1. BodyLimit \in Nat
    BY ApiAssumption
  <2>2. QED
    BY <1>2, <1>3, <1>4, <1>6, <1>8, <2>1 DEF BodyOK, Read
<1>9. QED
  BY <1>7, <1>8

LEMMA ReceiveBody ==
  ASSUME AccessInv, NEW c \in Conns, Receive(c), BodyOK(conn[c])
  PROVE  BodyOK(conn'[c])
<1> DEFINE request == conn[c].request
           sums == PartialSums(request.chunks)
           n == conn[c].chunks + 1
           size == conn[c].size + request.chunks[n]
           got == [conn[c] EXCEPT !.chunks = n, !.size = size]
           refused == [got EXCEPT !.pc = "answered", !.reply = "too_large"]
           whole == [got EXCEPT !.pc = "read"]
<1>1. /\ conn[c].pc = "reading"
      /\ Step(c, IF TooLong(size) THEN refused
                 ELSE IF n = Len(request.chunks) THEN whole ELSE got)
  BY DEF Receive
<1>2. ConnOK(conn[c]) /\ DOMAIN conn = Conns
  BY <1>1, ActiveConn DEF AccessInv
<1>3. conn'[c] = IF TooLong(size) THEN refused
                 ELSE IF n = Len(request.chunks) THEN whole ELSE got
  BY <1>1, <1>2 DEF Step
<1>4. request.chunks \in Seq(Nat) /\ Len(request.chunks) \in Nat
      /\ conn[c].chunks \in 0 .. Len(request.chunks)
      /\ conn[c].chunks < Len(request.chunks)
  BY <1>1, <1>2, BodyLength, ApiAssumption DEF ConnOK
<1>5. n \in 1 .. Len(request.chunks) /\ n - 1 = conn[c].chunks /\ BodyLimit \in Nat
  <2>1. \A len \in Nat : \A k \in 0 .. len :
            k < len => k + 1 \in 1 .. len /\ k + 1 - 1 = k
    OBVIOUS
  <2>2. BodyLimit \in Nat
    BY ApiAssumption
  <2> HIDE DEF request
  <2>3. QED
    BY <1>4, <2>1, <2>2
<1>6. size = sums[n] /\ sums[n] \in Int /\ sums[n] <= Total(request.chunks)
      /\ Total(request.chunks) \in Int
  <2>1. \A s \in Seq(Nat) : s \in Seq(Int)
    OBVIOUS
  <2> DEFINE s == request.chunks
  <2>2. s \in Seq(Nat) /\ s \in Seq(Int) /\ Len(s) \in Nat
    BY <1>4, <2>1
  <2>3. n \in 1 .. Len(s) /\ n \in 0 .. Len(s) /\ Len(s) \in 0 .. Len(s)
    BY <1>5, <2>2
  <2>4. conn[c].size = PartialSums(s)[n - 1]
    BY <1>5 DEF BodyOK
  <2> HIDE DEF s, n
  <2>5. /\ PartialSums(s)[n] = PartialSums(s)[n - 1] + s[n]
        /\ PartialSums(s)[n] \in Int /\ Total(s) \in Int
    BY <2>2, <2>3, SumsDefined DEF Total
  <2>6. PartialSums(s)[n] <= Total(s)
    BY <2>2, <2>3, SumsGrow
  <2>7. QED
    BY <2>4, <2>5, <2>6 DEF s
<1>7. conn[c].reply = NoValue /\ NoValue # "too_large" /\ NoValue \notin Replies
  BY <1>1, <1>2, NoValueAssumption DEF ConnOK, Replies
<1> HIDE DEF n, size
<1>8. /\ DOMAIN got = Fields /\ got.request = request /\ got.chunks = n
      /\ got.size = size /\ got.pc = "reading" /\ got.reply = NoValue
  BY <1>1, <1>2, <1>7 DEF ConnOK, Fields
<1> HIDE DEF got
<1>9. /\ refused.request = request /\ refused.chunks = n /\ refused.size = size
      /\ refused.pc = "answered" /\ refused.reply = "too_large"
  BY <1>8 DEF Fields
<1>10. /\ whole.request = request /\ whole.chunks = n /\ whole.size = size
       /\ whole.pc = "read" /\ whole.reply = NoValue
  BY <1>8 DEF Fields
<1> HIDE DEF refused, whole, request
<1>11. CASE TooLong(size)
  <2>1. Total(request.chunks) > BodyLimit
    BY <1>5, <1>6, <1>11 DEF TooLong
  <2>2. QED
    BY <1>3, <1>6, <1>9, <1>11, <2>1 DEF BodyOK, Read
<1>12. CASE ~TooLong(size) /\ n = Len(request.chunks)
  <2>1. size <= BodyLimit
    BY <1>5, <1>6, <1>12 DEF TooLong
  <2>2. QED
    BY <1>3, <1>6, <1>7, <1>10, <1>12, <2>1 DEF BodyOK, Read
<1>13. CASE ~TooLong(size) /\ n # Len(request.chunks)
  <2>1. size <= BodyLimit
    BY <1>5, <1>6, <1>13 DEF TooLong
  <2>2. QED
    BY <1>3, <1>6, <1>7, <1>8, <1>13, <2>1 DEF BodyOK, Read
<1>14. QED
  BY <1>11, <1>12, <1>13

\* A handler that reads the body runs only on a whole one, also when the client
\* goes away; none is shown more than the limit, and only a body over it is
\* refused as too large (the middleware of limits.py).
THEOREM WholeBodies == Spec => []BodyIntact
<1>1. Init => BodyInv
  BY DEF Init, BodyInv
<1>2. AccessInv /\ BodyInv /\ [Next]_vars => BodyInv'
  <2> SUFFICES ASSUME AccessInv, BodyInv, [Next]_vars, NEW c \in Conns, conn'[c] # Idle
               PROVE  BodyOK(conn'[c])
    BY DEF BodyInv, BodyOK, Idle
  <2>1. conn[c] = Idle \/ BodyOK(conn[c])
    BY DEF BodyInv
  <2>2. CASE conn'[c] = conn[c]
    BY <2>1, <2>2
  <2>3. CASE \E r \in Requests : Connect(c, r)
    BY <2>3, ConnectBody
  <2>4. CASE Receive(c)
    <3>1. conn[c].pc = "reading"
      BY <2>4 DEF Receive
    <3>2. conn[c] # Idle
      BY <3>1, ActiveConn
    <3>3. QED
      BY <2>1, <2>4, <3>2, ReceiveBody
  <2>5. ASSUME /\ conn[c] # Idle
               /\ conn'[c].request = conn[c].request /\ conn'[c].chunks = conn[c].chunks
               /\ conn'[c].size = conn[c].size /\ conn[c].reply # "too_large"
               /\ conn'[c].reply # "too_large"
               /\ Read(conn'[c]) => Read(conn[c]) \/ Whole(c)
        PROVE  BodyOK(conn'[c])
    BY <2>1, <2>5 DEF BodyOK, Whole
  <2>6. QED
    BY <2>2, <2>3, <2>4, <2>5, BodyCases
<1>3. AccessInv /\ BodyInv => BodyIntact
  BY DEF BodyInv, BodyOK, BodyIntact, Read, ReadsBody, Total
<1>4. QED
  BY <1>1, <1>2, <1>3, AccessInvariant, PTL DEF Spec

(***************************************************************************)
(* The background tasks.                                                   *)
(***************************************************************************)

Task == [pc : {"file", "post", "done", "dropped", "gone"},
         attempt : Nat, quiet : BOOLEAN, copies : Nat, lost : Nat]

\* Every copy but that of the attempt that was answered is one whose answer
\* was lost, and there are no more of them than attempts that failed.
TaskOK(x) ==
  /\ x.pc = "file" => x.attempt = 1 /\ x.copies = 0
  /\ x.pc = "post" => x.attempt \in 1 .. Attempts /\ config.webhook
  /\ x.pc = "dropped" => x.attempt = Attempts + 1
  /\ x.pc = "done" => x.attempt <= Attempts
  /\ x.pc = "done" /\ config.webhook => x.copies = x.lost + 1
  /\ x.pc = "done" /\ ~config.webhook => x.copies = 0 /\ x.lost = 0
  /\ x.pc # "done" => x.copies = x.lost
  /\ x.attempt <= Attempts + 1 /\ x.lost < x.attempt

TaskInv ==
  /\ config \in Configs
  /\ tasks \in Seq(Task)
  /\ \A t \in DOMAIN tasks : TaskOK(tasks[t])

\* One task moves.
LEMMA TaskStep ==
  ASSUME TaskInv, NEW t \in DOMAIN tasks, NEW y \in Task, TaskOK(y),
         tasks' = [tasks EXCEPT ![t] = y], UNCHANGED config
  PROVE  TaskInv'
<1>1. tasks' \in Seq(Task) /\ DOMAIN tasks' = DOMAIN tasks
  BY DEF TaskInv
<1>2. \A u \in DOMAIN tasks : tasks'[u] = y \/ tasks'[u] = tasks[u]
  BY DEF TaskInv
<1>3. ASSUME NEW u \in DOMAIN tasks
      PROVE  TaskOK(tasks[u])'
  <2>1. TaskOK(tasks'[u])
    BY <1>2 DEF TaskInv
  <2>2. QED
    BY <2>1 DEF TaskOK
<1>4. QED
  BY <1>1, <1>3 DEF TaskInv

LEMMA AuditTasks ==
  ASSUME TaskInv, NEW t \in DOMAIN tasks, Audit(t)
  PROVE  TaskInv'
<1> DEFINE x == tasks[t]
<1>1. x \in Task /\ TaskOK(x) /\ config.webhook \in BOOLEAN /\ Attempts \in Nat \ {0}
  BY ApiAssumption DEF TaskInv
<1>2. UNCHANGED config
  BY DEF Audit, RecordInFile, Quiet, Trickle, Delivered, Refused, TimedOut, Failed,
         Outside
<1>3. CASE RecordInFile(t)
  <2> DEFINE y == [x EXCEPT !.pc = IF config.webhook THEN "post" ELSE "done"]
  <2>1. x.pc = "file" /\ tasks' = [tasks EXCEPT ![t] = y]
    BY <1>3 DEF RecordInFile
  <2> HIDE DEF x
  <2>2. y \in Task /\ y.pc = (IF config.webhook THEN "post" ELSE "done")
        /\ y.attempt = x.attempt /\ y.copies = x.copies /\ y.lost = x.lost
    BY <1>1 DEF Task
  <2> HIDE DEF y
  <2>3. TaskOK(y)
    BY <1>1, <2>1, <2>2 DEF TaskOK, Task
  <2>4. QED
    BY <1>2, <2>1, <2>2, <2>3, TaskStep
<1>4. CASE Delivered(t)
  <2> DEFINE copies == x.copies + 1
             y == [x EXCEPT !.pc = "done", !.copies = copies]
  <2>1. x.pc = "post" /\ tasks' = [tasks EXCEPT ![t] = y]
    BY <1>4 DEF Delivered, TaskInv, Task
  <2> HIDE DEF x
  <2>2. copies \in Nat /\ copies = x.copies + 1
    BY <1>1 DEF Task
  <2> HIDE DEF copies
  <2>3. y \in Task /\ y.pc = "done"
        /\ y.attempt = x.attempt /\ y.copies = copies /\ y.lost = x.lost
    BY <1>1, <2>2 DEF Task
  <2> HIDE DEF y
  <2>4. TaskOK(y)
    BY <1>1, <2>1, <2>2, <2>3 DEF TaskOK, Task
  <2>5. QED
    BY <1>2, <2>1, <2>3, <2>4, TaskStep
<1>5. ASSUME NEW stored \in {0, 1}, Failed(t, stored)
      PROVE  TaskInv'
  <2> DEFINE pc == IF x.attempt = Attempts THEN "dropped" ELSE "post"
             attempt == x.attempt + 1
             copies == x.copies + stored
             lost == x.lost + stored
             y == [x EXCEPT !.pc = pc, !.attempt = attempt, !.quiet = FALSE,
                            !.copies = copies, !.lost = lost]
  <2>1. x.pc = "post" /\ tasks' = [tasks EXCEPT ![t] = y]
    BY <1>5 DEF Failed, TaskInv, Task
  <2> HIDE DEF x
  <2>2. /\ pc = (IF x.attempt = Attempts THEN "dropped" ELSE "post")
        /\ attempt \in Nat /\ attempt = x.attempt + 1
        /\ copies \in Nat /\ copies = x.copies + stored
        /\ lost \in Nat /\ lost = x.lost + stored
    BY <1>1 DEF Task
  <2> HIDE DEF pc, attempt, copies, lost
  <2>3. y \in Task /\ y.pc = pc /\ y.attempt = attempt /\ y.copies = copies
        /\ y.lost = lost
    BY <1>1, <2>2 DEF Task
  <2> HIDE DEF y
  <2>4. TaskOK(y)
    BY <1>1, <2>1, <2>2, <2>3 DEF TaskOK, Task
  <2>5. QED
    BY <1>2, <2>1, <2>3, <2>4, TaskStep
<1>6. CASE Quiet(t) \/ Trickle(t)
  <2> DEFINE y == [x EXCEPT !.quiet = ~x.quiet]
  <2>1. x.pc = "post" /\ tasks' = [tasks EXCEPT ![t] = y]
    BY <1>6 DEF Quiet, Trickle, TaskInv, Task
  <2> HIDE DEF x
  <2>2. y \in Task /\ y.pc = x.pc
        /\ y.attempt = x.attempt /\ y.copies = x.copies /\ y.lost = x.lost
    BY <1>1 DEF Task
  <2> HIDE DEF y
  <2>3. TaskOK(y)
    BY <1>1, <2>1, <2>2 DEF TaskOK
  <2>4. QED
    BY <1>2, <2>1, <2>2, <2>3, TaskStep
<1>7. QED
  BY <1>3, <1>4, <1>5, <1>6 DEF Audit, Refused, TimedOut

LEMMA AnswerTasks ==
  ASSUME TaskInv, tasks' = Append(tasks, Record), UNCHANGED config
  PROVE  TaskInv'
<1>1. Record \in Task /\ TaskOK(Record)
  <2>1. Record \in Task /\ Record.pc = "file" /\ Record.attempt = 1
        /\ Record.copies = 0 /\ Record.lost = 0
    BY DEF Record, Task
  <2>2. Attempts \in Nat \ {0}
    BY ApiAssumption
  <2>3. QED
    BY <2>1, <2>2 DEF TaskOK
<1>2. /\ tasks' \in Seq(Task) /\ DOMAIN tasks' = 1 .. Len(tasks) + 1
      /\ DOMAIN tasks = 1 .. Len(tasks)
      /\ \A u \in DOMAIN tasks' : tasks'[u] = (IF u \in DOMAIN tasks THEN tasks[u]
                                               ELSE Record)
  BY <1>1 DEF TaskInv
<1>3. ASSUME NEW u \in DOMAIN tasks'
      PROVE  TaskOK(tasks'[u])
  BY <1>1, <1>2 DEF TaskInv
<1>4. \A u \in DOMAIN tasks' : TaskOK(tasks[u])'
  BY <1>3 DEF TaskOK
<1>5. QED
  BY <1>2, <1>4 DEF TaskInv

LEMMA RestartTasks ==
  ASSUME TaskInv, Restart
  PROVE  TaskInv'
<1> DEFINE over(x) == [x EXCEPT !.pc = "gone"]
           end(x) == IF x.pc \in {"file", "post"} THEN over(x) ELSE x
<1>1. ASSUME NEW x \in Task, TaskOK(x)
      PROVE  end(x) \in Task /\ TaskOK(end(x))
  <2>1. /\ over(x) \in Task /\ over(x).pc = "gone" /\ over(x).attempt = x.attempt
        /\ over(x).copies = x.copies /\ over(x).lost = x.lost
    BY DEF Task
  <2> DEFINE y == over(x)
  <2> HIDE DEF y, over
  <2>2. x.pc \in {"file", "post"} => TaskOK(y)
    BY <1>1, <2>1 DEF TaskOK, Task, y
  <2>3. QED
    BY <1>1, <2>1, <2>2 DEF y
<1> HIDE DEF end
<1>2. tasks' = [t \in DOMAIN tasks |-> end(tasks[t])] /\ UNCHANGED config
  BY DEF Restart, end
<1>3. DOMAIN tasks = 1 .. Len(tasks) /\ Len(tasks) \in Nat
      /\ \A t \in DOMAIN tasks : tasks[t] \in Task /\ TaskOK(tasks[t])
  BY DEF TaskInv
<1>4. tasks' \in Seq(Task) /\ DOMAIN tasks' = DOMAIN tasks
  BY <1>1, <1>2, <1>3
<1>5. \A u \in DOMAIN tasks : TaskOK(tasks'[u])
  BY <1>1, <1>2, <1>3
<1>6. \A u \in DOMAIN tasks : TaskOK(tasks[u])'
  BY <1>2, <1>5 DEF TaskOK
<1>7. QED
  BY <1>2, <1>4, <1>6 DEF TaskInv

LEMMA TaskInvariant == Spec => []TaskInv
<1>1. Init => TaskInv
  BY DEF Init, TaskInv
<1>2. TaskInv /\ [Next]_vars => TaskInv'
  <2> SUFFICES ASSUME TaskInv, [Next]_vars
               PROVE  TaskInv'
    OBVIOUS
  <2>1. ASSUME UNCHANGED <<config, tasks>>
        PROVE  TaskInv'
    BY <2>1 DEF TaskInv, TaskOK
  <2>2. ASSUME NEW c \in Conns, Answer(c)
        PROVE  TaskInv'
    <3>1. UNCHANGED config /\ (tasks' = Append(tasks, Record) \/ UNCHANGED tasks)
      BY <2>2 DEF Answer, Outside
    <3>2. QED
      BY <2>1, <3>1, AnswerTasks
  <2>3. ASSUME NEW c \in Conns, NEW r \in Requests, Connect(c, r)
        PROVE  UNCHANGED <<config, tasks>>
    BY <2>3 DEF Connect, Outside
  <2>4. ASSUME NEW c \in Conns,
               \/ Receive(c) \/ Disconnect(c) \/ BodyFails(c) \/ Resolve(c)
               \/ Object(c) \/ Limit(c) \/ Admit(c) \/ Introspect(c)
               \/ ReloadPlugins(c)
        PROVE  UNCHANGED <<config, tasks>>
    BY <2>4 DEF Receive, Disconnect, BodyFails, Resolve, Object, Limit, Admit, Introspect,
                ReloadPlugins, Outside
  <2>5. Tick \/ SetClock \/ UNCHANGED vars => UNCHANGED <<config, tasks>>
    BY DEF Tick, SetClock, vars
  <2>6. QED
    BY <2>1, <2>2, <2>3, <2>4, <2>5, AuditTasks, RestartTasks DEF Next, Serve
<1>3. QED
  BY <1>1, <1>2, PTL DEF Spec

\* A connection knows its caller before it is served, and a task never makes
\* more attempts than it may (api.py, audit.py).
THEOREM TypeCorrect == Spec => []TypeOK
<1>1. AccessInv /\ TaskInv => TypeOK
  <2> SUFFICES ASSUME AccessInv, TaskInv
               PROVE  TypeOK
    OBVIOUS
  <2>1. ASSUME NEW c \in Conns, conn[c] # Idle
        PROVE  /\ conn[c].pc \in {"reading", "read", "called", "admitted", "answered"}
               /\ conn[c].pc \in {"called", "admitted"} => conn[c].caller # NoValue
               /\ conn[c].chunks \in 0 .. Len(conn[c].request.chunks)
    BY <2>1 DEF AccessInv, ConnOK, CallerOK
  <2>2. ASSUME NEW t \in DOMAIN tasks
        PROVE  /\ tasks[t].pc \in {"file", "post", "done", "dropped", "gone"}
               /\ tasks[t].pc = "post" => tasks[t].attempt \in 1 .. Attempts
    <3>1. tasks[t] \in Task /\ TaskOK(tasks[t])
      BY DEF TaskInv
    <3>2. QED
      BY <3>1 DEF Task, TaskOK
  <2>3. QED
    BY <2>1, <2>2 DEF TypeOK
<1>2. QED
  BY <1>1, AccessInvariant, TaskInvariant, PTL

\* The collector misses a record only when every attempt failed or the process
\* ended, and has it twice only after an answer was lost (the webhook sink of
\* audit.py).
THEOREM DeliveryCause == Spec => []DeliveryHasCause
<1>1. TaskInv => DeliveryHasCause
  <2> SUFFICES ASSUME TaskInv, NEW t \in DOMAIN tasks
               PROVE  /\ tasks[t].copies = 0 /\ config.webhook =>
                           \/ tasks[t].pc \in {"file", "post", "gone"}
                           \/ tasks[t].pc = "dropped" /\ tasks[t].attempt > Attempts
                      /\ tasks[t].copies - tasks[t].lost
                           \in {0, IF tasks[t].pc = "done" THEN 1 ELSE 0}
                      /\ tasks[t].copies <= Attempts
    BY DEF DeliveryHasCause
  <2> DEFINE x == tasks[t]
  <2>1. x \in Task /\ TaskOK(x) /\ Attempts \in Nat /\ config.webhook \in BOOLEAN
    BY ApiAssumption DEF TaskInv
  <2> HIDE DEF x
  <2>2. /\ x.copies = 0 /\ config.webhook =>
             \/ x.pc \in {"file", "post", "gone"}
             \/ x.pc = "dropped" /\ x.attempt > Attempts
        /\ x.copies - x.lost \in {0, IF x.pc = "done" THEN 1 ELSE 0}
        /\ x.copies <= Attempts
    BY <2>1 DEF Task, TaskOK
  <2>3. QED
    BY <2>2 DEF x
<1>2. QED
  BY <1>1, TaskInvariant, PTL

(***************************************************************************)
(* The rate limiter.                                                       *)
(***************************************************************************)

Ids ==
  {"anonymous"} \cup UNION {{e.clients[i].id : i \in DOMAIN e.clients} : e \in Configs}

Entry == [id : Ids, time : Nat, clock : Nat, resets : Nat]

\* Between two resets the wall clock runs with the time.
LogOK ==
  /\ {time, skew, resets} \subseteq Nat
  /\ log \in Seq(Entry)
  /\ \A j \in DOMAIN log :
       /\ log[j].resets <= resets
       /\ log[j].resets = resets => /\ log[j].clock = log[j].time + skew
                                    /\ log[j].time <= time
  /\ \A i, j \in DOMAIN log :
       log[i].resets = log[j].resets =>
         log[i].clock - log[i].time = log[j].clock - log[j].time

\* The requests of id in a window: between two resets, and ever.
Passed(s, id, r, w) ==
  {j \in DOMAIN s : s[j].id = id /\ s[j].resets = r /\ WindowOf(s[j].clock) = w}

Used(s, id, w) == {j \in DOMAIN s : s[j].id = id /\ WindowOf(s[j].clock) = w}

\* A count is at most the limit; it covers the requests since the last reset,
\* and counts nothing that was not let pass.
CountOK ==
  \A id \in DOMAIN windows :
    /\ windows[id].start \in Nat /\ windows[id].count \in 0 .. config.limit
    /\ Cardinality(Passed(log, id, resets, windows[id].start)) <= windows[id].count
    /\ windows[id].count <= Cardinality(Used(log, id, windows[id].start))

\* A request since the last reset is in the caller's window or before it.
CurrentOK ==
  \A j \in DOMAIN log :
    log[j].resets = resets =>
      /\ log[j].id \in DOMAIN windows
      /\ WindowOf(log[j].clock) <= windows[log[j].id].start
      /\ windows[log[j].id].start <= WindowOf(Clock)

LimitOK ==
  \A j \in DOMAIN log :
    Cardinality(Passed(log, log[j].id, log[j].resets, WindowOf(log[j].clock)))
      <= config.limit

QuotaInv ==
  /\ config \in Configs
  /\ LogOK
  /\ config.limit > 0 => CountOK /\ CurrentOK /\ LimitOK

LEMMA DivBounds ==
  ASSUME NEW a \in Int, NEW d \in Nat \ {0}
  PROVE  /\ a \div d \in Int
         /\ d * (a \div d) <= a
         /\ a < d * (a \div d) + d
OBVIOUS

LEMMA NextMultiple ==
  ASSUME NEW x \in Int, NEW y \in Int, NEW d \in Nat \ {0}, x < y
  PROVE  d * x + d <= d * y
<1>1. d * (y - x - 1) >= 0
  OBVIOUS
<1>2. QED
  BY <1>1

LEMMA WindowLength == Window * Ticks \in Nat \ {0} /\ Window \in Nat /\ Ticks \in Nat \ {0}
<1>1. Window \in Nat \ {0} /\ Ticks \in Nat \ {0}
  BY ApiAssumption
<1>2. \A x, y \in Nat \ {0} : x * y \in Nat \ {0}
  OBVIOUS
<1>3. QED
  BY <1>1, <1>2

\* Windows follow each other, in the order of the clock.
LEMMA WindowOrder ==
  ASSUME NEW a \in Nat, NEW b \in Nat, a <= b
  PROVE  /\ WindowOf(a) \in Nat /\ WindowOf(a) <= WindowOf(b)
         /\ b - a < Window * Ticks => WindowOf(b) \in {WindowOf(a), WindowOf(a) + 1}
<1> DEFINE d == Window * Ticks
           p == a \div d
           q == b \div d
<1>1. d \in Nat \ {0}
  BY WindowLength
<1> HIDE DEF d
<1>2. p \in Int /\ d * p <= a /\ a < d * p + d
  BY <1>1, DivBounds
<1>3. q \in Int /\ d * q <= b /\ b < d * q + d
  BY <1>1, DivBounds
<1> HIDE DEF p, q
<1>4. d * p \in Int /\ d * q \in Int
  BY <1>1, <1>2, <1>3
<1>5. ~ (q < p)
  <2>1. q < p => d * q + d <= d * p
    BY <1>1, <1>2, <1>3, NextMultiple
  <2>2. QED
    BY <1>1, <1>2, <1>3, <1>4, <2>1
<1>6. ~ (p < 0)
  <2>1. p < 0 => d * p + d <= d * 0
    BY <1>1, <1>2, NextMultiple
  <2>2. QED
    BY <1>1, <1>2, <1>4, <2>1
<1>7. b - a < d => ~ (p + 1 < q)
  <2>1. d * (p + 1) = d * p + d
    BY <1>1, <1>2
  <2>2. p + 1 < q => d * (p + 1) + d <= d * q
    BY <1>1, <1>2, <1>3, NextMultiple
  <2>3. QED
    BY <1>1, <1>2, <1>3, <1>4, <2>1, <2>2
<1>8. p \in Nat /\ p <= q /\ (b - a < d => q \in {p, p + 1})
  BY <1>2, <1>3, <1>5, <1>6, <1>7
<1>9. QED
  BY <1>8 DEF p, q, d, WindowOf

LEMMA FiniteLog ==
  ASSUME NEW s \in Seq(Entry), NEW id, NEW r, NEW w
  PROVE  /\ IsFiniteSet(Passed(s, id, r, w)) /\ Cardinality(Passed(s, id, r, w)) \in Nat
         /\ IsFiniteSet(Used(s, id, w)) /\ Cardinality(Used(s, id, w)) \in Nat
         /\ DOMAIN s = 1 .. Len(s) /\ Len(s) \in Nat
<1>1. DOMAIN s = 1 .. Len(s) /\ Len(s) \in Nat
  OBVIOUS
<1>2. IsFiniteSet(DOMAIN s)
  BY <1>1, FS_Interval
<1>3. Passed(s, id, r, w) \in SUBSET DOMAIN s /\ Used(s, id, w) \in SUBSET DOMAIN s
  BY DEF Passed, Used
<1>4. IsFiniteSet(Passed(s, id, r, w)) /\ IsFiniteSet(Used(s, id, w))
  BY <1>2, <1>3, FS_Subset
<1>5. QED
  BY <1>1, <1>4, FS_CardinalityType

\* One more request in the log.
LEMMA LogAppended ==
  ASSUME NEW s \in Seq(Entry), NEW e \in Entry
  PROVE  /\ Append(s, e) \in Seq(Entry)
         /\ DOMAIN Append(s, e) = DOMAIN s \cup {Len(s) + 1}
         /\ Append(s, e)[Len(s) + 1] = e /\ Len(s) + 1 \notin DOMAIN s
         /\ \A j \in DOMAIN s : Append(s, e)[j] = s[j]
OBVIOUS

LEMMA PassedAppended ==
  ASSUME NEW s \in Seq(Entry), NEW e \in Entry, NEW id, NEW r, NEW w
  PROVE  Cardinality(Passed(Append(s, e), id, r, w)) =
           Cardinality(Passed(s, id, r, w)) +
             (IF e.id = id /\ e.resets = r /\ WindowOf(e.clock) = w THEN 1 ELSE 0)
<1> DEFINE u == Append(s, e)
           n == Len(s) + 1
<1>1. /\ DOMAIN u = DOMAIN s \cup {n} /\ u[n] = e /\ n \notin DOMAIN s
      /\ \A j \in DOMAIN s : u[j] = s[j]
  BY LogAppended
<1> HIDE DEF u, n
<1>2. Passed(u, id, r, w) =
        IF e.id = id /\ e.resets = r /\ WindowOf(e.clock) = w
        THEN Passed(s, id, r, w) \cup {n} ELSE Passed(s, id, r, w)
  BY <1>1 DEF Passed
<1> DEFINE S == Passed(s, id, r, w)
<1>3. n \notin S /\ IsFiniteSet(S) /\ Cardinality(S) \in Nat
  <2>1. n \notin S
    BY <1>1 DEF Passed
  <2>2. QED
    BY <2>1, FiniteLog
<1> HIDE DEF S
<1>4. Cardinality(S \cup {n}) = Cardinality(S) + 1
  BY <1>3, FS_AddElement
<1>5. QED
  BY <1>2, <1>3, <1>4 DEF u, S

LEMMA UsedAppended ==
  ASSUME NEW s \in Seq(Entry), NEW e \in Entry, NEW id, NEW w
  PROVE  Cardinality(Used(Append(s, e), id, w)) =
           Cardinality(Used(s, id, w)) +
             (IF e.id = id /\ WindowOf(e.clock) = w THEN 1 ELSE 0)
<1> DEFINE u == Append(s, e)
           n == Len(s) + 1
<1>1. /\ DOMAIN u = DOMAIN s \cup {n} /\ u[n] = e /\ n \notin DOMAIN s
      /\ \A j \in DOMAIN s : u[j] = s[j]
  BY LogAppended
<1> HIDE DEF u, n
<1>2. Used(u, id, w) =
        IF e.id = id /\ WindowOf(e.clock) = w
        THEN Used(s, id, w) \cup {n} ELSE Used(s, id, w)
  BY <1>1 DEF Used
<1> DEFINE S == Used(s, id, w)
<1>3. n \notin S /\ IsFiniteSet(S) /\ Cardinality(S) \in Nat
  <2>1. n \notin S
    BY <1>1 DEF Used
  <2>2. QED
    BY <2>1, FiniteLog
<1> HIDE DEF S
<1>4. Cardinality(S \cup {n}) = Cardinality(S) + 1
  BY <1>3, FS_AddElement
<1>5. QED
  BY <1>2, <1>3, <1>4 DEF u, S

\* allow: a request that passes is counted.
LEMMA QuotaCounted ==
  ASSUME QuotaInv, NEW id \in Ids, Allowed(id), Counted(id),
         UNCHANGED <<config, time, skew, resets>>
  PROVE  QuotaInv'
<1> DEFINE e == [id |-> id, time |-> time, clock |-> Clock, resets |-> resets]
           n == Len(log) + 1
           w == WindowOf(Clock)
           count == Count(id)
<1>1. LogOK /\ config \in Configs /\ config.limit \in Int /\ log \in Seq(Entry)
  BY ApiAssumption DEF QuotaInv, LogOK
<1>2. /\ Clock \in Nat /\ Clock = time + skew /\ w \in Nat
      /\ {time, skew, resets} \subseteq Nat
  <2>1. {time, skew, resets} \subseteq Nat
    BY <1>1 DEF LogOK
  <2>2. Clock = time + skew
    BY DEF Clock
  <2>3. Clock \in Nat
    BY <2>1, <2>2
  <2>4. w \in Nat
    BY <2>3, WindowOrder
  <2>5. QED
    BY <2>1, <2>2, <2>3, <2>4
<1>3. e \in Entry /\ e.id = id /\ e.time = time /\ e.clock = Clock /\ e.resets = resets
  BY <1>2 DEF Entry
<1>4. log' = Append(log, e) /\ Clock' = Clock
  BY DEF Counted, Clock
<1> HIDE DEF e
<1>5. /\ log' \in Seq(Entry) /\ DOMAIN log' = DOMAIN log \cup {n}
      /\ log'[n] = e /\ \A j \in DOMAIN log : log'[j] = log[j]
  BY <1>1, <1>3, <1>4, LogAppended
<1>6. \A j \in DOMAIN log : log[j] \in Entry
  BY <1>1
<1> HIDE DEF n
<1>7. LogOK'
  <2>1. \A j \in DOMAIN log' :
          /\ log'[j].resets <= resets
          /\ log'[j].resets = resets => /\ log'[j].clock = log'[j].time + skew
                                        /\ log'[j].time <= time
    BY <1>1, <1>2, <1>3, <1>5 DEF LogOK
  <2>2. ASSUME NEW i \in DOMAIN log', NEW j \in DOMAIN log',
               log'[i].resets = log'[j].resets
        PROVE  log'[i].clock - log'[i].time = log'[j].clock - log'[j].time
    <3>1. CASE i \in DOMAIN log /\ j \in DOMAIN log
      BY <1>1, <1>5, <2>2, <3>1 DEF LogOK
    <3>2. CASE i = n \/ j = n
      <4>1. log'[i].resets = resets /\ log'[j].resets = resets
        BY <1>3, <1>5, <2>2, <3>2
      <4>2. log'[i] \in Entry /\ log'[j] \in Entry
        BY <1>3, <1>5, <1>6
      <4>3. \A x \in Entry : x.clock = x.time + skew => x.clock - x.time = skew
        BY <1>2 DEF Entry
      <4>4. QED
        BY <2>1, <4>1, <4>2, <4>3
    <3>3. QED
      BY <1>5, <3>1, <3>2
  <2>3. QED
    BY <1>2, <1>5, <2>1, <2>2 DEF LogOK
<1>8. ASSUME config.limit > 0
      PROVE  CountOK' /\ CurrentOK' /\ LimitOK'
  <2>1. CountOK /\ CurrentOK /\ LimitOK
    BY <1>8 DEF QuotaInv
  <2>2. count < config.limit
    BY <1>1, <1>8 DEF Allowed
  <2>3. /\ count \in Nat
        /\ Cardinality(Passed(log, id, resets, w)) <= count
        /\ count <= Cardinality(Used(log, id, w))
    <3>1. CASE id \in DOMAIN windows /\ windows[id].start = w
      BY <1>1, <2>1, <3>1 DEF Count, CountOK
    <3>2. CASE ~ (id \in DOMAIN windows /\ windows[id].start = w)
      <4>1. count = 0
        BY <3>2 DEF Count
      <4>2. ASSUME NEW j \in Passed(log, id, resets, w)
            PROVE  FALSE
        <5>1. /\ j \in DOMAIN log /\ log[j].id = id /\ log[j].resets = resets
              /\ WindowOf(log[j].clock) = w
          BY <4>2 DEF Passed
        <5>2. id \in DOMAIN windows /\ w <= windows[id].start /\ windows[id].start <= w
          BY <2>1, <5>1 DEF CurrentOK
        <5>3. windows[id].start \in Nat
          BY <2>1, <5>2 DEF CountOK
        <5>4. QED
          BY <1>2, <3>2, <5>2, <5>3
      <4>3. Cardinality(Passed(log, id, resets, w)) = 0
        BY <4>2, FS_EmptySet
      <4>4. QED
        BY <1>1, <4>1, <4>3, FiniteLog
    <3>3. QED
      BY <3>1, <3>2
  <2>4. /\ DOMAIN windows' = DOMAIN windows \cup {id}
        /\ windows'[id].start = w /\ windows'[id].count = count + 1
        /\ \A x \in DOMAIN windows \ {id} : windows'[x] = windows[x]
    BY <1>1, <1>8 DEF Counted
  <2> HIDE DEF count, w
  <2>5. Cardinality(Passed(log', id, resets, w)) <= count + 1
    <3>1. Cardinality(Passed(log', id, resets, w)) =
            Cardinality(Passed(log, id, resets, w)) + 1
      BY <1>1, <1>3, <1>4, PassedAppended DEF w
    <3>2. QED
      BY <1>1, <2>3, <3>1, FiniteLog
  <2>6. count + 1 <= Cardinality(Used(log', id, w))
    <3>1. Cardinality(Used(log', id, w)) = Cardinality(Used(log, id, w)) + 1
      BY <1>1, <1>3, <1>4, UsedAppended DEF w
    <3>2. QED
      BY <1>1, <2>3, <3>1, FiniteLog
  <2>7. CountOK'
    <3>1. ASSUME NEW x \in DOMAIN windows'
          PROVE  /\ windows'[x].start \in Nat /\ windows'[x].count \in 0 .. config.limit
                 /\ Cardinality(Passed(log', x, resets, windows'[x].start))
                      <= windows'[x].count
                 /\ windows'[x].count <= Cardinality(Used(log', x, windows'[x].start))
      <4>1. CASE x = id
        <5>1. count + 1 \in 0 .. config.limit
          BY <1>1, <2>2, <2>3
        <5>2. windows'[x].start = w /\ windows'[x].count = count + 1
          BY <2>4, <4>1
        <5>3. QED
          BY <1>2, <2>5, <2>6, <4>1, <5>1, <5>2
      <4>2. CASE x # id
        <5> DEFINE start == windows[x].start
        <5>1. x \in DOMAIN windows /\ windows'[x] = windows[x]
          BY <2>4, <4>2
        <5>2. /\ Cardinality(Passed(log', x, resets, start)) =
                   Cardinality(Passed(log, x, resets, start))
              /\ Cardinality(Used(log', x, start)) = Cardinality(Used(log, x, start))
          <6>1. Cardinality(Passed(log', x, resets, start)) =
                  Cardinality(Passed(log, x, resets, start)) + 0
            BY <1>1, <1>3, <1>4, <4>2, PassedAppended
          <6>2. Cardinality(Used(log', x, start)) = Cardinality(Used(log, x, start)) + 0
            BY <1>1, <1>3, <1>4, <4>2, UsedAppended
          <6>3. QED
            BY <1>1, <6>1, <6>2, FiniteLog
        <5>3. QED
          BY <2>1, <5>1, <5>2 DEF CountOK
      <4>3. QED
        BY <4>1, <4>2
    <3>2. QED
      BY <3>1 DEF CountOK
  <2>8. CurrentOK'
    <3>1. ASSUME NEW j \in DOMAIN log', log'[j].resets = resets
          PROVE  /\ log'[j].id \in DOMAIN windows'
                 /\ WindowOf(log'[j].clock) <= windows'[log'[j].id].start
                 /\ windows'[log'[j].id].start <= w
      <4>1. CASE j = n
        BY <1>2, <1>3, <1>5, <2>4, <4>1 DEF w
      <4>2. CASE j \in DOMAIN log
        <5>1. /\ log'[j] = log[j] /\ log[j].id \in DOMAIN windows
              /\ WindowOf(log[j].clock) <= windows[log[j].id].start
              /\ windows[log[j].id].start <= w
          BY <1>5, <2>1, <3>1, <4>2 DEF CurrentOK, w
        <5>2. windows[log[j].id].start \in Nat
          BY <2>1, <5>1 DEF CountOK
        <5>3. WindowOf(log[j].clock) \in Nat
          BY <1>6, <4>2, WindowOrder DEF Entry
        <5>4. QED
          BY <1>2, <2>4, <5>1, <5>2, <5>3
      <4>3. QED
        BY <1>5, <4>1, <4>2
    <3>2. QED
      BY <1>4, <3>1 DEF CurrentOK, w
  <2>9. LimitOK'
    <3>1. ASSUME NEW j \in DOMAIN log'
          PROVE  Cardinality(Passed(log', log'[j].id, log'[j].resets,
                                    WindowOf(log'[j].clock))) <= config.limit
      <4> DEFINE x == log'[j]
                 v == WindowOf(x.clock)
      <4>1. CASE x.id = id /\ x.resets = resets /\ v = w
        <5>1. Cardinality(Passed(log', id, resets, w)) \in Nat
          BY <1>5, FiniteLog
        <5>2. QED
          BY <1>1, <2>2, <2>3, <2>5, <4>1, <5>1
      <4>2. CASE ~ (x.id = id /\ x.resets = resets /\ v = w)
        <5>1. j \in DOMAIN log /\ x = log[j]
          BY <1>3, <1>5, <4>2 DEF w
        <5>2. Cardinality(Passed(log, x.id, x.resets, v)) <= config.limit
          BY <2>1, <5>1 DEF LimitOK
        <5> HIDE DEF x, v
        <5>3. Cardinality(Passed(log', x.id, x.resets, v)) =
                Cardinality(Passed(log, x.id, x.resets, v)) + 0
          BY <1>1, <1>3, <1>4, <4>2, PassedAppended DEF w
        <5>4. Cardinality(Passed(log, x.id, x.resets, v)) \in Nat
          BY <1>1, FiniteLog
        <5>5. Cardinality(Passed(log', x.id, x.resets, v)) <= config.limit
          BY <5>2, <5>3, <5>4
        <5>6. QED
          BY <5>5 DEF x, v
      <4>3. QED
        BY <4>1, <4>2
    <3>2. QED
      BY <3>1 DEF LimitOK
  <2>10. QED
    BY <2>7, <2>8, <2>9
<1>9. QED
  BY <1>1, <1>7, <1>8 DEF QuotaInv

\* Nothing the rate limiter has counted is of a reset to come.
LEMMA NoneAhead ==
  ASSUME LogOK, NEW id, NEW w
  PROVE  /\ Passed(log, id, resets + 1, w) = {}
         /\ \A j \in DOMAIN log : log[j].resets # resets + 1
<1>1. resets \in Nat /\ \A j \in DOMAIN log : log[j] \in Entry /\ log[j].resets <= resets
  BY DEF LogOK
<1>2. \A x \in Entry : x.resets <= resets => x.resets # resets + 1
  BY <1>1 DEF Entry
<1>3. \A j \in DOMAIN log : log[j].resets # resets + 1
  BY <1>1, <1>2
<1>4. QED
  BY <1>3 DEF Passed

LEMMA QuotaReset ==
  ASSUME QuotaInv, SetClock \/ Restart
  PROVE  QuotaInv'
<1>1. /\ resets' = resets + 1 /\ UNCHANGED <<config, time, log>>
      /\ skew' \in Nat /\ (windows' = windows \/ windows' = <<>>)
  BY ApiAssumption DEF SetClock, Restart, QuotaInv, LogOK
<1>2. LogOK
  BY DEF QuotaInv
<1>3. resets \in Nat /\ \A j \in DOMAIN log : log[j] \in Entry /\ log[j].resets <= resets
  BY <1>2 DEF LogOK
<1>4. \A j \in DOMAIN log : log[j].resets # resets' /\ log[j].resets <= resets'
  <2>1. \A x \in Entry : x.resets <= resets => x.resets <= resets + 1
    BY <1>3 DEF Entry
  <2>2. QED
    BY <1>1, <1>2, <1>3, <2>1, NoneAhead
<1>5. LogOK'
  BY <1>1, <1>2, <1>3, <1>4 DEF LogOK
<1>6. ASSUME config.limit > 0
      PROVE  CountOK' /\ CurrentOK' /\ LimitOK'
  <2>1. CountOK /\ LimitOK
    BY <1>6 DEF QuotaInv
  <2>2. CurrentOK' /\ LimitOK'
    BY <1>1, <1>4, <2>1 DEF CurrentOK, LimitOK
  <2>3. ASSUME NEW id \in DOMAIN windows'
        PROVE  /\ windows'[id].start \in Nat /\ windows'[id].count \in 0 .. config.limit
               /\ Cardinality(Passed(log, id, resets', windows'[id].start))
                    <= windows'[id].count
               /\ windows'[id].count <= Cardinality(Used(log, id, windows'[id].start))
    <3>1. id \in DOMAIN windows /\ windows' = windows
      BY <1>1, <2>3
    <3>2. Cardinality(Passed(log, id, resets', windows[id].start)) = 0
      <4>1. Passed(log, id, resets', windows[id].start) = {}
        BY <1>1, <1>2, NoneAhead
      <4>2. QED
        BY <4>1, FS_EmptySet
    <3>3. /\ windows[id].start \in Nat /\ windows[id].count \in 0 .. config.limit
          /\ windows[id].count <= Cardinality(Used(log, id, windows[id].start))
      BY <2>1, <3>1 DEF CountOK
    <3>4. 0 <= windows[id].count
      BY <3>3
    <3>5. QED
      BY <3>1, <3>2, <3>3, <3>4
  <2>4. CountOK'
    BY <1>1, <2>3 DEF CountOK
  <2>5. QED
    BY <2>2, <2>4
<1>7. QED
  BY <1>1, <1>5, <1>6 DEF QuotaInv

LEMMA QuotaTick ==
  ASSUME QuotaInv, Tick
  PROVE  QuotaInv'
<1>1. time' = time + 1 /\ UNCHANGED <<config, skew, windows, log, resets>>
  BY DEF Tick
<1>2. {time, skew} \subseteq Nat /\ LogOK
  BY DEF QuotaInv, LogOK
<1>3. \A j \in DOMAIN log : log[j] \in Entry
  BY <1>2 DEF LogOK
<1>4. LogOK'
  <2>1. \A x \in Entry : x.time <= time => x.time <= time + 1
    BY <1>2 DEF Entry
  <2>2. QED
    BY <1>1, <1>2, <1>3, <2>1 DEF LogOK
<1>5. Clock \in Nat /\ Clock' = Clock + 1
  BY <1>1, <1>2 DEF Clock
<1>6. WindowOf(Clock) \in Nat /\ WindowOf(Clock') \in Nat /\ WindowOf(Clock) <= WindowOf(Clock')
  BY <1>5, WindowOrder
<1>7. ASSUME config.limit > 0
      PROVE  CountOK' /\ CurrentOK' /\ LimitOK'
  <2>1. CountOK /\ CurrentOK /\ LimitOK
    BY <1>7 DEF QuotaInv
  <2>2. CountOK' /\ LimitOK'
    BY <1>1, <2>1 DEF CountOK, LimitOK
  <2>3. ASSUME NEW j \in DOMAIN log, log[j].resets = resets
        PROVE  /\ log[j].id \in DOMAIN windows
               /\ WindowOf(log[j].clock) <= windows[log[j].id].start
               /\ windows[log[j].id].start <= WindowOf(Clock')
    <3>1. /\ log[j].id \in DOMAIN windows
          /\ WindowOf(log[j].clock) <= windows[log[j].id].start
          /\ windows[log[j].id].start <= WindowOf(Clock)
      BY <2>1, <2>3 DEF CurrentOK
    <3>2. windows[log[j].id].start \in Nat
      BY <2>1, <3>1 DEF CountOK
    <3>3. QED
      BY <1>6, <3>1, <3>2
  <2>4. CurrentOK'
    BY <1>1, <2>3 DEF CurrentOK
  <2>5. QED
    BY <2>2, <2>4
<1>8. QED
  BY <1>1, <1>4, <1>7 DEF QuotaInv

\* The caller of a request that waits for its check is a client or anonymous.
LEMMA ClientId ==
  ASSUME NEW e \in Configs, NEW key, Authenticate(e.clients, key) # NoValue
  PROVE  Authenticate(e.clients, key).id \in Ids
<1>1. \E i \in DOMAIN e.clients : Authenticate(e.clients, key).id = e.clients[i].id
  BY LastMatch
<1>2. QED
  BY <1>1 DEF Ids

LEMMA CallerId ==
  ASSUME AccessInv, NEW c \in Conns, conn[c].pc = "called"
  PROVE  conn[c].caller.id \in Ids
<1> DEFINE key == conn[c].request.auth
<1>1. /\ config \in Configs /\ conn[c].caller # NoValue
      /\ conn[c].caller = ResolveCaller(key)
  BY ActiveConn DEF AccessInv, CallerOK
<1> HIDE DEF key
<1>2. CASE key # NoValue
  BY <1>1, <1>2, ClientId DEF ResolveCaller
<1>3. CASE key = NoValue
  BY <1>1, <1>3 DEF ResolveCaller, Anonymous, Ids
<1>4. QED
  BY <1>2, <1>3

\* What a step does to the rate limiter.
LEMMA LimiterStep ==
  ASSUME [Next]_vars
  PROVE  \/ UNCHANGED <<config, time, skew, windows, log, resets>>
         \/ \E c \in Conns :
              /\ conn[c].pc = "called" /\ Allowed(conn[c].caller.id)
              /\ Counted(conn[c].caller.id) /\ UNCHANGED <<config, time, skew, resets>>
         \/ Tick \/ SetClock \/ Restart
<1>1. ASSUME NEW c \in Conns, Admit(c) \/ Introspect(c)
      PROVE  /\ conn[c].pc = "called" /\ Allowed(conn[c].caller.id)
             /\ Counted(conn[c].caller.id) /\ UNCHANGED <<config, time, skew, resets>>
  BY <1>1 DEF Admit, Introspect, Checks, Outside
<1>2. ASSUME NEW c \in Conns, NEW r \in Requests, Connect(c, r)
      PROVE  UNCHANGED <<config, time, skew, windows, log, resets>>
  BY <1>2 DEF Connect, Outside
<1>3. ASSUME NEW c \in Conns,
             \/ Receive(c) \/ Disconnect(c) \/ BodyFails(c) \/ Resolve(c)
             \/ Object(c) \/ Limit(c) \/ Answer(c) \/ ReloadPlugins(c)
      PROVE  UNCHANGED <<config, time, skew, windows, log, resets>>
  BY <1>3 DEF Receive, Disconnect, BodyFails, Resolve, Object, Limit, Answer, ReloadPlugins,
              Outside
<1>4. ASSUME NEW t \in DOMAIN tasks, Audit(t)
      PROVE  UNCHANGED <<config, time, skew, windows, log, resets>>
  BY <1>4 DEF Audit, RecordInFile, Quiet, Trickle, Delivered, Refused, TimedOut,
              Failed, Outside
<1>5. UNCHANGED vars => UNCHANGED <<config, time, skew, windows, log, resets>>
  BY DEF vars
<1>6. QED
  BY <1>1, <1>2, <1>3, <1>4, <1>5 DEF Next, Serve

LEMMA QuotaStep ==
  ASSUME AccessInv, QuotaInv, [Next]_vars
  PROVE  QuotaInv'
<1>1. ASSUME UNCHANGED <<config, time, skew, windows, log, resets>>
      PROVE  QuotaInv'
  BY <1>1 DEF QuotaInv, LogOK, CountOK, CurrentOK, LimitOK, Clock
<1>2. ASSUME NEW c \in Conns, conn[c].pc = "called", Allowed(conn[c].caller.id),
             Counted(conn[c].caller.id), UNCHANGED <<config, time, skew, resets>>
      PROVE  QuotaInv'
  <2>1. conn[c].caller.id \in Ids
    BY <1>2, CallerId
  <2>2. QED
    BY <1>2, <2>1, QuotaCounted
<1>3. QED
  BY <1>1, <1>2, LimiterStep, QuotaReset, QuotaTick

LEMMA QuotaInvariant == Spec => []QuotaInv
<1>1. Init => QuotaInv
  <2> SUFFICES ASSUME Init PROVE QuotaInv
    OBVIOUS
  <2>1. skew \in Nat
    BY ApiAssumption DEF Init
  <2>2. QED
    BY <2>1 DEF Init, QuotaInv, LogOK, CountOK, CurrentOK, LimitOK
<1>2. QED
  BY <1>1, AccessInvariant, QuotaStep, PTL DEF Spec

\* While the process runs and nobody sets its clock, a caller gets at most the
\* limit in a window of the clock, and at most twice the limit in any time of
\* that length (the rate limiter of limits.py).
THEOREM Quota == Spec => []QuotaHolds
<1>1. QuotaInv => QuotaHolds
  <2> SUFFICES ASSUME QuotaInv, config.limit > 0, NEW i \in DOMAIN log
               PROVE  LET same == {j \in DOMAIN log : /\ log[j].id = log[i].id
                                                      /\ log[j].resets = log[i].resets}
                          inWindow == {j \in same : WindowOf(log[j].clock) =
                                                      WindowOf(log[i].clock)}
                          inLength == {j \in same : log[j].time - log[i].time
                                                      \in 0 .. Window * Ticks - 1}
                      IN /\ Cardinality(inWindow) <= config.limit
                         /\ Cardinality(inLength) <= 2 * config.limit
    BY DEF QuotaHolds
  <2> DEFINE id == log[i].id
             r == log[i].resets
             w == WindowOf(log[i].clock)
             same == {j \in DOMAIN log : log[j].id = id /\ log[j].resets = r}
             inWindow == {j \in same : WindowOf(log[j].clock) = w}
             inLength == {j \in same : log[j].time - log[i].time
                                         \in 0 .. Window * Ticks - 1}
             A == Passed(log, id, r, w)
             B == Passed(log, id, r, w + 1)
  <2>1. LogOK /\ LimitOK /\ log \in Seq(Entry) /\ config.limit \in Int
    BY ApiAssumption DEF QuotaInv, LogOK
  <2>2. inWindow = A
    BY DEF Passed
  <2>3. Cardinality(A) <= config.limit
    BY <2>1 DEF LimitOK
  <2>4. /\ IsFiniteSet(A) /\ Cardinality(A) \in Nat
        /\ IsFiniteSet(B) /\ Cardinality(B) \in Nat
    BY <2>1, FiniteLog
  <2>5. Cardinality(B) <= config.limit
    <3>1. CASE B = {}
      <4>1. Cardinality(B) = 0
        BY <3>1, FS_EmptySet
      <4> HIDE DEF B
      <4>2. QED
        BY <2>1, <4>1
    <3>2. CASE B # {}
      <4>1. PICK j \in DOMAIN log : /\ log[j].id = id /\ log[j].resets = r
                                    /\ WindowOf(log[j].clock) = w + 1
        BY <3>2 DEF Passed
      <4>2. Cardinality(Passed(log, log[j].id, log[j].resets, WindowOf(log[j].clock)))
              <= config.limit
        BY <2>1 DEF LimitOK
      <4>3. QED
        BY <4>1, <4>2
    <3>3. QED
      BY <3>1, <3>2
  <2>6. inLength \subseteq A \cup B
    <3>1. ASSUME NEW j \in inLength
          PROVE  j \in A \cup B
      <4> DEFINE x == log[i]
                 y == log[j]
      <4>1. /\ j \in DOMAIN log /\ y.id = id /\ y.resets = r
            /\ y.time - x.time \in 0 .. Window * Ticks - 1
        BY <3>1
      <4>2. x \in Entry /\ y \in Entry /\ y.clock - y.time = x.clock - x.time
        BY <2>1, <4>1 DEF LogOK
      <4>3. WindowOf(y.clock) \in {WindowOf(x.clock), WindowOf(x.clock) + 1}
        <5> HIDE DEF x, y
        <5>1. /\ x.clock \in Nat /\ y.clock \in Nat /\ x.time \in Nat /\ y.time \in Nat
              /\ Window * Ticks \in Nat
          BY <4>2, WindowLength DEF Entry
        <5>2. x.clock <= y.clock /\ y.clock - x.clock < Window * Ticks
          <6> DEFINE d == Window * Ticks
          <6> HIDE DEF d
          <6>1. d \in Nat /\ y.time - x.time \in 0 .. d - 1
            BY <4>1, <5>1 DEF d
          <6>2. x.clock <= y.clock /\ y.clock - x.clock < d
            BY <4>2, <5>1, <6>1
          <6>3. QED
            BY <6>2 DEF d
        <5>3. QED
          BY <5>1, <5>2, WindowOrder
      <4>4. QED
        BY <4>1, <4>3 DEF Passed
    <3>2. QED
      BY <3>1
  <2> HIDE DEF A, B, inLength, inWindow
  <2>7. Cardinality(inLength) <= 2 * config.limit
    <3>1. /\ IsFiniteSet(A \cup B)
          /\ Cardinality(A \cup B) = Cardinality(A) + Cardinality(B) - Cardinality(A \cap B)
      BY <2>4, FS_Union
    <3>2. IsFiniteSet(A \cap B)
      BY <2>4, FS_Intersection
    <3>3. Cardinality(A \cap B) \in Nat
      BY <3>2, FS_CardinalityType
    <3>4. IsFiniteSet(inLength) /\ Cardinality(inLength) <= Cardinality(A \cup B)
      BY <2>6, <3>1, FS_Subset
    <3>5. Cardinality(inLength) \in Nat
      BY <3>4, FS_CardinalityType
    <3>6. \A k, a, b, both, all, limit \in Int :
            (/\ a <= limit /\ b <= limit /\ 0 <= both
             /\ all = a + b - both /\ k <= all) => k <= 2 * limit
      OBVIOUS
    <3>7. Cardinality(A \cup B) \in Int /\ 0 <= Cardinality(A \cap B)
      BY <2>4, <3>1, <3>3
    <3> DEFINE k == Cardinality(inLength)
               a == Cardinality(A)
               b == Cardinality(B)
               both == Cardinality(A \cap B)
               all == Cardinality(A \cup B)
               limit == config.limit
    <3>8. /\ {k, a, b, both, all, limit} \subseteq Int
          /\ a <= limit /\ b <= limit /\ 0 <= both
          /\ all = a + b - both /\ k <= all
      BY <2>1, <2>3, <2>4, <2>5, <3>1, <3>3, <3>4, <3>5, <3>7
    <3> HIDE DEF k, a, b, both, all, limit
    <3>9. k <= 2 * limit
      BY <3>6, <3>8
    <3>10. QED
      BY <3>9 DEF k, limit
  <2>8. QED
    BY <2>2, <2>3, <2>7 DEF inLength, inWindow
<1>2. QED
  BY <1>1, QuotaInvariant, PTL

\* Retry-After reaches the next window but for less than a second, and not
\* past it unless it is the least answer.
LEMMA RetryBounds ==
  ASSUME Clock \in Nat
  PROVE  LET end == (WindowOf(Clock) + 1) * Window * Ticks
         IN /\ Clock + (RetryAfter + 1) * Ticks >= end
            /\ RetryAfter > 1 => Clock + RetryAfter * Ticks <= end
<1> DEFINE d == Window * Ticks
           q == Clock \div d
           end == (q + 1) * Window * Ticks
           rest == (end - Clock) \div Ticks
<1>1. d \in Nat \ {0} /\ Window \in Nat /\ Ticks \in Nat \ {0}
  BY WindowLength
<1>2. q \in Int /\ Clock < d * q + d
  <2> HIDE DEF d
  <2>1. QED
    BY <1>1, DivBounds
<1>3. end = d * q + d /\ end \in Int
  <2> HIDE DEF q
  <2>1. \A x \in Int, y, z \in Nat : (x + 1) * y * z = (y * z) * x + y * z
    OBVIOUS
  <2>2. \A x, y \in Int : x * y + x \in Int
    OBVIOUS
  <2>3. end = d * q + d
    BY <1>1, <1>2, <2>1
  <2>4. d * q + d \in Int
    <3> HIDE DEF d
    <3>1. QED
      BY <1>1, <1>2, <2>2
  <2>5. QED
    BY <2>3, <2>4
<1>4. RetryAfter = IF rest < 1 THEN 1 ELSE rest
  BY DEF RetryAfter, WindowOf
<1> HIDE DEF end
<1>5. end - Clock \in Int /\ Clock < end
  BY <1>2, <1>3
<1>6. /\ rest \in Int /\ Ticks * rest <= end - Clock
      /\ end - Clock < Ticks * rest + Ticks
  BY <1>1, <1>5, DivBounds
<1> HIDE DEF rest
<1>7. CASE rest < 1
  <2>1. Ticks * rest <= 0
    <3>1. \A x \in Nat, y \in Int : y < 1 => x * y <= 0
      OBVIOUS
    <3>2. QED
      BY <1>1, <1>6, <1>7, <3>1
  <2>2. RetryAfter = 1
    BY <1>4, <1>7
  <2>3. Ticks * rest \in Int
    BY <1>1, <1>6
  <2>4. Clock + (RetryAfter + 1) * Ticks >= end /\ ~ (RetryAfter > 1)
    BY <1>1, <1>3, <1>6, <2>1, <2>2, <2>3
  <2>5. QED
    BY <2>4 DEF end, q, d, WindowOf
<1>8. CASE ~ (rest < 1)
  <2>1. RetryAfter = rest
    BY <1>4, <1>8
  <2>2. \A x \in Nat, y \in Int : (y + 1) * x = x * y + x /\ y * x = x * y /\ x * y \in Int
    OBVIOUS
  <2>3. /\ (rest + 1) * Ticks = Ticks * rest + Ticks /\ rest * Ticks = Ticks * rest
        /\ Ticks * rest \in Int
    BY <1>1, <1>6, <2>2
  <2>4. Clock + (RetryAfter + 1) * Ticks >= end /\ Clock + RetryAfter * Ticks <= end
    BY <1>1, <1>3, <1>6, <2>1, <2>3
  <2>5. QED
    BY <2>4 DEF end, q, d, WindowOf
<1>9. QED
  BY <1>7, <1>8

Due(x) ==
  /\ config.limit > 0
  /\ Cardinality(Used(log, x.caller.id, WindowOf(x.clock))) >= config.limit
  /\ LET end == (WindowOf(x.clock) + 1) * Window * Ticks
     IN /\ x.clock + (x.retry + 1) * Ticks >= end
        /\ x.retry > 1 => x.clock + x.retry * Ticks <= end

DueInv ==
  \A c \in Conns : conn[c] # Idle /\ conn[c].reply = "rate_limited" => Due(conn[c])

\* What a caller has used in a window is never forgotten by the log.
LEMMA UsedGrows ==
  ASSUME AccessInv, QuotaInv, [Next]_vars, NEW id, NEW w
  PROVE  /\ Cardinality(Used(log, id, w)) \in Nat /\ Cardinality(Used(log', id, w)) \in Nat
         /\ Cardinality(Used(log, id, w)) <= Cardinality(Used(log', id, w))
<1>1. log \in Seq(Entry) /\ log' \in Seq(Entry)
  BY QuotaStep DEF QuotaInv, LogOK
<1>2. Cardinality(Used(log, id, w)) \in Nat /\ IsFiniteSet(Used(log', id, w))
      /\ Cardinality(Used(log', id, w)) \in Nat
  BY <1>1, FiniteLog
<1>3. log' = log \/ \E e : log' = Append(log, e)
  <2>1. Tick \/ SetClock \/ Restart => log' = log
    BY DEF Tick, SetClock, Restart
  <2>2. \A x : Counted(x) => \E e : log' = Append(log, e)
    BY DEF Counted
  <2>3. QED
    BY <2>1, <2>2, LimiterStep
<1>4. Used(log, id, w) \in SUBSET Used(log', id, w)
  <2>1. \A e : /\ DOMAIN log \subseteq DOMAIN Append(log, e)
               /\ \A j \in DOMAIN log : Append(log, e)[j] = log[j]
    BY <1>1
  <2>2. DOMAIN log \subseteq DOMAIN log' /\ \A j \in DOMAIN log : log'[j] = log[j]
    BY <1>3, <2>1
  <2>3. QED
    BY <2>2 DEF Used
<1>5. Cardinality(Used(log, id, w)) <= Cardinality(Used(log', id, w))
  BY <1>2, <1>4, FS_Subset
<1>6. QED
  BY <1>2, <1>5

LEMMA LimitDue ==
  ASSUME AccessInv, QuotaInv, NEW c \in Conns, Limit(c)
  PROVE  Due(conn'[c])
<1> DEFINE y == [conn[c] EXCEPT !.pc = "answered", !.reply = "rate_limited",
                                !.retry = RetryAfter, !.clock = Clock]
           id == conn[c].caller.id
<1>1. conn[c].pc = "called" /\ ~Allowed(id) /\ Step(c, y)
  BY DEF Limit, Checks
<1>2. DOMAIN conn[c] = Fields /\ DOMAIN conn = Conns
  BY <1>1, ActiveConn DEF ConnOK, AccessInv
<1>3. conn'[c] = y /\ y.caller = conn[c].caller /\ y.retry = RetryAfter /\ y.clock = Clock
  BY <1>1, <1>2 DEF Step, Fields
<1> HIDE DEF y
<1>4. config.limit \in Int /\ LogOK /\ log \in Seq(Entry)
  BY ApiAssumption DEF QuotaInv, LogOK
<1>5. config.limit > 0 /\ ~ (Count(id) < config.limit)
  BY <1>1, <1>4 DEF Allowed
<1>6. id \in DOMAIN windows /\ windows[id].start = WindowOf(Clock)
      /\ Count(id) = windows[id].count
  BY <1>4, <1>5 DEF Count
<1>7. /\ windows[id].count \in 0 .. config.limit
      /\ windows[id].count <= Cardinality(Used(log, id, WindowOf(Clock)))
  BY <1>5, <1>6 DEF QuotaInv, CountOK
<1>8. Cardinality(Used(log, id, WindowOf(Clock))) >= config.limit
  <2>1. Cardinality(Used(log, id, WindowOf(Clock))) \in Nat
    BY <1>4, FiniteLog
  <2>2. QED
    BY <1>4, <1>5, <1>6, <1>7, <2>1
<1>9. Clock \in Nat
  BY <1>4 DEF LogOK, Clock
<1>10. QED
  BY <1>3, <1>5, <1>8, <1>9, RetryBounds DEF Due

\* Only a refusal by the rate limiter is answered as one.
LEMMA ConnCases ==
  ASSUME AccessInv, [Next]_vars, NEW c \in Conns
  PROVE  \/ conn'[c] = conn[c] \/ conn'[c] = Idle \/ Limit(c)
         \/ conn'[c].reply # "rate_limited"
<1>1. ASSUME NEW d \in Conns, NEW state, Step(d, state),
             state.reply # "rate_limited" \/ Limit(d)
      PROVE  conn'[c] = conn[c] \/ Limit(c) \/ conn'[c].reply # "rate_limited"
  BY <1>1 DEF Step, AccessInv
<1>2. ASSUME NEW d \in Conns, NEW what \in Replies \ {"rate_limited"},
             conn[d].pc # "idle", Reply(d, what)
      PROVE  conn'[c] = conn[c] \/ conn'[c].reply # "rate_limited" \/ Limit(c)
  <2>1. DOMAIN conn[d] = Fields
    BY <1>2, ActiveConn DEF ConnOK
  <2>2. [conn[d] EXCEPT !.pc = "answered", !.reply = what].reply # "rate_limited"
    BY <1>2, <2>1 DEF Fields
  <2>3. QED
    BY <1>1, <1>2, <2>2 DEF Reply
<1>3. NoValue # "rate_limited"
  BY NoValueAssumption DEF Replies
<1>4. ASSUME NEW d \in Conns, NEW r \in Requests, Connect(d, r)
      PROVE  conn'[c] = conn[c] \/ conn'[c].reply # "rate_limited" \/ Limit(c)
  <2> DEFINE new == [pc |-> "reading", request |-> r, chunks |-> 0, size |-> 0,
                     caller |-> NoValue, reply |-> NoValue, retry |-> 0, clock |-> 0]
             refused == [new EXCEPT !.pc = "answered", !.reply = "too_large"]
  <2>1. Step(d, new) \/ Step(d, refused)
    BY <1>4 DEF Connect
  <2>2. new.reply # "rate_limited" /\ refused.reply # "rate_limited"
    BY <1>3
  <2> HIDE DEF new, refused
  <2>3. QED
    BY <1>1, <2>1, <2>2
<1>5. ASSUME NEW d \in Conns, Receive(d)
      PROVE  conn'[c] = conn[c] \/ conn'[c].reply # "rate_limited" \/ Limit(c)
  <2> DEFINE n == conn[d].chunks + 1
             size == conn[d].size + conn[d].request.chunks[n]
             got == [conn[d] EXCEPT !.chunks = n, !.size = size]
             refused == [got EXCEPT !.pc = "answered", !.reply = "too_large"]
             whole == [got EXCEPT !.pc = "read"]
  <2>1. conn[d].pc = "reading" /\ (Step(d, refused) \/ Step(d, whole) \/ Step(d, got))
    BY <1>5 DEF Receive
  <2>2. DOMAIN conn[d] = Fields /\ conn[d].reply = NoValue
    BY <2>1, ActiveConn DEF ConnOK
  <2>3. /\ got.reply = NoValue /\ whole.reply = NoValue
        /\ refused.reply = "too_large"
    <3>1. DOMAIN got = Fields /\ got.reply = NoValue
      BY <2>2 DEF Fields
    <3> HIDE DEF got
    <3>2. QED
      BY <3>1 DEF Fields
  <2> HIDE DEF got, whole, refused
  <2>4. QED
    BY <1>1, <1>3, <2>1, <2>3
<1>6. ASSUME NEW d \in Conns, Resolve(d)
      PROVE  conn'[c] = conn[c] \/ conn'[c].reply # "rate_limited" \/ Limit(c)
  <2> DEFINE caller == ResolveCaller(conn[d].request.auth)
             y == [conn[d] EXCEPT !.pc = "called", !.caller = caller]
  <2>1. conn[d].pc = "read" /\ (Reply(d, "unauthorized") \/ Step(d, y))
    BY <1>6 DEF Resolve
  <2>2. DOMAIN conn[d] = Fields /\ conn[d].reply = NoValue
    BY <2>1, ActiveConn DEF ConnOK
  <2>3. y.reply = NoValue
    BY <2>2 DEF Fields
  <2> HIDE DEF y
  <2>4. QED
    BY <1>1, <1>2, <1>3, <2>1, <2>3 DEF Replies
<1>7. ASSUME NEW d \in Conns, Admit(d)
      PROVE  conn'[c] = conn[c] \/ conn'[c].reply # "rate_limited" \/ Limit(c)
  <2> DEFINE y == [conn[d] EXCEPT !.pc = "admitted"]
  <2>1. conn[d].pc = "called" /\ Step(d, y)
    BY <1>7 DEF Admit, Checks
  <2>2. DOMAIN conn[d] = Fields /\ conn[d].reply = NoValue
    BY <2>1, ActiveConn DEF ConnOK
  <2>3. y.reply = NoValue
    BY <2>2 DEF Fields
  <2> HIDE DEF y
  <2>4. QED
    BY <1>1, <1>3, <2>1, <2>3
<1>8. ASSUME NEW d \in Conns,
             \/ BodyFails(d) \/ Object(d) \/ Answer(d) \/ Introspect(d)
             \/ ReloadPlugins(d)
      PROVE  conn'[c] = conn[c] \/ conn'[c].reply # "rate_limited" \/ Limit(c)
  <2>1. conn[d].pc # "idle"
        /\ \E what \in Replies \ {"rate_limited"} : Reply(d, what)
    <3>1. ASSUME Object(d)
          PROVE  conn[d].pc # "idle"
                 /\ \E what \in Replies \ {"rate_limited"} : Reply(d, what)
      <4> DEFINE what == Objection(conn[d].caller, conn[d].request)
      <4>1. conn[d].pc = "called" /\ what # NoValue /\ Reply(d, what)
        BY <3>1 DEF Object
      <4>2. what \in Replies \ {"rate_limited"}
        BY <4>1, ObjectionType DEF Replies
      <4> HIDE DEF what
      <4>3. QED
        BY <4>1, <4>2
    <3>2. QED
      BY <1>8, <3>1 DEF BodyFails, Answer, Introspect, Checks, ReloadPlugins, Replies
  <2>2. QED
    BY <1>2, <2>1
<1>9. ASSUME NEW d \in Conns, Limit(d)
      PROVE  conn'[c] = conn[c] \/ conn'[c].reply # "rate_limited" \/ Limit(c)
  <2>1. \E state : Step(d, state)
    BY <1>9 DEF Limit
  <2>2. QED
    BY <1>1, <1>9, <2>1
<1>10. ASSUME NEW t \in DOMAIN tasks, Audit(t)
       PROVE  UNCHANGED conn
  BY <1>10 DEF Audit, RecordInFile, Quiet, Trickle, Delivered, Refused, TimedOut, Failed
<1>11. Tick \/ SetClock \/ UNCHANGED vars => UNCHANGED conn
  BY DEF Tick, SetClock, vars
<1>12. Restart => conn'[c] = Idle
  BY DEF Restart
<1>13. ASSUME NEW d \in Conns, Disconnect(d)
       PROVE  conn'[c] = conn[c] \/ conn'[c].reply # "rate_limited" \/ Limit(c)
  <2> DEFINE y == [conn[d] EXCEPT !.pc = "read"]
  <2>1. conn[d].pc = "reading" /\ Step(d, y)
    BY <1>13 DEF Disconnect
  <2>2. DOMAIN conn[d] = Fields /\ conn[d].reply = NoValue
    BY <2>1, ActiveConn DEF ConnOK
  <2>3. y.reply = NoValue
    BY <2>2 DEF Fields
  <2> HIDE DEF y
  <2>4. QED
    BY <1>1, <1>3, <2>1, <2>3
<1>14. QED
  BY <1>4, <1>5, <1>6, <1>7, <1>8, <1>9, <1>10, <1>11, <1>12, <1>13 DEF Next, Serve

\* A caller is turned away only after as many requests as it may make in this
\* window, and Retry-After takes it to the next one (limits.py).
THEOREM RefusalDue == Spec => []RefusalIsDue
<1>1. Init => DueInv
  BY DEF Init, DueInv
<1>2. AccessInv /\ QuotaInv /\ DueInv /\ [Next]_vars => DueInv'
  <2> SUFFICES ASSUME AccessInv, QuotaInv, DueInv, [Next]_vars, NEW c \in Conns,
                      conn'[c] # Idle, conn'[c].reply = "rate_limited"
               PROVE  Due(conn[c])'
    BY DEF DueInv, Idle
  <2>1. config' = config /\ config.limit \in Int
    <3>1. Tick \/ SetClock \/ Restart => config' = config
      BY DEF Tick, SetClock, Restart
    <3>2. QED
      BY <3>1, LimiterStep, ApiAssumption DEF AccessInv
  <2>2. Due(conn'[c])
    BY ConnCases, LimitDue DEF DueInv
  <2> DEFINE x == conn'[c]
             used(s) == Cardinality(Used(s, x.caller.id, WindowOf(x.clock)))
  <2>3. used(log) \in Nat /\ used(log') \in Nat /\ used(log) <= used(log')
    BY UsedGrows
  <2>4. used(log) >= config.limit
    BY <2>2 DEF Due
  <2>5. used(log') >= config.limit
    <3> HIDE DEF used
    <3>1. QED
      BY <2>1, <2>3, <2>4
  <2>6. QED
    BY <2>1, <2>2, <2>5 DEF Due
<1>3. DueInv => RefusalIsDue
  BY DEF DueInv, Due, Used, RefusalIsDue
<1>4. QED
  BY <1>1, <1>2, <1>3, AccessInvariant, QuotaInvariant, PTL DEF Spec

=============================================================================
