-------------------------------- MODULE HttpApi --------------------------------
(***************************************************************************)
(* The HTTP API of one AXG process: the body limit, the caller's identity, *)
(* the rate limit, the routes that change or reveal something, and the     *)
(* background tasks that hand a record to the audit sinks.                 *)
(*                                                                         *)
(* Time is counted in ticks, Ticks to the second.  time runs on; the wall  *)
(* clock that the rate limiter reads is time + skew, and an operator (or   *)
(* NTP) may set it.  What the engine, the approval service and the file    *)
(* sink do is modelled in their own modules.                               *)
(***************************************************************************)
EXTENDS Integers, Sequences, FiniteSets, Lists

CONSTANTS
  Conns,        \* connections that are open at the same time
  Requests,     \* what clients send
  Configs,      \* environments: clients, auth mode, admin token, rate limit,
                \* and whether a webhook sink is configured
  BodyLimit,    \* AXG_MAX_BODY_BYTES
  Window,       \* the rate limiter's window in seconds (60)
  Ticks,        \* ticks of the clock per second
  Attempts,     \* WEBHOOK_ATTEMPTS
  Skews,        \* differences between the wall clock and time
  NoValue,      \* an absent value
  MaxTime, MaxRequests, MaxRecords, MaxResets   \* bounds of a behaviour

ASSUME ApiAssumption ==
  /\ {Window, Ticks, Attempts} \subseteq Nat \ {0}
  /\ {BodyLimit, MaxTime, MaxRequests, MaxRecords, MaxResets} \subseteq Nat
  /\ Skews \subseteq Nat /\ \E k \in Skews : \A l \in Skews : l <= k
  /\ \A e \in Configs :
       /\ e.limit \in Int /\ e.webhook \in BOOLEAN
       /\ Len(e.clients) \in Nat /\ DOMAIN e.clients = 1 .. Len(e.clients)
  \* the HTTP server hands on a body of the declared length
  /\ \A r \in Requests : /\ r.chunks \in Seq(Nat) \ {<<>>}
                         /\ r.declared \in {NoValue, Total(r.chunks)}

\* What a request is answered with; the absent value is no answer.
Replies == {"ok", "claims", "inactive", "bad_request", "unauthorized", "forbidden",
            "too_large", "rate_limited"}

ASSUME NoValueAssumption == NoValue \notin Replies

VARIABLES
  config,       \* the environment of the process
  time, skew,   \* time, and what the wall clock adds to it
  conn,         \* the state of each connection
  windows,      \* RateLimiter._windows
  tasks,        \* the background audit tasks, in the order they were added
  log,          \* history: the requests the rate limiter let pass
  opened,       \* history: how many requests, and how many of them may
                \* leave a record
  resets        \* history: restarts and adjustments of the clock

vars == <<config, time, skew, conn, windows, tasks, log, opened, resets>>

Clock == time + skew
Idle  == [pc |-> "idle"]

-----------------------------------------------------------------------------
(* Who calls.                                                              *)

\* approves says that the ceiling of permissions admits APPROVE_PERMISSION.
Anonymous ==
  [id |-> "anonymous", authenticated |-> FALSE, apps |-> {"*"}, approves |-> FALSE]

MayActFor(caller, app) == {"*", app} \cap caller.apps # {}

MayApprove(caller, app) == MayActFor(caller, app) /\ caller.approves

\* Mutant of Authenticate: the loop stops at the first entry that matches.
AuthenticateFirst(clients, key) ==
  LET match == {i \in DOMAIN clients : clients[i].key = key}
      first == CHOOSE i \in match : \A j \in match : i <= j
  IN IF match = {} THEN NoValue
     ELSE [id |-> clients[first].id, authenticated |-> TRUE,
           apps |-> clients[first].apps, approves |-> clients[first].approves]

\* Every entry is compared, so the last one that matches gives the identity.
Authenticate(clients, key) ==
  LET match == {i \in DOMAIN clients : clients[i].key = key}
      last  == CHOOSE i \in match : \A j \in match : j <= i
  IN IF match = {} THEN NoValue
     ELSE [id |-> clients[last].id, authenticated |-> TRUE,
           apps |-> clients[last].apps, approves |-> clients[last].approves]

ResolveCaller(auth) ==
  IF auth # NoValue THEN Authenticate(config.clients, auth)
  ELSE IF config.optional THEN Anonymous ELSE NoValue

-----------------------------------------------------------------------------
(* The rate limiter: one window per caller id.                             *)

WindowOf(clock) == clock \div (Window * Ticks)

\* The count of the window the clock is in; another window's is forgotten.
Count(id) ==
  IF id \in DOMAIN windows /\ windows[id].start = WindowOf(Clock)
  THEN windows[id].count ELSE 0

\* Mutant of Allowed: the limit is compared with the new count too late.
AllowedOneMore(id) == config.limit <= 0 \/ Count(id) <= config.limit

Allowed(id) == config.limit <= 0 \/ Count(id) < config.limit

\* Mutant of RetryAfter: the seconds since the window began.
RetryAfterStart ==
  LET past == (Clock - WindowOf(Clock) * Window * Ticks) \div Ticks
  IN IF past < 1 THEN 1 ELSE past

\* The rest of the window in whole seconds, rounded down, but at least one.
RetryAfter ==
  LET rest == ((WindowOf(Clock) + 1) * Window * Ticks - Clock) \div Ticks
  IN IF rest < 1 THEN 1 ELSE rest

\* A request that passes is counted, unless the limit is switched off.
Counted(id) ==
  /\ windows' = IF config.limit <= 0 THEN windows
                ELSE [x \in DOMAIN windows \cup {id} |->
                        IF x # id THEN windows[x]
                        ELSE [start |-> WindowOf(Clock), count |-> Count(id) + 1]]
  /\ log' = Append(log, [id |-> id, time |-> time, clock |-> Clock,
                         resets |-> resets])

-----------------------------------------------------------------------------
(* A request on its way through the middleware and its handler.            *)

Init ==
  /\ config \in Configs
  /\ time = 0 /\ skew = CHOOSE k \in Skews : \A l \in Skews : l <= k
  /\ conn = [c \in Conns |-> Idle]
  /\ windows = <<>> /\ tasks = <<>> /\ log = <<>>
  /\ opened = [all |-> 0, recording |-> 0] /\ resets = 0

Step(c, state) == conn' = [conn EXCEPT ![c] = state]
Reply(c, what) == Step(c, [conn[c] EXCEPT !.pc = "answered", !.reply = what])

Outside == <<config, time, skew, resets>>

TooLong(size) == size > BodyLimit

\* A declared length over the limit is refused before the body is read.
Connect(c, r) ==
  /\ conn[c].pc \in {"idle", "answered"}
  /\ opened.all < MaxRequests
  /\ opened.recording < MaxRecords \/ r.route \notin {"decide", "approve"}
  /\ opened' = [all |-> opened.all + 1,
                recording |-> opened.recording +
                  (IF r.route \in {"decide", "approve"} THEN 1 ELSE 0)]
  /\ LET new == [pc |-> "reading", request |-> r, chunks |-> 0, size |-> 0,
                 caller |-> NoValue, reply |-> NoValue, retry |-> 0,
                 clock |-> 0]
     IN Step(c, IF r.declared # NoValue /\ TooLong(r.declared)
                THEN [new EXCEPT !.pc = "answered", !.reply = "too_large"] ELSE new)
  /\ UNCHANGED <<Outside, windows, tasks, log>>

\* Mutant of Receive: only the chunk is compared with the limit.
ReceiveChunkOnly(c) ==
  /\ conn[c].pc = "reading"
  /\ LET request == conn[c].request
         n       == conn[c].chunks + 1
         size    == conn[c].size + request.chunks[n]
         got     == [conn[c] EXCEPT !.chunks = n, !.size = size]
     IN Step(c, IF TooLong(request.chunks[n])
                THEN [got EXCEPT !.pc = "answered", !.reply = "too_large"]
                ELSE IF n = Len(request.chunks) THEN [got EXCEPT !.pc = "read"]
                ELSE got)
  /\ UNCHANGED <<Outside, windows, tasks, log, opened>>

\* The next chunk of the body.  The last one lets the application start.
Receive(c) ==
  /\ conn[c].pc = "reading"
  /\ LET request == conn[c].request
         n       == conn[c].chunks + 1
         size    == conn[c].size + request.chunks[n]
         got     == [conn[c] EXCEPT !.chunks = n, !.size = size]
     IN Step(c, IF TooLong(size)
                THEN [got EXCEPT !.pc = "answered", !.reply = "too_large"]
                ELSE IF n = Len(request.chunks) THEN [got EXCEPT !.pc = "read"]
                ELSE got)
  /\ UNCHANGED <<Outside, windows, tasks, log, opened>>

\* The client goes away: the application starts with what has come so far.
Disconnect(c) ==
  /\ conn[c].pc = "reading"
  /\ Step(c, [conn[c] EXCEPT !.pc = "read"])
  /\ UNCHANGED <<Outside, windows, tasks, log, opened>>

Whole(c) == conn[c].chunks = Len(conn[c].request.chunks)

\* Reload declares no body, and so nothing reads it.
ReadsBody(c) == conn[c].request.route # "reload"

\* Whoever reads the body comes upon the disconnect, before the caller is
\* resolved, and the framework answers.
BodyFails(c) ==
  /\ conn[c].pc = "read" /\ ReadsBody(c) /\ ~Whole(c)
  /\ Reply(c, "bad_request")
  /\ UNCHANGED <<Outside, windows, tasks, log, opened>>

\* resolve_caller, which every route but reload depends on.
Resolve(c) ==
  /\ conn[c].pc = "read" /\ ReadsBody(c) /\ Whole(c)
  /\ LET caller == ResolveCaller(conn[c].request.auth)
     IN IF caller = NoValue THEN Reply(c, "unauthorized")
        ELSE Step(c, [conn[c] EXCEPT !.pc = "called", !.caller = caller])
  /\ UNCHANGED <<Outside, windows, tasks, log, opened>>

\* What a route checks before the rate limit.
Objection(caller, request) ==
  CASE request.route = "decide" /\ ~MayActFor(caller, request.app) -> "forbidden"
    [] request.route = "introspect" /\ ~caller.authenticated -> "unauthorized"
    [] OTHER -> NoValue

Object(c) ==
  /\ conn[c].pc = "called"
  /\ Objection(conn[c].caller, conn[c].request) # NoValue
  /\ Reply(c, Objection(conn[c].caller, conn[c].request))
  /\ UNCHANGED <<Outside, windows, tasks, log, opened>>

\* The handler has no objection of its own and asks the rate limiter.
Checks(c) ==
  conn[c].pc = "called" /\ Objection(conn[c].caller, conn[c].request) = NoValue

Limit(c) ==
  /\ Checks(c)
  /\ ~Allowed(conn[c].caller.id)
  /\ Step(c, [conn[c] EXCEPT !.pc = "answered", !.reply = "rate_limited",
                             !.retry = RetryAfter, !.clock = Clock])
  /\ UNCHANGED <<Outside, windows, tasks, log, opened>>

\* A decision or an approval, which awaits its service from here on.
Admit(c) ==
  /\ Checks(c)
  /\ conn[c].request.route \in {"decide", "approve"}
  /\ Allowed(conn[c].caller.id)
  /\ Counted(conn[c].caller.id)
  /\ Step(c, [conn[c] EXCEPT !.pc = "admitted"])
  /\ UNCHANGED <<Outside, tasks, opened>>

\* The background task of a response that is about to be sent.
Record ==
  [pc |-> "file", attempt |-> 1, quiet |-> FALSE, copies |-> 0, lost |-> 0]

\* create_decision and submit_approval, once the engine or the approval
\* service has answered; a rejected approval leaves no record.  The service
\* may reject whatever the caller may do.
Answer(c) ==
  /\ conn[c].pc = "admitted"
  /\ \/ /\ \/ conn[c].request.route = "decide"
           \/ /\ conn[c].request.route = "approve"
              /\ MayApprove(conn[c].caller, conn[c].request.app)
        /\ Reply(c, "ok")
        /\ tasks' = Append(tasks, Record)
     \/ /\ conn[c].request.route = "approve"
        /\ Reply(c, "bad_request")
        /\ UNCHANGED tasks
  /\ UNCHANGED <<Outside, windows, log, opened>>

\* introspect awaits nothing.  The Passport, which names an app, is valid or
\* it is not.
Introspect(c) ==
  /\ Checks(c)
  /\ conn[c].request.route = "introspect"
  /\ Allowed(conn[c].caller.id)
  /\ Counted(conn[c].caller.id)
  /\ \/ MayActFor(conn[c].caller, conn[c].request.app) /\ Reply(c, "claims")
     \/ Reply(c, "inactive")
  /\ UNCHANGED <<Outside, tasks, opened>>

\* It also serves a client that has gone.
ReloadPlugins(c) ==
  /\ conn[c].pc = "read" /\ ~ReadsBody(c)
  /\ IF config.admin = NoValue \/ conn[c].request.auth # config.admin
     THEN Reply(c, "unauthorized") ELSE Reply(c, "ok")
  /\ UNCHANGED <<Outside, windows, tasks, log, opened>>

-----------------------------------------------------------------------------
(* The audit sinks, one after the other.                                   *)

\* The file sink logs its errors; the next sink, when there is one, gets the
\* record either way.
RecordInFile(t) ==
  /\ tasks[t].pc = "file"
  /\ tasks' = [tasks EXCEPT ![t].pc = IF config.webhook THEN "post" ELSE "done"]
  /\ UNCHANGED <<Outside, conn, windows, log, opened>>

Delivered(t) ==
  /\ tasks[t].pc = "post"
  /\ tasks' = [tasks EXCEPT ![t].pc = "done", ![t].copies = @ + 1]
  /\ UNCHANGED <<Outside, conn, windows, log, opened>>

\* Half of the timeout goes by without a byte from the collector.
Quiet(t) ==
  /\ tasks[t].pc = "post" /\ ~tasks[t].quiet
  /\ tasks' = [tasks EXCEPT ![t].quiet = TRUE]
  /\ UNCHANGED <<Outside, conn, windows, log, opened>>

\* A byte arrives, or one is taken: the timeout is one of each read and
\* write, so it starts again.
Trickle(t) ==
  /\ tasks[t].pc = "post" /\ tasks[t].quiet
  /\ tasks' = [tasks EXCEPT ![t].quiet = FALSE]
  /\ UNCHANGED <<Outside, conn, windows, log, opened>>

\* Mutant of Failed: the last attempt is given up before it is made.
FailedEarly(t, stored) ==
  /\ tasks[t].pc = "post"
  /\ tasks' = [tasks EXCEPT
                 ![t].pc = IF tasks[t].attempt + 1 = Attempts THEN "dropped"
                           ELSE "post",
                 ![t].attempt = @ + 1, ![t].quiet = FALSE,
                 ![t].copies = @ + stored, ![t].lost = @ + stored]
  /\ UNCHANGED <<Outside, conn, windows, log, opened>>

\* Mutant of Failed: one attempt too many.
FailedLate(t, stored) ==
  /\ tasks[t].pc = "post"
  /\ tasks' = [tasks EXCEPT
                 ![t].pc = IF tasks[t].attempt > Attempts THEN "dropped"
                           ELSE "post",
                 ![t].attempt = @ + 1, ![t].quiet = FALSE,
                 ![t].copies = @ + stored, ![t].lost = @ + stored]
  /\ UNCHANGED <<Outside, conn, windows, log, opened>>

\* An attempt ends without a good answer.  stored is 1 when the collector has
\* kept the record and only its answer was lost.
Failed(t, stored) ==
  /\ tasks[t].pc = "post"
  /\ tasks' = [tasks EXCEPT
                 ![t].pc = IF tasks[t].attempt = Attempts THEN "dropped"
                           ELSE "post",
                 ![t].attempt = @ + 1, ![t].quiet = FALSE,
                 ![t].copies = @ + stored, ![t].lost = @ + stored]
  /\ UNCHANGED <<Outside, conn, windows, log, opened>>

\* The connection breaks or the status is an error; the collector decides when.
Refused(t) == \E stored \in {0, 1} : Failed(t, stored)

\* Mutant of TimedOut: the last attempt is made without a timeout.
TimedOutButLast(t) ==
  /\ tasks[t].quiet /\ tasks[t].attempt < Attempts
  /\ \E stored \in {0, 1} : Failed(t, stored)

\* Nothing arrives in the other half of the timeout either.
TimedOut(t) == tasks[t].quiet /\ \E stored \in {0, 1} : Failed(t, stored)

-----------------------------------------------------------------------------
(* The world around the process.                                           *)

\* Only the rate limiter reads a clock.
Tick ==
  /\ config.limit > 0 /\ time < MaxTime
  /\ time' = time + 1
  /\ UNCHANGED <<config, skew, conn, windows, tasks, log, opened, resets>>

SetClock ==
  /\ config.limit > 0 /\ resets < MaxResets
  /\ resets' = resets + 1
  /\ skew' \in Skews \ {skew}
  /\ UNCHANGED <<config, time, conn, windows, tasks, log, opened>>

\* Everything but the environment is in memory.
Restart ==
  /\ resets < MaxResets
  /\ resets' = resets + 1
  /\ conn' = [c \in Conns |-> Idle]
  /\ windows' = <<>>
  /\ tasks' = [t \in DOMAIN tasks |->
                 IF tasks[t].pc \in {"file", "post"}
                 THEN [tasks[t] EXCEPT !.pc = "gone"] ELSE tasks[t]]
  /\ UNCHANGED <<config, time, skew, log, opened>>

Serve(c) ==
  \/ BodyFails(c) \/ Resolve(c) \/ Object(c) \/ Limit(c) \/ Admit(c) \/ Answer(c)
  \/ Introspect(c) \/ ReloadPlugins(c)

Audit(t) ==
  \/ RecordInFile(t) \/ Quiet(t) \/ Trickle(t)
  \/ Delivered(t) \/ Refused(t) \/ TimedOut(t)

Next ==
  \/ \E c \in Conns :
       \/ \E r \in Requests : Connect(c, r)
       \/ Receive(c) \/ Disconnect(c) \/ Serve(c)
  \/ \E t \in DOMAIN tasks : Audit(t)
  \/ Tick \/ SetClock \/ Restart

\* The event loop runs every task, and its timers: what is quiet for long
\* enough times out.  The collector owes nothing, neither an answer nor an
\* error; clients, handlers, clocks and restarts need no fairness.
Fairness ==
  \A t \in 1 .. MaxRecords :
    /\ WF_vars(t \in DOMAIN tasks /\ RecordInFile(t))
    /\ WF_vars(t \in DOMAIN tasks /\ (Quiet(t) \/ TimedOut(t)))

Spec == Init /\ [][Next]_vars /\ Fairness

-----------------------------------------------------------------------------
\* The shape of the state: a connection knows its caller before it is
\* served, and a task never makes more attempts than it may.
TypeOK ==
  /\ \A c \in Conns :
       conn[c] # Idle =>
         /\ conn[c].pc \in {"reading", "read", "called", "admitted", "answered"}
         /\ conn[c].pc \in {"called", "admitted"} => conn[c].caller # NoValue
         /\ conn[c].chunks \in 0 .. Len(conn[c].request.chunks)
  /\ \A t \in DOMAIN tasks :
       /\ tasks[t].pc \in {"file", "post", "done", "dropped", "gone"}
       /\ tasks[t].pc = "post" => tasks[t].attempt \in 1 .. Attempts

\* limits.py:46-74: a handler that reads the body runs exactly on a whole one,
\* also when its client goes away, whether or not a length was declared and
\* however the body was cut; no handler is shown more than the limit, not even
\* a part; and only a body over the limit is refused for its size.
BodyIntact ==
  \A c \in Conns :
    conn[c] # Idle =>
      LET sent   == Total(conn[c].request.chunks)
          reads  == \/ conn[c].pc \in {"called", "admitted"}
                    \/ /\ conn[c].reply \in Replies \ {"bad_request", "too_large"}
                       /\ ReadsBody(c)
      IN /\ reads => conn[c].size = sent /\ sent <= BodyLimit
         /\ conn[c].reply # "too_large" => conn[c].size <= BodyLimit
         /\ conn[c].reply = "too_large" => sent > BodyLimit

\* limits.py:84-99: while the process runs and nobody sets its clock, a
\* caller gets at most the limit in a window of the clock, and at most twice
\* the limit in any time of that length, whichever keys it uses.
QuotaHolds ==
  config.limit > 0 =>
    \A i \in DOMAIN log :
      LET same == {j \in DOMAIN log : /\ log[j].id = log[i].id
                                      /\ log[j].resets = log[i].resets}
          inWindow == {j \in same : WindowOf(log[j].clock) = WindowOf(log[i].clock)}
          inLength == {j \in same : log[j].time - log[i].time
                                      \in 0 .. Window * Ticks - 1}
      IN /\ Cardinality(inWindow) <= config.limit
         /\ Cardinality(inLength) <= 2 * config.limit

\* limits.py:96-98: a caller is turned away only after as many requests as it
\* may make in this window, also across restarts; a second more than
\* Retry-After takes it to the next window, and Retry-After does not reach
\* past that (but for the least answer, one second).
RefusalIsDue ==
  \A c \in Conns :
    conn[c] # Idle /\ conn[c].reply = "rate_limited" =>
      LET window == WindowOf(conn[c].clock)
          end    == (window + 1) * Window * Ticks
          used   == {i \in DOMAIN log : /\ log[i].id = conn[c].caller.id
                                        /\ WindowOf(log[i].clock) = window}
      IN /\ config.limit > 0 /\ Cardinality(used) >= config.limit
         /\ conn[c].clock + (conn[c].retry + 1) * Ticks >= end
         /\ conn[c].retry > 1 => conn[c].clock + conn[c].retry * Ticks <= end

\* auth.py:85-102, api.py:55-193, approvals.py:106-110: what succeeds was asked
\* for by whom the configuration allows it.  The last entry for a key decides
\* whose request it is; approvals are taken from clients of the app that may
\* approve; claims are shown to callers of their app; nobody without a key
\* approves or introspects, and only the admin token reloads.
AccessIsGranted ==
  \A c \in Conns :
    conn[c] # Idle /\ conn[c].reply \in {"ok", "claims", "inactive"} =>
      LET request == conn[c].request
          owns(i) == /\ config.clients[i].key = request.auth
                     /\ \A j \in DOMAIN config.clients :
                          config.clients[j].key = request.auth => j <= i
          grants(i) ==
            /\ conn[c].caller.id = config.clients[i].id
            /\ \/ {request.app, "*"} \cap config.clients[i].apps # {}
               \/ conn[c].reply = "inactive"
            /\ request.route = "approve" => config.clients[i].approves
      IN CASE request.route = "reload" ->
                request.auth = config.admin /\ config.admin # NoValue
           [] request.route # "reload" /\ request.auth = NoValue ->
                config.optional /\ request.route = "decide"
           [] OTHER ->
                \E i \in DOMAIN config.clients : owns(i) /\ grants(i)

\* audit.py:98-108, 124-131: the collector misses the record of an answered
\* request only if all the attempts failed or the process ended, and gets it
\* again only after an answer was lost.
DeliveryHasCause ==
  \A t \in DOMAIN tasks :
    /\ tasks[t].copies = 0 /\ config.webhook =>
         \/ tasks[t].pc \in {"file", "post", "gone"}
         \/ tasks[t].pc = "dropped" /\ tasks[t].attempt > Attempts
    /\ tasks[t].copies - tasks[t].lost \in {0, IF tasks[t].pc = "done" THEN 1 ELSE 0}
    /\ tasks[t].copies <= Attempts

\* audit.py:98-108: an audit task ends although the collector owes it nothing:
\* it delivers its record or gives up, unless the collector sends (or takes)
\* bytes for ever, each before the timeout of one read or write is over.
AuditEnds ==
  \A t \in 1 .. MaxRecords :
    \/ t \in DOMAIN tasks ~>
         t \in DOMAIN tasks /\ tasks[t].pc \in {"done", "dropped", "gone"}
    \/ []<><<t \in DOMAIN tasks /\ Trickle(t)>>_vars

=============================================================================
