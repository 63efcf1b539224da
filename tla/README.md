# AXG: a TLA+ model of the Agent Execution Guard

AXG decides whether an AI agent may execute an action. It answers `ALLOW`,
`SUGGEST`, `CONFIRM` or `BLOCK`, signs a *Passport* for what is allowed and an
*approval ticket* for what a human must decide, and leaves the enforcement to
executors that verify the Passport. The server keeps no database: what it
promises rests on signed tokens, on a few caches in memory and on one audit file.

## 1. The system: components, state, operations

| Component | Source | State | Operations |
|---|---|---|---|
| Decision engine | `axg/engine.py`, `axg/rules.py` | none | `decide`: load the policy, verify signed context, evaluate rules, decide, sign a Passport or a ticket |
| Approval service | `axg/approvals.py` | none | `submit`: check ticket, caller, approver, policy; sign a Passport whose jti is the ticket id, or record a denial |
| Tokens and keys | `axg/crypto.py` | current key, retired public keys | `sign_decision`, `sign_approval_ticket`, `verify_approval_ticket`, `introspect_passport`, `get_jwks` |
| Policy cache | `axg/plugin_loader.py` | dictionary plugin id -> plugin | `load` (file or URL, asynchronous), `clear_cache` |
| Audit trail | `axg/audit.py` | the file, the hash of its last record, a lock | `record_decision` in a background task, `verify_audit_chain`, webhook with retries |
| Limits | `axg/limits.py` | per caller: window and count | `check`, body size middleware |
| Authentication | `axg/auth.py` | none (environment) | `authenticate`, `Caller.may_act_for`, `effective_permissions` |
| Signed context | `axg/context.py` | cached providers | `verify_signed_context` |
| HTTP API | `axg/api.py` | the singletons above | decisions, approvals, introspection, reload, JWKS |
| SDKs | `sdks/` | replay cache: jti -> expiry | `verify_passport`, `verify_mcp_tool_call`, `submit_approval`, clients |
| MCP gateway, AgentCore interceptor | `integrations/` | none | decide on `tools/call`, attach Passport, introspect approved calls |
| Claude Code hook, .NET backend | `integrations/` | none | map an answer or a failure to allow/ask/deny |
| Approval queue example | `examples/approvals/` | a table of tickets | add, take, close |

How they interact: the API resolves the caller, asks the rate limiter, awaits
the engine (which awaits the policy cache and, for signed context, a provider's
keys), answers, and only then runs the audit in a background task. A ticket
travels through the application's approval queue to a human and comes back to the
approval endpoint, which awaits the policy cache again. A Passport travels through
the agent to an executor, which verifies it offline and consumes its jti in a
replay cache that AXG never sees.

What is hard here, and what makes each component correct:

* **Lifecycle.** Time, several lifetimes, repeated submissions, threads that
  share a replay cache. Correct if nothing is executed that was not allowed or
  approved by an eligible person, and if one authorisation is executed once.
* **Policy cache.** Concurrent loads, reload while a load is in flight. Correct if
  a decision after a reload uses the policy of that reload or a later one.
* **Audit trail.** Crash in the middle of a write, failed close, two writers,
  records lost between the answer and the background task. Correct if what
  was verified stays verifiable and no record is dropped, changed or rejected without
  a cause that can be named.
* **Limits.** Threads, window boundaries. Correct if no caller exceeds its limit
  in a window and a caller told to come back is admitted when it does.
* **Decision.** Many overlapping rules of precedence. Correct if a caller with
  less trust never gets a laxer outcome and nothing fails open.
* **Keys.** Rotation with several lifetimes and caches. Correct if an unexpired
  token verifies while its key is retained.
* **Gateways and queue.** Failures of AXG at every step, workers that share a table.
  Correct if no tool runs without an ALLOW for exactly that call, once, and a denial
  holds.

## 2. Modules

| Module | Models | Source |
|---|---|---|
| `AuthorisedUse` | abstract: a decision grants one payload; uses through one cache do not overlap in time | what the three rows below promise together |
| `PassportLifecycle` | decision, ticket, approval exchange, policy change, clock, executor threads, replay caches | `engine.py`, `approvals.py`, `crypto.py`, Python SDK |
| `MCPassportLifecycle` | small instances of it | |
| `PassportLifecycle_proofs` | its theorems | |
| `PolicyCache` | replicas with a policy cache, requests in flight, deployments, reload, restart | `plugin_loader.py`, `api.py`, `approvals.py` |
| `MCPolicyCache` | small instances of it | |
| `PolicyCache_proofs` | its theorems | |
| `AuditChain` | the hash-chained file, the sink's lock and remembered hash, failed writes, crashes, `verify_audit_chain` | `audit.py`, `api.py` |
| `AuditChain_proofs` | its theorems | |
| `Lists` | Python's `sum()` and its list comprehensions with a condition, as recursive functions | `rules.py`, `engine.py` |
| `Recursion_proofs` | what these compute, for lists of any length: lemmas for the theorems about `Decision` and `HttpApi` | |
| `Rules` | the rule engine: conditions, operators, groups | `rules.py` |
| `SignedContext` | providers, the checks of a context token, which facts result | `context.py` |
| `Decision` | extends both: one evaluation, from the request to the answer and its record | `engine.py`, `models.py`, `auth.py` |
| `MCDecision` | policies, requests, callers and tokens | |
| `Decision_proofs` | its theorems | |
| `HttpApi` | a connection through body limit, authentication, checks, rate limit, handler and background audit with the webhook | `api.py`, `limits.py`, `auth.py`, `audit.py` |
| `MCHttpApi` | environments and requests | |
| `HttpApi_proofs` | its theorems | |
| `KeyRotation` | replicas and their keys, an operator, verifiers with cached key sets | `crypto.py`, Python SDK |
| `MCKeyRotation` | symmetry of the replicas | |
| `KeyRotation_proofs` | its theorems | |
| `Enforcers` | what the SDKs conclude from a Passport, and the interceptor from an answer of AXG | SDKs, `axg_interceptor.py` |
| `McpGateway` | extends it: host, gateway, tool and approval queue together | `axg_mcp_gateway.py`, `axg_interceptor.py`, SDKs, `sqlite_approval_queue.py` |
| `MCMcpGateway` | messages and rules | |
| `McpGateway_proofs` | its theorems | |

The modules meet at named operations. `PassportLifecycle` takes the label that
`PluginLoader.load` returns as its variable `policy`; `PolicyCache` shows which
version that is. The approvals that `PassportLifecycle` collects in `approvals`
are, with the decisions, the `Records` of `AuditChain`. `Decision` computes the
verdict that `PassportLifecycle` and `McpGateway` take as a choice, for the caller
that `HttpApi` resolves; `HttpApi` awaits it between `Admit` and `Answer`. `McpGateway`
asks AXG through `Ask` and `Exchange`, and its `jti` of an approval is the one
`PassportLifecycle` signs with. Which key verifies a token is abstracted everywhere
but in `KeyRotation`.

### How state and actions correspond to the code

**PassportLifecycle.** `requests[d]` is the request and the plugin object that
`_evaluate` holds; `tickets`, `passports` are the tokens in circulation, by the
claims that the checks read; `submissions[s]` is an approval request between the
awaits of `submit`; `checks[w]` is an executor thread inside `verify_passport`,
and `seen` is `InMemoryReplayCache._seen`. A decision takes two steps, because
the engine awaits between loading the policy and signing; an approval takes three:
`submit` verifies the ticket, `load()` reads the policy (`loaded[s]`) and is awaited,
and `_check_policy` compares what it returned and signs. The policy may be replaced
between any two of these, and `inForce[s]` remembers which ones were in force meanwhile.
A verification takes three, because `jwt.decode` and `check_and_store` read the
clock separately and only the second half of the latter is under the lock.
Rejected calls change nothing and are the values for which an action is disabled.

**PolicyCache.** `deployed` is the history of `rules.json`, `cache[r]` the entry
of `PluginLoader._cache`, `tasks[t]` a request inside `load()` or holding the
plugin it returned. Requests share an event loop, so everything between two
awaits is one step: `Start` runs up to the first await, `Read` is the worker
thread that reads the file, `Finish` validates and stores it. A file that does
not parse and a file that does not validate are the same case.

**AuditChain.** The file is a sequence of records and fragments. Two constants say
which characters a record has: `NonAscii`, some of several bytes in UTF-8, and
`Splitting`, one of U+2028, U+2029 and U+0085, at which `str.splitlines()` splits and
which `json.dumps(ensure_ascii=False)` does not escape. A record of the latter kind does
not parse for either reader although it is whole (`Parses`), and a write that is cut
inside a character leaves a file that does not decode (`Decodable`): `_read_last_hash`
raises, and so does `verify_audit_chain` (`Raises`). `queue[p]` are the background
tasks, `job[p]` the one inside the lock, `last[p]` is `_last_hash`. The hash is what was hashed, so it is injective. A
write that fails may leave nothing, a fragment (which may end in half a character, or
behind a separator), the line without its newline or the whole line. Lines are
counted in records: up to the line that `verify_audit_chain` reports the two counts
agree. The steps are those between the awaits: taking the lock,
reading the last hash, appending.

**Decision.** `_evaluate` awaits twice, so `LoadPlugin` (or `LoadFails`),
`VerifyContext` and `Evaluate` are the steps; `Evaluate` is one expression,
`Evaluated`, whose names follow the engine's methods. `EvaluateRaises` is the
`TypeError` of a `proposed_action` that is a list or an object. Rules read the whole
request (`RuleData`), its confidence, intent, agent, source and metadata included, as
the code's dump of it allows. Scores are counted in
twentieths, because every constant of the engine (0.1, 0.25, 0.8, ...) is a multiple
of 1/20 and no rounding occurs. A path of a rule is a tuple; only `SignedContext` puts
values below `"verified"`. What pydantic accepts is stated as `InputAssumption`.

**HttpApi.** `conn[c]` is a connection, `windows` is `RateLimiter._windows`, `tasks`
are the background tasks. `Receive` is one `await receive()` of the middleware; the
handlers run without an await up to `Admit`, and `Answer` is where the awaited service
returned. A client that hangs up (`Disconnect`) starts the application with the part of
the body that came: a route that reads the body then fails (`BodyFails`), and reload,
which reads none, runs. The clock is `time` plus a `skew` that `SetClock` changes; a second has
`Ticks` steps, so that `int()` in `Retry-After` rounds. A webhook attempt is
refused or times out, with the record stored or not. The timeout of `httpx` is one of each
read and write, so the model has two halves of it: `Quiet` when the first goes by without
a byte, `TimedOut` when the second does, and `Trickle` when a byte arrives in between
and the timeout starts again.

**KeyRotation.** `env` is what a process finds in its environment when it starts,
`replica[r]` what it loaded: `AXG_PREVIOUS_PUBLIC_KEYS` is read at every use, but the
environment of a process does not change. `cache[v]` is the key set of a
`PyJWKClient`, `last` the verification made last, with the replica whose keys it
used. Key 0 is none; an ephemeral key is the next number. `RotateHalf` is a rotation
that leaves the old `AXG_PUBLIC_KEY` in place: tokens carry the kid of that key and
the signature of another, and are refused as `bad_signature`.

**McpGateway.** `calls[c]` is a request inside the gateway: received (`governed`), on
its way to the tool (`sent`), forwarded unseen (`passed`); or inside the tool: past
`jwt.decode` (`decoded`), and past the clock that `check_and_store` of the Python SDK
reads before it takes its lock (`clocked`). `dead` is the clock: all Passports have
one lifetime, so it counts how many have expired, and it may advance between any two of
these steps. `Run` is the rest of `check_and_store`, which purges by the clock that was
read, and the comparison of the arguments. The host is free: it may send a call again, with
a Passport it was given, and state the payload that came with it or another one.
`queue` is the table of the example, `worker[w]` a worker between its statements:
`Take` reads a pending row, `Exchange`, `Deny` and `RefuseTicket` are what comes of
its submission, `CloseRow` updates the row whatever its status. A payload value has a
kind and a number, so that `True == 1` holds in Python and not in canonical JSON text.

## 3. What the runs check

| Run | Bounds | Shows |
|---|---|---|
| `passport_approval` | 1 decision, 2 payloads, 2 people, 2 roles, 2 policies, 2 clients, 1 thread, lifetimes 1 and 2, clock 0..2 | `UseIsAuthorised`: executions trace back to an ALLOW or to an eligible human; `ReplacedPolicyStopsTicket`: a policy that is replaced before a submission stops its ticket |
| `passport_execution` | 1 decision, 2 threads on 1 cache, lifetimes 2 and 2, clock 0..3 | `SingleUseInWindow`, `RefusalHasCause`, the refinement `ImplementsAuthorisedUse`, and `PresentedIsUsed` under fairness |
| `policy_cache` | 1 replica, 2 requests, 2 labels, 3 deployments | `OnlyValidServed`, `QuietReloadTakesEffect`, `QuietReloadRevokes` |
| `audit_chain` | 2 processes, 3 records (plain, with wide characters, with a line separator), 2 faults | `BreakHasCause`: why `verify_audit_chain` may reject a file nobody edited; `LostHasCause`, `TamperEvident`, `VerifiedKept`, and `TasksEnd` under fairness |
| `decision` | 5 policies, some 3,700 requests and token sequences, 6 callers, 2 provider tables, 2 times, a key that works or not | `DecisionIsEarned`, `WayForward`, `StrictestRole`, `FactsGenuine`, `LessTrustNeverLaxer`, `DowngradeIsFlagged` |
| `http_api` | 2 connections, 3 requests of 10 kinds, 2 environments, window of 3 seconds of 2 ticks, 1 restart or clock change, 1 recorded request, 3 attempts | `BodyIntact`, `QuotaHolds`, `RefusalIsDue`, `AccessIsGranted`, `DeliveryHasCause`, and `AuditEnds` under fairness |
| `key_rotation` | 2 replicas, 1 verifier, 3 keys, 1 token, lifetimes 2 and 3, waiting time 2, clock 0..3 | `LiveTokenKnown`, `RefusalHasCause`, `WithdrawnKeyDies` |
| `mcp_gateway` | 2 concurrent calls, 3 tool calls, 6 kinds of message, 3 rewrites, 2 workers, 2 decisions, 2 Passports, 1 queue row, both SDKs | `RunsAsAuthorised`, `OncePerAuthorisation`, `DenialHolds`, `SpentHasCause` |

Why the bounds are enough. One decision suffices for the lifecycle because no
action relates two of them: entries of the replay cache, tickets and submissions
are kept per decision. Two threads are the fewest that race, and the clock
runs past the end of a Passport and of a ticket signed at its start, so that a ticket
signs a second Passport after the first expired. Three deployments allow a
policy to be replaced and a label to return; two requests are one that loads
while another is decided. That run has one replica, so tickets of a replica that was not
reloaded yet are left to the theorem `QuietRevocation`, which holds for any number.
Two processes show the handover and the overlap of a rolling restart; two faults show a fault after a fault, and the three records are
one of each kind of text. A decision depends on one
request only, so the run of `Decision` is an enumeration: every operator, every
precedence of two verdicts, every threshold from both sides and every
boundary of a token occur in it. Three requests on two connections fill a
quota of one and exceed it while another request waits; the body limit is met
exactly, by one chunk and by two. Three keys allow a rotation within a rotation;
one token suffices because tokens do not interact; the ticket outlives the waiting
time and the Passport does not. Three tool calls are one that gets a ticket and two
that race with its Passports; the same Passport does run twice there, by a call that was
decoded before it expired and stored after, and two workers do approve and deny one row. The theorems
of section 4 cover every larger instance of the safety properties.

`CHECK_DEADLOCK FALSE` appears where the bounded clock or the finite set of records
stops the system.

**Fairness.** `PresentedIsUsed` assumes that a thread which entered
`verify_passport` runs to its end: the function contains no wait but a lock held
for a few instructions. `TasksEnd` assumes that an audit task that can take the
lock does, and that a read or append that was started returns; nothing is
assumed of crashes, failed writes or the arrival of requests. `AuditEnds` assumes that
the event loop runs a background task and its timers: a collector that is quiet for the
whole timeout is given up. Nothing is assumed of the collector: it may never answer, and
the one way in which it keeps the task is named in the property, namely sending (or
taking) bytes for ever, each before the timeout of one read or write is over. A restart
may remove the task.

### Where the documentation and the code part

Four runs end in a counterexample, each to one sentence of the documentation.

| Run | Sentence | Behaviour found |
|---|---|---|
| `ticket_reused` | one approval authorizes one execution (`docs/approvals.md`) | the ticket outlives the Passport, and the replay cache forgets a jti when the Passport expires: the ticket yields a second usable Passport |
| `passport_at_expiry` | `replay_cache` rejects a Passport presented more than once (`verify_passport`) | a verification that decodes before the expiry and reaches the cache after it is accepted |
| `reload_race` | the next request reloads the policies (`docs/api.md`) | a load in flight at the reload puts the replaced policy back in the cache |
| `audit_torn_line` | each decision produces a record (`docs/api.md`) | one torn line makes later records disappear, for ever after a restart |

A file that nobody edited may be reported too. `BreakHasCause` lists when: a failed write
left bytes at that line or the one before, two processes that were up together wrote
them (`_last_hash` is per process, so they fork the chain), or the record has a character
at which `splitlines()` splits; and a write cut inside a character makes
`verify_audit_chain` raise instead of reporting a line. `TamperEvident` excludes the
removal of the last records, which leaves a shorter intact file.

Further places where the model follows the code and a sentence says something else. No
property contradicts them; the ones above them name the exception where it
matters.

| Sentence | Behaviour |
|---|---|
| `check` returns "the seconds until the window resets" (`limits.py:85`) | the rest of the window is truncated (`limits.py:96`): a caller that waits exactly that long may be refused once more; `RefusalIsDue` grants a second |
| a resolver that fell back asks for confirmation (`docs/concepts.md:76`) | a fallback scores 0.2, below the default threshold of 0.7 (`UncertaintyScore`) |
| an undeclared action is always CONFIRM (`docs/policies.md:95`) | only if no rule matches: an ALLOW rule that matches allows it; `DecisionIsEarned` requires a declared action only without a match |
| rotation without downtime: remove the old key after the Passport lifetime (`docs/passport.md:147`) | tickets live longer than Passports and are then refused; and a replica that was not restarted does not know the new key. `LiveTokenKnown` is stated for tokens that live no longer than the operator waits, at replicas that were rolled |
| a caller never learns anything about Passports of other apps (`docs/passport.md:137`) | an expired Passport, or one for another action or payload, is answered with that reason before its app is looked at (`api.py:184-189`); in `HttpApi` the claims never leave, which is what `AccessIsGranted` says |
| AXG unavailable -> ask, or deny with `AXG_HOOK_FAIL_MODE=deny` (`axg_pretooluse.py:9`, `integrations/claude_code/README.md:10`) | a connection that breaks while the answer is read, or an answer that is JSON but no object, is not among the exceptions of line 81: the hook ends with a traceback and Claude Code's normal permission flow decides, also in the mode `deny`. The hook is not modelled |
| `verify-audit` reports the first edited, deleted or reordered line (`docs/api.md:137`) | it also reports a line of a file in which nothing was edited, deleted or reordered, if a record holds U+2028, U+2029 or U+0085 (from any text of the request); a process that starts after such a record was written last drops its records, as after a torn line. `BreakHasCause` and `LostHasCause` name this cause |
| editing, deleting or reordering any record is detectable (`audit.py:36`) | not the deletion of the last ones |
| every argument identical in the payload (Python SDK, `verify_mcp_tool_call`) | Python's `==` equates `True` and `1`; `RunsAsAuthorised` asks for the same value only with the Node SDK |

More observations, none in conflict with a sentence: when the key is broken or
the caller anonymous, a lower confidence can turn the forced CONFIRM into SUGGEST, and a
policy may well give a lower confidence a laxer answer if its rules read the confidence
(`LessTrustNeverLaxer` names both exceptions: it compares confidences only where the
same rules match); a policy that is replaced while an approval awaits its load does not
stop that approval; the queue of the example lets a denied ticket be executed if another
worker had taken its row too (`DenialHolds`); and a policy rule whose audit flag is
`passport_signing_failed` suppresses the ticket (`WayForward`).

## 4. What is proved

Every safety property that a passing run checks is also a theorem: it holds for
every value of the constants that meets the assumptions below, whatever the number
of threads, replicas, processes, rules, tokens, chunks or requests.

| Module | Theorem | States |
|---|---|---|
| `PassportLifecycle_proofs` | `TypeCorrect` | `[]TypeOK` |
| | `SingleUse` | `[]SingleUseInWindow` |
| | `RefusalCause` | `[]RefusalHasCause` |
| | `EndToEnd` | `[]UseIsAuthorised` |
| | `PolicyStopsTicket` | `ReplacedPolicyStopsTicket` (a property of steps) |
| | `Refinement` | `ImplementsAuthorisedUse` |
| `PolicyCache_proofs` | `TypeCorrect` | `[]TypeOK` |
| | `QuietReload` | `[]QuietReloadTakesEffect` |
| | `QuietRevocation` | `[]QuietReloadRevokes` |
| | `ValidServed` | `[]OnlyValidServed` |
| `AuditChain_proofs` | `TypeCorrect` | `[]TypeOK` |
| | `BreakCause` | `[]BreakHasCause` |
| | `LossHasCause` | `[]LostHasCause` |
| | `VerifiedStays` | `VerifiedKept` (a property of steps) |
| | `Tampering` | `[]TamperEvident` |
| `KeyRotation_proofs` | `TypeCorrect` | `[]TypeOK` |
| | `RefusalCause` | `[]RefusalHasCause` |
| | `WithdrawnKey` | `[]WithdrawnKeyDies` |
| | `RotationKeepsTokens` | `[]LiveTokenKnown` |
| `McpGateway_proofs` | `TypeCorrect` | `[]TypeOK` |
| | `AuthorisedRuns` | `[]RunsAsAuthorised` |
| | `ExecutedOnce` | `[]OncePerAuthorisation` |
| | `SpentCause` | `[]SpentHasCause` |
| | `DenialKept` | `[]DenialHolds` |
| `HttpApi_proofs` | `TypeCorrect` | `[]TypeOK` |
| | `GrantedAccess` | `[]AccessIsGranted` |
| | `WholeBodies` | `[]BodyIntact` |
| | `DeliveryCause` | `[]DeliveryHasCause` |
| | `Quota` | `[]QuotaHolds` |
| | `RefusalDue` | `[]RefusalIsDue` |
| `Decision_proofs` | `TypeCorrect` | `[]TypeOK` |
| | `Earned` | `[]DecisionIsEarned` |
| | `Forward` | `[]WayForward` |
| | `RoleIsStrictest` | `[]StrictestRole` |
| | `Genuine` | `[]FactsGenuine` |
| | `NeverLaxer` | `[]LessTrustNeverLaxer` |
| | `Downgrade` | `[]DowngradeIsFlagged` |

**Assumptions.** They are named in the module that declares the constants, and TLC
evaluates each of them on the instance of its run.

| Assumption | Says | Why |
|---|---|---|
| `TimeAssumption`, `AuditAssumption`, `PolicyCacheAssumption`, `KeyAssumption`, `LeewayAssumption` | lifetimes, periods and bounds are natural numbers (at least one policy version; split records have wide characters) | they are integers in the code, and bounds of the model |
| `SetAssumption` | a thread has one replay cache; approving clients are clients; the end user is a role | the SDK is given one cache |
| `NoneAssumption` (twice), `NoValueAssumption` (twice) | the absent value is none of the values it stands in for | `None` is neither a string nor an object |
| `GatewayAssumption` | a message is a tool call, a batch or another one | the branches of the gateway |
| `ApiAssumption` | a window and a second have a length, a body has chunks, and a declared length is that of the body | the HTTP server reads as many bytes as `Content-Length` says |
| `InputAssumption` | policies and requests are such as pydantic accepts; provider tables and rules are lists; dates are integers | `models.py`, and PyJWT for the dates |

**The arguments.** Each invariant below is inductive together with the types.

*Single use.* A cache may accept a jti only if its entry has expired, so the
invariant must tie the entry to the past: for every accepted use, either the entry
of its jti is at least as late as that Passport's expiry, or the Passport has
expired. The clock that a thread read may be old by the time it takes the lock;
the second part of the invariant bounds it by the present.

*From decision to execution.* `AuthInv` follows a grant through the tokens: a ticket
has the payload, the people and the policy of its decision; a submission past its
checks holds such a ticket and an eligible approver; a Passport comes from an ALLOW
or from such a submission; a thread that verifies holds a Passport that was
signed. `UseIsAuthorised` reads this at the end of the chain, and the refinement maps a
conclusion or an approval to the abstract grant, the acceptance by a cache to the
abstract use, and everything else to a stutter; `SingleUse` gives the guard of the
abstract use.

*Reload.* A reload is quiet if no load of the replica is in flight. After a quiet
reload the cache of the replica is empty or holds a version at least as new as
the reload, and so does every file read on its way into it; a read is never older
than the reload its request saw. An accepted approval names a version of the cache
whose label is the ticket's; deployments are only appended, so the version keeps
existing. `ValidServed` looks at where a version comes from: it was served before, or
was read by a request and passed validation.

*Replaced policy.* The label is read in one step and compared in another, so the guard of
`SubmitApprove` says nothing of the present policy. `WindowInv` ties the label that was
read to those in force since the ticket was verified.

*Chain.* `IInv` explains each line by the one before it (`LineCaused`): what is no whole
record was left by a failed write, and a record that does not continue its predecessor
follows a line that was left so, that does not parse, or that a process wrote which was up
at the same time. `KnowsEnd` is the same relation between the last line and the hash
that a process remembers. The first line that `verify_audit_chain` rejects then has one
of these causes (`CausedBreak`). For lost records the invariant accounts for every answered
decision as long as no failed write left bytes and nothing in the file is split: it is
queued, in the lock, in the file or has failed. `VerifiedStays` needs no invariant but
the types: a write changes at most the last line, and only one without its newline.
`Tampering` is about any intact file: the hash of a line determines all lines before it,
so the first line that differs does not chain.

*Keys.* `KeyInv` ties the environment to the past: no running replica signs with
a key that left it unrevoked, and the tokens of such a key that live no longer than the
operator waits have expired; a replica that was rolled knows the key if it is
still in the environment. `RotationKeepsTokens` follows (`KnownWhileLive`), and from it
`RefusalCause`: the replica whose keys lacked that of a live token was not rolled.
For `WithdrawnKey`, the date at which a key was last published is
not before that of any key set that has it.

*Gateway.* `FlowInv` says what each call, worker and queue row refers to: a forwarded
call has a Passport of the host that covers its arguments, or the one its own decision came
with, for the payload the rules made of them; that one is in no queue. `UseInv` is that of
single use with tool threads of this model: a Passport that ran stays in the replay cache
as long as it lives, because no thread's clock is ahead of the present. `RowInv` is about
the queue: `Take` reads pending rows only, so a worker whose row was closed meanwhile
shared it with another one, and the row is contested.

*HTTP.* Access: the caller of a connection is what `resolve_caller` found in the
configuration of the process, and is past the checks of its handler once something was
done for it. Bodies: what was received is the sum of the chunks so far, which only
grows, so that a body is over the limit as soon as one of its prefixes is; a handler that
reads it has come past `BodyFails`, and so has all the chunks.
Delivery: every copy but the last is one whose answer was lost. Quota: the count of a
caller's window is at most the limit, at least the number of its requests there since the
last reset and at most the number ever; no request since then is in a later window; the bound
for any time of that length follows because it meets two windows.

*Decision.* The invariant is what a step of `_evaluate` has established of the inputs
(`StateInv`), and the work is in the operators. The matched rules are at increasing places
of the policy (`PickedPlaces`); sorted by strictness, one rule comes before another if it
is stricter or as strict and earlier (`SortedRules`), so the first with a role is the
one `StrictestRole` names. The decision is the strictest of the grounds; fewer
permissions only add grounds, and a lower confidence leaves them as they are while the
same rules match (`TwinGrounds`); without grounds it lowers no verdict. The facts after n tokens are those of the first
valid token of each provider among them (`FactsStep`).

*Recursion.* The induction theorems of the library take an operator as a parameter, which
the provers cannot instantiate. `Recursion_proofs` goes around this: `RangeInduction`
is induction for a *set* of numbers that holds 0 and each successor up to a bound, and
`RangeRecursion` says that a function defined on `0 .. n` by a step exists and obeys its
equation. From them follow what `Total` and `Picked` compute, and what
`SignedContext!AcceptedSoFar` computes.

TLC has checked each of these invariants on the instance of its module's run.

*Only model-checked:* the liveness properties `PresentedIsUsed`, `TasksEnd` and
`AuditEnds`, since fairness is beyond the proof system's reach; and the four
counterexamples. The fold in `ActionablePayload` (the fields that rules add to a payload)
stays unexpanded in the proofs: no property depends on which fields it adds.

## 5. What is abstracted

* Signatures cannot be forged and hashes do not collide: a token exists only if
  AXG signed it, a payload hash stands for the payload.
* The verdict of the engine is a choice in `PassportLifecycle` and `McpGateway`; `Decision`
  computes it.
* One app, tenant, action and plugin in `PassportLifecycle`: their comparison is the same
  test on each.
* Regular expressions, texts and reasons are values; a nested field is its path.
* `HttpApi` takes requests that parse: a body that pydantic rejects is answered before
  the handler and changes nothing, and an `AXG_CLIENTS` that does not parse is an error
  at every request.
* The memory of the rate limiter is not bounded by the code and not by the model: one
  entry for each caller.
* Two SDK differences that no enforcement point exercises: an empty list of allowed
  actions is no restriction in Python and refuses everything in Node, and the Node
  SDK fetches the key set for every call. `verify_mcp_tool_call` always passes one action.
* In `McpGateway` a tool runs at most once for a call that was forwarded: HTTP does not
  repeat a POST. A call whose answer is lost is the same as one that was answered.
* All hosts share one clock in `PassportLifecycle`.
* The characters of an audit line are those of two kinds that matter; a line is appended
  by one write.
* Remote policies differ from files only in where the bytes come from; the allow-list
  and the address checks are pure functions of the URL and are not modelled.

## 6. Plan

The components that carry the behaviour are modelled, and their safety properties are
proved. What is left, in the order of what matters most:

1. Stronger theorems on the same models: that the exceptions which the properties name are
   the only ones. Examples: `Decision` gives the same answer to requests that differ only
   in what no rule reads; the second Passport of a ticket (`ticket_reused`) is the only
   way in which a decision is executed twice through one cache.
2. A refinement of `PassportLifecycle` or of `AuthorisedUse` by `McpGateway`: its `passports`,
   `seen` and `ran` are those of one executor.
3. An instance of `PolicyCache` with two replicas that TLC can exhaust.

**Not modelled, and why.** Telemetry writes spans and metrics that nothing reads
back. The command line and the schema generation are argument parsing and file output
around modelled functions. Canonical JSON is the formatting of values: the models use
only that equal payloads have equal hashes and different ones different hashes.
Policy data are parameters of `Decision`. The allow-list and address checks of remote
policies, and the parsing of `AXG_CLIENTS` and of the provider table, are pure
functions of text. The Claude Code hook and the .NET backend map one answer of AXG, or a
failure, to one outcome, without state or steps: a model would be the table of their cases
(the table above says where the hook departs from its own documentation).
