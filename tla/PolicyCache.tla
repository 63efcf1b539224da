----------------------------- MODULE PolicyCache -----------------------------
(***************************************************************************)
(* PluginLoader: the in-memory policy cache of each AXG replica, the       *)
(* requests that load through it, deployments of new policy versions, and  *)
(* POST /v1/plugins/reload.                                                *)
(*                                                                         *)
(* A replica runs its requests on one event loop: what happens between two *)
(* awaits is one step.  load() awaits only on a cache miss, while a worker *)
(* thread reads the file (or the remote server answers).  All requests are *)
(* about one plugin id: the entries of the dictionary are independent.     *)
(* A version is its position in the sequence of deployments.  A label      *)
(* stands for one content, since a change bumps it (docs/policies.md); a   *)
(* rollback deploys an earlier label again.                                *)
(***************************************************************************)
EXTENDS Naturals, Sequences

CONSTANTS
  Replicas,      \* AXG processes, each with its own cache
  Tasks,         \* requests in flight
  Labels,        \* values of plugin.version_label
  MaxVersions,   \* bound on the number of deployments
  None           \* an absent value

ASSUME PolicyCacheAssumption == MaxVersions \in Nat \ {0}

\* What a reader finds on disk: a valid policy, anything that fails to parse
\* or validate (a half-written file included), or no file.
States == {"valid", "broken", "absent"}

Deployment == [label : Labels, state : States]

\* floor and quiet are history: the last reload of the replica when the
\* request started, and whether no load was in flight then.
Task == [replica : Replicas, kind : {"decide", "approve"}, ticket : Nat,
         pc : {"loading", "read", "loaded"}, got : Nat,
         floor : Nat, quiet : BOOLEAN]

Approval == [ticket : Nat, used : Nat, floor : Nat, quiet : BOOLEAN]

VARIABLES
  deployed,  \* the versions of rules.json, the current one last
  cache,     \* cache[r]: the cached version, 0 if there is none
  tasks,     \* tasks[t]: a request, None if the slot is free
  reloaded,  \* reloaded[r]: the current version at the last reload of r
  quiet,     \* quiet[r]: no load of r was in flight at that reload
  tickets,   \* the versions that signed an approval ticket
  approved   \* history: the last approval that passed _check_policy

vars == <<deployed, cache, tasks, reloaded, quiet, tickets, approved>>

TypeOK ==
  /\ deployed \in Seq(Deployment)
  /\ cache \in [Replicas -> Nat]
  /\ tasks \in [Tasks -> Task \cup {None}]
  /\ reloaded \in [Replicas -> Nat]
  /\ quiet \in [Replicas -> BOOLEAN]
  /\ tickets \subseteq Nat
  /\ approved \in Approval \cup {None}

Current == Len(deployed)

Init ==
  /\ \E l \in Labels : deployed = <<[label |-> l, state |-> "valid"]>>
  /\ cache = [r \in Replicas |-> 0]
  /\ tasks = [t \in Tasks |-> None]
  /\ reloaded = [r \in Replicas |-> 0]
  /\ quiet = [r \in Replicas |-> TRUE]
  /\ tickets = {}
  /\ approved = None

-----------------------------------------------------------------------------
(* Operators. *)

Deploy(l, s) ==
  /\ Current < MaxVersions
  /\ deployed' = Append(deployed, [label |-> l, state |-> s])
  /\ UNCHANGED <<cache, tasks, reloaded, quiet, tickets, approved>>

OnReplica(t, r) == tasks[t] # None /\ tasks[t].replica = r

Loading(t) == tasks[t].pc \in {"loading", "read"}

\* Mutant of Reload: the cached policy survives the reload.
ReloadKeepsCache(r) ==
  /\ reloaded' = [reloaded EXCEPT ![r] = Current]
  /\ quiet' = [quiet EXCEPT ![r] = \A t \in Tasks : OnReplica(t, r) => ~Loading(t)]
  /\ UNCHANGED <<deployed, cache, tasks, tickets, approved>>

Reload(r) ==
  /\ cache' = [cache EXCEPT ![r] = 0]
  /\ reloaded' = [reloaded EXCEPT ![r] = Current]
  /\ quiet' = [quiet EXCEPT ![r] = \A t \in Tasks : OnReplica(t, r) => ~Loading(t)]
  /\ UNCHANGED <<deployed, tasks, tickets, approved>>

\* Rolling the deployment: the process ends with its requests, a new one starts.
Restart(r) ==
  /\ cache' = [cache EXCEPT ![r] = 0]
  /\ tasks' = [t \in Tasks |-> IF OnReplica(t, r) THEN None ELSE tasks[t]]
  /\ reloaded' = [reloaded EXCEPT ![r] = Current]
  /\ quiet' = [quiet EXCEPT ![r] = TRUE]
  /\ UNCHANGED <<deployed, tickets, approved>>

-----------------------------------------------------------------------------
(* Requests. *)

Label(v) == deployed[v].label

Accept(task, v) ==
  approved' = [ticket |-> task.ticket, used |-> v,
               floor |-> task.floor, quiet |-> task.quiet]

\* Mutant of CheckPolicy: a policy that loads is enough.
CheckPolicyAny(task, v) == Accept(task, v)

\* ApprovalService._check_policy, without an await between it and load().
CheckPolicy(task, v) ==
  IF Label(v) = Label(task.ticket) THEN Accept(task, v) ELSE UNCHANGED approved

\* load() returned version v: an approval is answered at once, a decision may
\* still wait for a context provider.
Loaded(t, task, v) ==
  IF task.kind = "approve"
  THEN CheckPolicy(task, v) /\ tasks' = [tasks EXCEPT ![t] = None]
  ELSE /\ tasks' = [tasks EXCEPT ![t] = [task EXCEPT !.pc = "loaded", !.got = v]]
       /\ UNCHANGED approved

\* Mutant of NewTask: a request starts with no version at all.
NewTaskNoVersion(r, kind, ticket) ==
  [replica |-> r, kind |-> kind, ticket |-> ticket, pc |-> "loading",
   got |-> None, floor |-> reloaded[r], quiet |-> quiet[r]]

NewTask(r, kind, ticket) ==
  [replica |-> r, kind |-> kind, ticket |-> ticket, pc |-> "loading",
   got |-> 0, floor |-> reloaded[r], quiet |-> quiet[r]]

\* load() up to its first await.  A missing file is reported before any.
Start(t, r, kind, ticket) ==
  LET task == NewTask(r, kind, ticket) IN
  /\ tasks[t] = None
  /\ IF kind = "approve" THEN ticket \in tickets ELSE ticket = 0
  /\ \/ /\ cache[r] # 0
        /\ Loaded(t, task, cache[r])
     \/ /\ cache[r] = 0
        /\ deployed[Current].state # "absent"
        /\ tasks' = [tasks EXCEPT ![t] = task]
        /\ UNCHANGED approved
  /\ UNCHANGED <<deployed, cache, reloaded, quiet, tickets>>

\* The worker thread reads the file.
Read(t) ==
  /\ tasks[t] # None /\ tasks[t].pc = "loading"
  /\ tasks' = [tasks EXCEPT ![t].pc = "read", ![t].got = Current]
  /\ UNCHANGED <<deployed, cache, reloaded, quiet, tickets, approved>>

\* Mutant of Finish: an invalid policy stays in the cache.
FinishCachesAny(t) ==
  LET task == tasks[t] IN
  /\ task # None /\ task.pc = "read"
  /\ cache' = [cache EXCEPT ![task.replica] = task.got]
  /\ Loaded(t, task, task.got)
  /\ UNCHANGED <<deployed, reloaded, quiet, tickets>>

\* Back on the event loop: validate, store, return.  An invalid policy is an
\* error of this request (fail-safe CONFIRM, or 409) and is not cached.
Finish(t) ==
  LET task == tasks[t] IN
  /\ task # None /\ task.pc = "read"
  /\ \/ /\ deployed[task.got].state = "valid"
        /\ cache' = [cache EXCEPT ![task.replica] = task.got]
        /\ Loaded(t, task, task.got)
     \/ /\ deployed[task.got].state # "valid"
        /\ tasks' = [tasks EXCEPT ![t] = None]
        /\ UNCHANGED <<cache, approved>>
  /\ UNCHANGED <<deployed, reloaded, quiet, tickets>>

\* The decision is taken with the plugin object the request holds.
Decide(t) ==
  /\ tasks[t] # None /\ tasks[t].pc = "loaded"
  /\ tickets' = tickets \cup {tasks[t].got}
  /\ tasks' = [tasks EXCEPT ![t] = None]
  /\ UNCHANGED <<deployed, cache, reloaded, quiet, approved>>

Next ==
  \/ \E l \in Labels, s \in States : Deploy(l, s)
  \/ \E r \in Replicas : Reload(r) \/ Restart(r)
  \/ \E t \in Tasks :
       \/ \E r \in Replicas, kind \in {"decide", "approve"},
             ticket \in tickets \cup {0} : Start(t, r, kind, ticket)
       \/ Read(t)
       \/ Finish(t)
       \/ Decide(t)

Spec == Init /\ [][Next]_vars

-----------------------------------------------------------------------------
(* Properties. *)

\* Only a version that was valid when it was read is ever cached or decided
\* with: a broken deployment fails requests, it does not replace the policy.
OnlyValidServed ==
  /\ \A r \in Replicas : cache[r] # 0 => deployed[cache[r]].state = "valid"
  /\ \A t \in Tasks :
       (tasks[t] # None /\ tasks[t].pc = "loaded")
         => deployed[tasks[t].got].state = "valid"

\* A request that starts after a reload is decided with the version of that
\* reload or a later one, provided no load was in flight at the reload.
QuietReloadTakesEffect ==
  \A t \in Tasks :
    (tasks[t] # None /\ tasks[t].pc = "loaded" /\ tasks[t].quiet)
      => tasks[t].got >= tasks[t].floor

\* A quiet reload revokes the tickets of the policies it replaced: a ticket is
\* accepted only if its policy was deployed at the reload or has been since.
QuietReloadRevokes ==
  (approved # None /\ approved.quiet) =>
    \E v \in approved.floor..Current :
      v # 0 /\ Label(v) = Label(approved.ticket)

\* "Drop cached policies so the next request reloads them" (docs/api.md): a
\* load that was in flight at the reload puts the old policy back.
ReloadTakesEffect ==
  \A t \in Tasks :
    (tasks[t] # None /\ tasks[t].pc = "loaded") => tasks[t].got >= tasks[t].floor

=============================================================================
