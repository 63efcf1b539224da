-------------------------- MODULE PolicyCache_proofs --------------------------
(***************************************************************************)
(* Theorems about PolicyCache, for any number of replicas, requests,       *)
(* labels and deployments.                                                 *)
(***************************************************************************)
EXTENDS PolicyCache, TLAPS

(***************************************************************************)
(* Type correctness, one lemma per action.                                 *)
(***************************************************************************)

LEMMA LengthType ==
  ASSUME TypeOK
  PROVE  Current \in Nat
BY DEF TypeOK, Current

LEMMA LoadedType ==
  ASSUME TypeOK, NEW t \in Tasks, NEW task \in Task, NEW v \in Nat,
         Loaded(t, task, v)
  PROVE  tasks' \in [Tasks -> Task \cup {None}] /\ approved' \in Approval \cup {None}
<1>1. CASE task.kind = "approve"
  <2>1. CheckPolicy(task, v) /\ tasks' = [tasks EXCEPT ![t] = None]
    BY <1>1 DEF Loaded
  <2>2. CASE Label(v) = Label(task.ticket)
    BY <2>1, <2>2 DEF CheckPolicy, Accept, Approval, Task, TypeOK
  <2>3. CASE Label(v) # Label(task.ticket)
    BY <2>1, <2>3 DEF CheckPolicy, TypeOK
  <2>4. QED
    BY <2>2, <2>3
<1>2. CASE task.kind # "approve"
  <2>1. [task EXCEPT !.pc = "loaded", !.got = v] \in Task
    BY DEF Task
  <2>2. QED
    BY <1>2, <2>1 DEF Loaded, TypeOK
<1>3. QED
  BY <1>1, <1>2

LEMMA NewTaskType ==
  ASSUME TypeOK, NEW r \in Replicas, NEW kind \in {"decide", "approve"},
         NEW ticket \in Nat
  PROVE  NewTask(r, kind, ticket) \in Task
BY DEF NewTask, Task, TypeOK

LEMMA StartType ==
  ASSUME TypeOK, NEW t \in Tasks, NEW r \in Replicas,
         NEW kind \in {"decide", "approve"}, NEW ticket \in tickets \cup {0},
         Start(t, r, kind, ticket)
  PROVE  TypeOK'
<1> DEFINE task == NewTask(r, kind, ticket)
<1>1. task \in Task
  BY NewTaskType DEF TypeOK
<1>2. tasks' \in [Tasks -> Task \cup {None}] /\ approved' \in Approval \cup {None}
  <2>1. CASE Loaded(t, task, cache[r])
    <3>1. cache[r] \in Nat
      BY DEF TypeOK
    <3>2. QED
      BY <1>1, <2>1, <3>1, LoadedType
  <2>2. CASE tasks' = [tasks EXCEPT ![t] = task] /\ UNCHANGED approved
    BY <1>1, <2>2 DEF TypeOK
  <2>3. QED
    BY <2>1, <2>2 DEF Start
<1>3. QED
  BY <1>2 DEF Start, TypeOK

LEMMA ReadType ==
  ASSUME TypeOK, NEW t \in Tasks, Read(t)
  PROVE  TypeOK'
<1>1. tasks[t] \in Task /\ Current \in Nat
  BY LengthType DEF TypeOK, Read
<1>2. [tasks[t] EXCEPT !.pc = "read", !.got = Current] \in Task
  BY <1>1 DEF Task
<1>3. tasks' \in [Tasks -> Task \cup {None}]
  BY <1>2 DEF Read, TypeOK
<1>4. QED
  BY <1>3 DEF Read, TypeOK

LEMMA FinishType ==
  ASSUME TypeOK, NEW t \in Tasks, Finish(t)
  PROVE  TypeOK'
<1>1. tasks[t] \in Task
  BY DEF TypeOK, Finish
<1>2. tasks[t].got \in Nat /\ tasks[t].replica \in Replicas
  BY <1>1 DEF Task
<1>3. CASE /\ cache' = [cache EXCEPT ![tasks[t].replica] = tasks[t].got]
           /\ Loaded(t, tasks[t], tasks[t].got)
  BY <1>1, <1>2, <1>3, LoadedType DEF Finish, TypeOK
<1>4. CASE tasks' = [tasks EXCEPT ![t] = None] /\ UNCHANGED <<cache, approved>>
  BY <1>4 DEF Finish, TypeOK
<1>5. QED
  BY <1>3, <1>4 DEF Finish

LEMMA TypeStep ==
  ASSUME TypeOK, [Next]_vars
  PROVE  TypeOK'
<1>1. ASSUME NEW l \in Labels, NEW s \in States, Deploy(l, s)
      PROVE  TypeOK'
  <2>1. [label |-> l, state |-> s] \in Deployment
    BY DEF Deployment
  <2>2. deployed' \in Seq(Deployment)
    BY <1>1, <2>1 DEF Deploy, TypeOK
  <2>3. QED
    BY <1>1, <2>2 DEF Deploy, TypeOK
<1>2. ASSUME NEW r \in Replicas, Reload(r)
      PROVE  TypeOK'
  BY <1>2, LengthType DEF Reload, TypeOK
<1>3. ASSUME NEW r \in Replicas, Restart(r)
      PROVE  TypeOK'
  BY <1>3, LengthType DEF Restart, TypeOK
<1>4. ASSUME NEW t \in Tasks, Decide(t)
      PROVE  TypeOK'
  <2>1. tasks[t] \in Task
    BY <1>4 DEF Decide, TypeOK
  <2>2. tasks[t].got \in Nat
    BY <2>1 DEF Task
  <2>3. QED
    BY <1>4, <2>2 DEF Decide, TypeOK
<1>5. CASE UNCHANGED vars
  BY <1>5 DEF vars, TypeOK
<1>6. QED
  BY <1>1, <1>2, <1>3, <1>4, <1>5, StartType, ReadType, FinishType DEF Next

\* The cache, the requests and the history keep their types: the state of
\* PluginLoader and of the requests that load through it.
THEOREM TypeCorrect == Spec => []TypeOK
<1>1. Init => TypeOK
  <2>1. \A l \in Labels : [label |-> l, state |-> "valid"] \in Deployment
    BY DEF Deployment, States
  <2>2. QED
    BY <2>1 DEF Init, TypeOK
<1>2. QED
  BY <1>1, TypeStep, PTL DEF Spec

(***************************************************************************)
(* The inductive invariant behind the two theorems about reloads.          *)
(***************************************************************************)

\* Every version the state mentions has been deployed.
Versions ==
  /\ Current >= 1
  /\ tickets \subseteq 1..Current
  /\ \A r \in Replicas : cache[r] <= Current /\ reloaded[r] <= Current

\* So has every version a request mentions.
TaskVersions ==
  \A t \in Tasks : tasks[t] # None =>
    /\ tasks[t].floor <= Current /\ tasks[t].got <= Current
    /\ tasks[t].pc # "loading" => tasks[t].got >= 1
    /\ tasks[t].kind = "approve" => tasks[t].ticket \in tickets

\* After a quiet reload nothing older than the version of the reload is in the
\* cache, nor on its way into it.
QuietCache ==
  \A r \in Replicas : quiet[r] =>
    /\ cache[r] = 0 \/ cache[r] >= reloaded[r]
    /\ \A t \in Tasks :
         (OnReplica(t, r) /\ tasks[t].pc = "read") => tasks[t].got >= reloaded[r]

\* A file that is read is at least as new as the reload the request saw.
ReadAfterFloor ==
  \A t \in Tasks :
    (tasks[t] # None /\ tasks[t].pc = "read") => tasks[t].got >= tasks[t].floor

\* The versions in the history of the last approval have been deployed.
ApprovedDeployed ==
  (approved # None) => approved.ticket \in 1..Current /\ approved.floor <= Current

TaskInv == TaskVersions /\ ReadAfterFloor /\ QuietReloadTakesEffect

ApprovedInv == ApprovedDeployed /\ QuietReloadRevokes

IInv == TypeOK /\ Versions /\ TaskInv /\ QuietCache /\ ApprovedInv

-----------------------------------------------------------------------------
\* load() returns a version of the current deployments or an earlier one.
LEMMA AcceptStep ==
  ASSUME IInv, NEW task \in Task, NEW v \in 1..Current,
         task.ticket \in tickets, task.floor <= Current,
         task.quiet => v >= task.floor,
         CheckPolicy(task, v), UNCHANGED deployed
  PROVE  ApprovedInv'
<1>1. Current \in Nat /\ Current' = Current
  BY LengthType DEF IInv, Current
<1>2. CASE Label(v) = Label(task.ticket)
  <2> DEFINE next == [ticket |-> task.ticket, used |-> v,
                      floor |-> task.floor, quiet |-> task.quiet]
  <2>1. approved' = next
    BY <1>2 DEF CheckPolicy, Accept
  <2>2. task.ticket \in 1..Current /\ task.floor \in Nat
    BY DEF IInv, Versions, Task
  <2>3. ApprovedDeployed'
    BY <1>1, <2>1, <2>2 DEF ApprovedDeployed
  <2>4. ASSUME task.quiet
        PROVE  v \in task.floor..Current /\ v # 0 /\ Label(v)' = Label(task.ticket)'
    BY <1>1, <1>2, <2>2, <2>4 DEF Label
  <2>5. QuietReloadRevokes'
    BY <1>1, <2>1, <2>4 DEF QuietReloadRevokes
  <2>6. QED
    BY <2>3, <2>5 DEF ApprovedInv
<1>3. CASE Label(v) # Label(task.ticket)
  <2>1. UNCHANGED <<approved, deployed>>
    BY <1>3 DEF CheckPolicy
  <2>2. QED
    BY <2>1 DEF IInv, ApprovedInv, ApprovedDeployed, QuietReloadRevokes, Current, Label
<1>4. QED
  BY <1>2, <1>3

LEMMA LoadedStep ==
  ASSUME IInv, NEW t \in Tasks, NEW task \in Task, NEW v \in 1..Current,
         task.kind = "approve" => task.ticket \in tickets,
         task.floor <= Current,
         task.quiet => v >= task.floor,
         Loaded(t, task, v), UNCHANGED <<deployed, tickets>>
  PROVE  /\ TaskInv' /\ ApprovedInv'
         /\ tasks'[t] # None => tasks'[t].pc = "loaded"
         /\ \A s \in Tasks \ {t} : tasks'[s] = tasks[s]
<1>1. Current \in Nat /\ Current' = Current /\ tasks \in [Tasks -> Task \cup {None}]
  BY LengthType DEF IInv, Current, TypeOK
<1>2. CASE task.kind = "approve"
  <2>1. CheckPolicy(task, v) /\ tasks' = [tasks EXCEPT ![t] = None]
    BY <1>2 DEF Loaded
  <2>2. ApprovedInv'
    BY <1>2, <2>1, AcceptStep
  <2>3. TaskInv'
    BY <1>1, <2>1 DEF IInv, TaskInv, TaskVersions, ReadAfterFloor, QuietReloadTakesEffect
  <2>4. QED
    BY <1>1, <2>1, <2>2, <2>3
<1>3. CASE task.kind # "approve"
  <2> DEFINE next == [task EXCEPT !.pc = "loaded", !.got = v]
  <2>1. tasks' = [tasks EXCEPT ![t] = next] /\ UNCHANGED approved
    BY <1>3 DEF Loaded
  <2>2. /\ next.pc = "loaded" /\ next.got = v /\ next.floor = task.floor
        /\ next.kind = task.kind /\ next.quiet = task.quiet
    BY DEF Task
  <2>3. tasks'[t] = next /\ \A s \in Tasks \ {t} : tasks'[s] = tasks[s]
    BY <1>1, <2>1
  <2>4. TaskInv'
    <3> HIDE DEF next
    <3>1. TaskVersions'
      BY <1>1, <1>3, <2>2, <2>3 DEF IInv, TaskInv, TaskVersions
    <3>2. ReadAfterFloor'
      BY <2>2, <2>3 DEF IInv, TaskInv, ReadAfterFloor
    <3>3. QuietReloadTakesEffect'
      BY <2>2, <2>3 DEF IInv, TaskInv, QuietReloadTakesEffect
    <3>4. QED
      BY <3>1, <3>2, <3>3 DEF TaskInv
  <2>5. ApprovedInv'
    BY <2>1 DEF IInv, ApprovedInv, ApprovedDeployed, QuietReloadRevokes, Current, Label
  <2>6. QED
    BY <2>2, <2>3, <2>4, <2>5
<1>4. QED
  BY <1>2, <1>3

-----------------------------------------------------------------------------
(* One lemma per action: the invariant is preserved.                         *)

LEMMA DeployStep ==
  ASSUME IInv, NEW l \in Labels, NEW s \in States, Deploy(l, s)
  PROVE  IInv'
<1>1. /\ Current \in Nat /\ Current' = Current + 1
      /\ \A v \in 1..Current : Label(v)' = Label(v)
  BY LengthType DEF IInv, TypeOK, Current, Deploy, Label
<1>2. UNCHANGED <<cache, tasks, reloaded, quiet, tickets, approved>>
  BY DEF Deploy
<1>3. TypeOK'
  BY TypeStep DEF IInv, Next
<1>4. Versions'
  BY <1>1, <1>2 DEF IInv, TypeOK, Versions
<1>5. TaskInv'
  <2>1. \A t \in Tasks : tasks[t] # None => tasks[t].floor \in Nat /\ tasks[t].got \in Nat
    BY DEF IInv, TypeOK, Task
  <2>2. QED
    BY <1>1, <1>2, <2>1
       DEF IInv, TaskInv, TaskVersions, ReadAfterFloor, QuietReloadTakesEffect
<1>6. QuietCache'
  BY <1>2 DEF IInv, QuietCache, OnReplica
<1>7. ApprovedInv'
  <2>1. ASSUME approved # None
        PROVE  /\ approved.ticket \in 1..Current /\ approved.floor \in Nat
               /\ approved.floor <= Current
    BY <2>1 DEF IInv, ApprovedInv, ApprovedDeployed, TypeOK, Approval
  <2>2. ApprovedDeployed'
    BY <1>1, <1>2, <2>1 DEF ApprovedDeployed
  <2>3. ASSUME approved # None, approved.quiet
        PROVE  \E v \in approved.floor..Current' :
                 v # 0 /\ Label(v)' = Label(approved.ticket)'
    <3>1. PICK v \in approved.floor..Current :
            v # 0 /\ Label(v) = Label(approved.ticket)
      BY <2>3 DEF IInv, ApprovedInv, QuietReloadRevokes
    <3>2. v \in 1..Current /\ v \in approved.floor..Current'
      BY <1>1, <2>1, <2>3, <3>1
    <3>3. Label(approved.ticket)' = Label(approved.ticket) /\ Label(v)' = Label(v)
      BY <1>1, <1>2, <2>1, <2>3, <3>2 DEF Label
    <3>4. QED
      BY <3>1, <3>2, <3>3
  <2>4. QED
    BY <1>2, <2>2, <2>3 DEF ApprovedInv, QuietReloadRevokes
<1>8. QED
  BY <1>3, <1>4, <1>5, <1>6, <1>7 DEF IInv

\* An action that leaves the deployments and the approvals alone.
LEMMA ApprovedFrame ==
  ASSUME IInv, UNCHANGED <<deployed, approved>>
  PROVE  ApprovedInv'
BY DEF IInv, ApprovedInv, ApprovedDeployed, QuietReloadRevokes, Current, Label

LEMMA ReloadStep ==
  ASSUME IInv, NEW r \in Replicas, Reload(r)
  PROVE  IInv'
<1>1. Current \in Nat /\ Current' = Current /\ UNCHANGED <<deployed, tasks, tickets, approved>>
  BY LengthType DEF IInv, Current, Reload
<1>2. TypeOK'
  BY TypeStep DEF IInv, Next
<1>3. Versions'
  BY <1>1 DEF IInv, TypeOK, Versions, Reload
<1>4. TaskInv'
  BY <1>1 DEF IInv, TaskInv, TaskVersions, ReadAfterFloor, QuietReloadTakesEffect
<1>5. QuietCache'
  <2>1. ASSUME NEW q \in Replicas, quiet'[q], q # r
        PROVE  quiet[q] /\ cache'[q] = cache[q] /\ reloaded'[q] = reloaded[q]
    BY <2>1 DEF IInv, TypeOK, Reload
  <2>2. quiet'[r] => \A t \in Tasks : OnReplica(t, r) => tasks[t].pc # "read"
    BY DEF IInv, TypeOK, Reload, Loading
  <2>3. cache'[r] = 0
    BY DEF IInv, TypeOK, Reload
  <2>4. ASSUME NEW q \in Replicas, quiet'[q]
        PROVE  /\ cache'[q] = 0 \/ cache'[q] >= reloaded'[q]
               /\ \A t \in Tasks : (OnReplica(t, q) /\ tasks[t].pc = "read")
                                     => tasks[t].got >= reloaded'[q]
    BY <2>1, <2>2, <2>3, <2>4 DEF IInv, QuietCache
  <2>5. QED
    BY <1>1, <2>4 DEF QuietCache, OnReplica
<1>6. QED
  BY <1>1, <1>2, <1>3, <1>4, <1>5, ApprovedFrame DEF IInv

LEMMA RestartStep ==
  ASSUME IInv, NEW r \in Replicas, Restart(r)
  PROVE  IInv'
<1>1. Current \in Nat /\ Current' = Current /\ UNCHANGED <<deployed, tickets, approved>>
  BY LengthType DEF IInv, Current, Restart
<1>2. \A t \in Tasks : tasks'[t] # None => tasks'[t] = tasks[t] /\ ~OnReplica(t, r)
  BY DEF Restart
<1>3. TypeOK'
  BY TypeStep DEF IInv, Next
<1>4. Versions'
  BY <1>1 DEF IInv, TypeOK, Versions, Restart
<1>5. TaskInv'
  BY <1>1, <1>2 DEF IInv, TaskInv, TaskVersions, ReadAfterFloor, QuietReloadTakesEffect
<1>6. QuietCache'
  <2>1. ASSUME NEW q \in Replicas, q # r
        PROVE  quiet'[q] = quiet[q] /\ cache'[q] = cache[q] /\ reloaded'[q] = reloaded[q]
    BY <2>1 DEF IInv, TypeOK, Restart
  <2>2. cache'[r] = 0
    BY DEF IInv, TypeOK, Restart
  <2>3. ASSUME NEW q \in Replicas, NEW t \in Tasks, OnReplica(t, q)'
        PROVE  q # r /\ OnReplica(t, q) /\ tasks'[t] = tasks[t]
    BY <1>2, <2>3 DEF OnReplica
  <2>4. QED
    BY <2>1, <2>2, <2>3 DEF IInv, QuietCache
<1>7. QED
  BY <1>1, <1>3, <1>4, <1>5, <1>6, ApprovedFrame DEF IInv

\* A step that changes no entry of the quiet cache and brings no new reading.
LEMMA QuietCacheFrame ==
  ASSUME IInv, UNCHANGED <<cache, reloaded, quiet>>,
         \A s \in Tasks : (tasks'[s] # None /\ tasks'[s].pc = "read")
                            => tasks'[s] = tasks[s]
  PROVE  QuietCache'
BY DEF IInv, QuietCache, OnReplica

LEMMA StartStep ==
  ASSUME IInv, NEW t \in Tasks, NEW r \in Replicas,
         NEW kind \in {"decide", "approve"}, NEW ticket \in tickets \cup {0},
         Start(t, r, kind, ticket)
  PROVE  IInv'
<1> DEFINE task == NewTask(r, kind, ticket)
<1>1. /\ Current \in Nat /\ Current' = Current
      /\ UNCHANGED <<deployed, cache, reloaded, quiet, tickets>>
      /\ TypeOK /\ TypeOK'
  BY LengthType, StartType DEF IInv, Current, Start
<1>2. Versions'
  BY <1>1 DEF IInv, Versions
<1>3. /\ task \in Task /\ task.floor = reloaded[r] /\ task.quiet = quiet[r]
      /\ task.pc = "loading" /\ task.got = 0
      /\ task.ticket = ticket /\ task.kind = kind
      /\ kind = "approve" => ticket \in tickets
      /\ task.floor \in Nat /\ task.floor <= Current
  <2>1. task \in Task
    BY <1>1, NewTaskType DEF TypeOK
  <2>2. reloaded[r] \in Nat /\ reloaded[r] <= Current
    BY DEF IInv, TypeOK, Versions
  <2>3. QED
    BY <2>1, <2>2 DEF NewTask, Start
<1>4. CASE cache[r] # 0 /\ Loaded(t, task, cache[r])
  <2>1. cache[r] \in 1..Current
    BY <1>4 DEF IInv, TypeOK, Versions
  <2>2. quiet[r] => cache[r] >= reloaded[r]
    BY <1>4 DEF IInv, QuietCache
  <2> HIDE DEF task
  <2>3. /\ TaskInv' /\ ApprovedInv'
        /\ tasks'[t] # None => tasks'[t].pc = "loaded"
        /\ \A s \in Tasks \ {t} : tasks'[s] = tasks[s]
    BY <1>1, <1>3, <1>4, <2>1, <2>2, LoadedStep
  <2>4. QuietCache'
    BY <1>1, <2>3, QuietCacheFrame
  <2>5. QED
    BY <1>1, <1>2, <2>3, <2>4 DEF IInv
<1>5. CASE tasks' = [tasks EXCEPT ![t] = task] /\ UNCHANGED approved
  <2> HIDE DEF task
  <2>1. tasks'[t] = task /\ \A s \in Tasks \ {t} : tasks'[s] = tasks[s]
    BY <1>1, <1>5 DEF TypeOK
  <2>2. TaskInv'
    BY <1>1, <1>3, <2>1
       DEF IInv, TaskInv, TaskVersions, ReadAfterFloor, QuietReloadTakesEffect
  <2>3. QuietCache'
    BY <1>1, <1>3, <2>1, QuietCacheFrame
  <2>4. ApprovedInv'
    BY <1>1, <1>5, ApprovedFrame
  <2>5. QED
    BY <1>1, <1>2, <2>2, <2>3, <2>4 DEF IInv
<1>6. QED
  BY <1>4, <1>5 DEF Start

LEMMA ReadStep ==
  ASSUME IInv, NEW t \in Tasks, Read(t)
  PROVE  IInv'
<1> DEFINE next == [tasks[t] EXCEPT !.pc = "read", !.got = Current]
<1>1. /\ Current \in Nat /\ Current' = Current /\ Current >= 1 /\ TypeOK'
      /\ UNCHANGED <<deployed, cache, reloaded, quiet, tickets, approved>>
  BY LengthType, ReadType DEF IInv, Versions, Current, Read
<1>2. tasks[t] # None /\ tasks[t] \in Task /\ tasks[t].floor \in Nat
  BY DEF IInv, TypeOK, Read, Task
<1>3. /\ next.pc = "read" /\ next.got = Current /\ next.floor = tasks[t].floor
      /\ next.kind = tasks[t].kind /\ next.ticket = tasks[t].ticket
      /\ next.replica = tasks[t].replica
  BY <1>2 DEF Task
<1>4. tasks'[t] = next /\ \A s \in Tasks \ {t} : tasks'[s] = tasks[s]
  BY DEF IInv, TypeOK, Read
<1> HIDE DEF next
<1>5. Versions'
  BY <1>1 DEF IInv, Versions
<1>6. TaskInv'
  BY <1>1, <1>2, <1>3, <1>4
     DEF IInv, TaskInv, TaskVersions, ReadAfterFloor, QuietReloadTakesEffect
<1>7. QuietCache'
  <2>1. \A r \in Replicas : reloaded[r] \in Nat /\ reloaded[r] <= Current
    BY DEF IInv, TypeOK, Versions
  <2>2. QED
    BY <1>1, <1>3, <1>4, <2>1 DEF IInv, QuietCache, OnReplica
<1>8. QED
  BY <1>1, <1>5, <1>6, <1>7, ApprovedFrame DEF IInv

LEMMA FinishStep ==
  ASSUME IInv, NEW t \in Tasks, Finish(t)
  PROVE  IInv'
<1>1. /\ Current \in Nat /\ Current' = Current /\ TypeOK'
      /\ UNCHANGED <<deployed, reloaded, quiet, tickets>>
  BY LengthType, FinishType DEF IInv, Current, Finish
<1>2. tasks[t] # None /\ tasks[t] \in Task /\ tasks[t].pc = "read"
  BY DEF IInv, TypeOK, Finish
<1>3. /\ tasks[t].got \in 1..Current /\ tasks[t].floor <= Current
      /\ tasks[t].got >= tasks[t].floor /\ tasks[t].replica \in Replicas
      /\ tasks[t].kind = "approve" => tasks[t].ticket \in tickets
  BY <1>1, <1>2 DEF IInv, TaskInv, TaskVersions, ReadAfterFloor, Task
<1>4. CASE /\ cache' = [cache EXCEPT ![tasks[t].replica] = tasks[t].got]
           /\ Loaded(t, tasks[t], tasks[t].got)
  <2>1. /\ TaskInv' /\ ApprovedInv'
        /\ tasks'[t] # None => tasks'[t].pc = "loaded"
        /\ \A s \in Tasks \ {t} : tasks'[s] = tasks[s]
    BY <1>1, <1>2, <1>3, <1>4, LoadedStep
  <2>2. \A r \in Replicas :
          cache'[r] = IF r = tasks[t].replica THEN tasks[t].got ELSE cache[r]
    BY <1>4 DEF IInv, TypeOK
  <2>3. Versions'
    BY <1>1, <1>3, <2>2 DEF IInv, Versions
  <2>4. quiet[tasks[t].replica] => tasks[t].got >= reloaded[tasks[t].replica]
    BY <1>2, <1>3 DEF IInv, QuietCache, OnReplica
  <2>5. QuietCache'
    BY <1>1, <2>1, <2>2, <2>4 DEF IInv, QuietCache, OnReplica
  <2>6. QED
    BY <1>1, <2>1, <2>3, <2>5 DEF IInv
<1>5. CASE tasks' = [tasks EXCEPT ![t] = None] /\ UNCHANGED <<cache, approved>>
  <2>1. \A s \in Tasks : tasks'[s] # None => tasks'[s] = tasks[s]
    BY <1>5 DEF IInv, TypeOK
  <2>2. TaskInv'
    BY <1>1, <2>1
       DEF IInv, TaskInv, TaskVersions, ReadAfterFloor, QuietReloadTakesEffect
  <2>3. Versions' /\ QuietCache' /\ ApprovedInv'
    BY <1>1, <1>5, <2>1, QuietCacheFrame, ApprovedFrame DEF IInv, Versions
  <2>4. QED
    BY <1>1, <2>2, <2>3 DEF IInv
<1>6. QED
  BY <1>4, <1>5 DEF Finish

LEMMA DecideStep ==
  ASSUME IInv, NEW t \in Tasks, Decide(t)
  PROVE  IInv'
<1>1. /\ Current \in Nat /\ Current' = Current /\ TypeOK'
      /\ UNCHANGED <<deployed, cache, reloaded, quiet, approved>>
  BY LengthType, TypeStep DEF IInv, Current, Decide, Next
<1>2. tasks[t] # None /\ tasks[t] \in Task /\ tasks[t].pc = "loaded"
  BY DEF IInv, TypeOK, Decide
<1>3. tasks[t].got \in 1..Current
  BY <1>1, <1>2 DEF IInv, TaskInv, TaskVersions, Task
<1>4. tickets' = tickets \cup {tasks[t].got}
  BY DEF Decide
<1>5. \A s \in Tasks : tasks'[s] # None => tasks'[s] = tasks[s]
  BY DEF IInv, TypeOK, Decide
<1>6. Versions'
  BY <1>1, <1>3, <1>4 DEF IInv, Versions
<1>7. TaskInv'
  BY <1>1, <1>4, <1>5
     DEF IInv, TaskInv, TaskVersions, ReadAfterFloor, QuietReloadTakesEffect
<1>8. QuietCache' /\ ApprovedInv'
  BY <1>1, <1>5, QuietCacheFrame, ApprovedFrame
<1>9. QED
  BY <1>1, <1>6, <1>7, <1>8 DEF IInv

LEMMA Invariant == Spec => []IInv
<1>1. Init => IInv
  <2>1. ASSUME Init
        PROVE  IInv
    <3>1. TypeOK
      <4>1. \A l \in Labels : [label |-> l, state |-> "valid"] \in Deployment
        BY DEF Deployment, States
      <4>2. QED
        BY <2>1, <4>1 DEF Init, TypeOK
    <3>2. Current = 1
      BY <2>1 DEF Init, Current
    <3>3. QED
      BY <2>1, <3>1, <3>2
         DEF Init, IInv, Versions, TaskInv, TaskVersions, ReadAfterFloor,
             QuietReloadTakesEffect, QuietCache, ApprovedInv, ApprovedDeployed,
             QuietReloadRevokes, OnReplica
  <2>2. QED
    BY <2>1
<1>2. IInv /\ [Next]_vars => IInv'
  <2>1. ASSUME IInv, UNCHANGED vars
        PROVE  IInv'
    BY <2>1 DEF vars, IInv, TypeOK, Versions, TaskInv, TaskVersions, ReadAfterFloor,
                QuietReloadTakesEffect, QuietCache, ApprovedInv, ApprovedDeployed,
                QuietReloadRevokes, OnReplica, Current, Label
  <2>2. QED
    BY <2>1, DeployStep, ReloadStep, RestartStep, StartStep, ReadStep,
       FinishStep, DecideStep DEF Next
<1>3. QED
  BY <1>1, <1>2, PTL DEF Spec

\* A request that starts after POST /v1/plugins/reload is decided with the
\* policy of the reload or a later one, if no load was in flight then.
THEOREM QuietReload == Spec => []QuietReloadTakesEffect
<1>1. IInv => QuietReloadTakesEffect
  BY DEF IInv, TaskInv
<1>2. QED
  BY <1>1, Invariant, PTL

\* A replica that was reloaded quietly accepts no approval ticket whose policy
\* was replaced before the reload (ApprovalService._check_policy).
THEOREM QuietRevocation == Spec => []QuietReloadRevokes
<1>1. IInv => QuietReloadRevokes
  BY DEF IInv, ApprovedInv
<1>2. QED
  BY <1>1, Invariant, PTL

(***************************************************************************)
(* What is served is valid.  A deployment only appends, so that the state  *)
(* of a version that was read stays what it was.                           *)
(***************************************************************************)

LEMMA StateKept ==
  ASSUME IInv, [Next]_vars, NEW v \in 1..Current
  PROVE  deployed'[v] = deployed[v]
<1>1. ASSUME NEW l \in Labels, NEW s \in States, Deploy(l, s)
      PROVE  deployed'[v] = deployed[v]
  BY <1>1 DEF Deploy, IInv, TypeOK, Current
<1>2. (~ \E l \in Labels, s \in States : Deploy(l, s)) => UNCHANGED deployed
  BY DEF Next, vars, Reload, Restart, Start, Read, Finish, Decide
<1>3. QED
  BY <1>1, <1>2

\* The requests after load() returned version v: no other request changes.
LEMMA LoadedServes ==
  ASSUME TypeOK, NEW t \in Tasks, NEW task \in Task, NEW v \in Nat,
         Loaded(t, task, v)
  PROVE  \A s \in Tasks : \/ tasks'[s] = tasks[s]
                          \/ tasks'[s] = None
                          \/ tasks'[s].got = v
<1>1. CASE task.kind = "approve"
  BY <1>1 DEF Loaded, TypeOK
<1>2. CASE task.kind # "approve"
  <2> DEFINE next == [task EXCEPT !.pc = "loaded", !.got = v]
  <2>1. next.got = v
    BY DEF Task
  <2>2. tasks' = [tasks EXCEPT ![t] = next]
    BY <1>2 DEF Loaded
  <2> HIDE DEF next
  <2>3. QED
    BY <2>1, <2>2 DEF TypeOK
<1>3. QED
  BY <1>1, <1>2

\* Where the versions a step serves come from: they were served before, or are
\* valid versions of the file that a request has read.
LEMMA ServedStep ==
  ASSUME IInv, OnlyValidServed, [Next]_vars
  PROVE  /\ \A r \in Replicas : cache'[r] # 0 =>
              cache'[r] \in 1..Current /\ deployed[cache'[r]].state = "valid"
         /\ \A s \in Tasks : (tasks'[s] # None /\ tasks'[s].pc = "loaded") =>
              tasks'[s].got \in 1..Current /\ deployed[tasks'[s].got].state = "valid"
<1> DEFINE Valid(v) == v \in 1..Current /\ deployed[v].state = "valid"
           CacheValid == \A r \in Replicas : cache'[r] # 0 => Valid(cache'[r])
           TasksValid == \A s \in Tasks :
             (tasks'[s] # None /\ tasks'[s].pc = "loaded") => Valid(tasks'[s].got)
<1>1. TypeOK /\ Current \in Nat
  BY LengthType DEF IInv
<1>2. \A r \in Replicas : cache[r] # 0 => Valid(cache[r])
  BY <1>1 DEF IInv, Versions, TypeOK, OnlyValidServed
<1>3. \A s \in Tasks : tasks[s] # None /\ tasks[s].pc = "loaded" => Valid(tasks[s].got)
  <2>1. \A s \in Tasks : tasks[s] # None => tasks[s].got \in Nat
    BY <1>1 DEF TypeOK, Task
  <2>2. QED
    BY <1>1, <2>1 DEF IInv, TaskInv, TaskVersions, OnlyValidServed
<1> HIDE DEF Valid
<1>4. ASSUME UNCHANGED <<cache, tasks>>
      PROVE  CacheValid /\ TasksValid
  BY <1>2, <1>3, <1>4
<1>5. ASSUME NEW r \in Replicas, Reload(r) \/ Restart(r)
      PROVE  CacheValid /\ TasksValid
  BY <1>1, <1>2, <1>3, <1>5 DEF Reload, Restart, TypeOK
<1>6. ASSUME NEW t \in Tasks, NEW r \in Replicas, NEW kind \in {"decide", "approve"},
             NEW ticket \in tickets \cup {0}, Start(t, r, kind, ticket)
      PROVE  CacheValid /\ TasksValid
  <2> DEFINE task == NewTask(r, kind, ticket)
  <2>1. task \in Task /\ task.pc = "loading"
    BY <1>1, NewTaskType DEF TypeOK, NewTask
  <2> HIDE DEF task
  <2>2. CASE cache[r] # 0 /\ Loaded(t, task, cache[r])
    <3>1. cache[r] \in Nat /\ Valid(cache[r])
      BY <1>1, <1>2, <2>2 DEF TypeOK
    <3>2. \A s \in Tasks : \/ tasks'[s] = tasks[s]
                           \/ tasks'[s] = None
                           \/ tasks'[s].got = cache[r]
      BY <1>1, <2>1, <2>2, <3>1, LoadedServes
    <3>3. QED
      BY <1>2, <1>3, <1>6, <3>1, <3>2 DEF Start
  <2>3. CASE tasks' = [tasks EXCEPT ![t] = task]
    BY <1>1, <1>2, <1>3, <1>6, <2>1, <2>3 DEF Start, TypeOK
  <2>4. QED
    BY <1>6, <2>2, <2>3 DEF Start, task
<1>7. ASSUME NEW t \in Tasks, Read(t)
      PROVE  CacheValid /\ TasksValid
  <2> DEFINE next == [tasks[t] EXCEPT !.pc = "read", !.got = Current]
  <2>1. next.pc = "read"
    BY <1>1, <1>7 DEF Read, TypeOK, Task
  <2>2. tasks' = [tasks EXCEPT ![t] = next] /\ UNCHANGED cache
    BY <1>7 DEF Read
  <2> HIDE DEF next
  <2>3. QED
    BY <1>1, <1>2, <1>3, <2>1, <2>2 DEF TypeOK
<1>8. ASSUME NEW t \in Tasks, Finish(t)
      PROVE  CacheValid /\ TasksValid
  <2>1. tasks[t] # None /\ tasks[t] \in Task /\ tasks[t].pc = "read"
    BY <1>1, <1>8 DEF TypeOK, Finish
  <2>2. tasks[t].got \in 1..Current /\ tasks[t].replica \in Replicas
    BY <1>1, <2>1 DEF IInv, TaskInv, TaskVersions, Task
  <2>3. CASE /\ deployed[tasks[t].got].state = "valid"
             /\ cache' = [cache EXCEPT ![tasks[t].replica] = tasks[t].got]
             /\ Loaded(t, tasks[t], tasks[t].got)
    <3>1. Valid(tasks[t].got) /\ tasks[t].got \in Nat
      BY <1>1, <2>2, <2>3 DEF Valid
    <3>2. \A s \in Tasks : \/ tasks'[s] = tasks[s]
                           \/ tasks'[s] = None
                           \/ tasks'[s].got = tasks[t].got
      BY <1>1, <2>1, <2>3, <3>1, LoadedServes
    <3>3. QED
      BY <1>1, <1>2, <1>3, <2>3, <3>1, <3>2 DEF TypeOK
  <2>4. CASE tasks' = [tasks EXCEPT ![t] = None] /\ UNCHANGED cache
    BY <1>1, <1>2, <1>3, <2>4 DEF TypeOK
  <2>5. QED
    BY <1>8, <2>3, <2>4 DEF Finish
<1>9. ASSUME NEW t \in Tasks, Decide(t)
      PROVE  CacheValid /\ TasksValid
  BY <1>1, <1>2, <1>3, <1>9 DEF Decide, TypeOK
<1>10. CacheValid /\ TasksValid
  BY <1>4, <1>5, <1>6, <1>7, <1>8, <1>9 DEF Next, vars, Deploy
<1>11. QED
  BY <1>10 DEF Valid

\* A replica caches a policy and decides with it only if the version it read
\* was valid: PluginLoader.load stores nothing that failed to parse or validate.
THEOREM ValidServed == Spec => []OnlyValidServed
<1>1. Init => OnlyValidServed
  BY DEF Init, OnlyValidServed
<1>2. IInv /\ OnlyValidServed /\ [Next]_vars => OnlyValidServed'
  <2>1. ASSUME IInv, OnlyValidServed, [Next]_vars
        PROVE  OnlyValidServed'
    BY <2>1, ServedStep, StateKept DEF OnlyValidServed
  <2>2. QED
    BY <2>1
<1>3. QED
  BY <1>1, <1>2, Invariant, PTL DEF Spec

=============================================================================
