------------------------------ MODULE AuditChain ------------------------------
(***************************************************************************)
(* FileAuditSink and verify_audit_chain: the hash-chained audit file, the  *)
(* processes that append to it, the writes that fail part way, and the     *)
(* crashes between a response and its record.                              *)
(*                                                                         *)
(* A response queues its record as a background task; the tasks of one     *)
(* process take the sink's lock one at a time, and await inside it while a *)
(* thread reads or appends the file.  The hash is ideal: the hash of a     *)
(* record is what was hashed, the previous hash followed by the record.    *)
(*                                                                         *)
(* Both readers split the decoded text with str.splitlines(), which also   *)
(* splits at U+2028, U+2029 and U+0085; json.dumps(ensure_ascii=False)     *)
(* writes these as they are, and none of the pieces of such a record is a  *)
(* JSON object.  The file is a sequence of records and fragments; the      *)
(* numbers of their lines agree up to the first that does not parse.       *)
(***************************************************************************)
EXTENDS FiniteSetsExt, SequencesExt

CONSTANTS
  Procs,      \* AXG processes configured with the same AXG_AUDIT_FILE
  Records,    \* decisions and approvals to be recorded
  NonAscii,   \* records with a character of several bytes in UTF-8
  Splitting,  \* records with one at which splitlines() splits
  MaxFaults,  \* bound on the number of failed writes and crashes
  None        \* an absent value

ASSUME AuditAssumption ==
  /\ MaxFaults \in Nat
  /\ NonAscii \subseteq Records
  /\ Splitting \subseteq NonAscii

Hash == Seq(Records)

Genesis == <<>>

\* A line of the file.  ended: the next bytes begin another line.
Entry == [kind : {"entry"}, id : Records, prev : Hash, hash : Hash, ended : BOOLEAN]

\* Bytes that are no record; undecodable if a character was cut in two.
Garbage == [kind : {"garbage", "undecodable"}, ended : BOOLEAN]

\* The task that holds the lock: it reads the last hash, then it writes.
Job == [id : Records, stage : {"reading", "writing"}]

\* The absent value is not a task.
ASSUME NoneAssumption == None \notin Job

VARIABLES
  file,      \* the lines of the audit file
  running,   \* the processes that are up
  queue,     \* queue[p]: background tasks waiting for the lock
  job,       \* job[p]: the task that holds the lock, None if it is free
  last,      \* last[p]: _last_hash
  answered,  \* the decisions whose response was sent
  failed,    \* history: records whose own write failed, or process crashed
  faults,    \* history: number of failed writes and crashes
  left,      \* history: the lines with bytes of a failed write
  authors,   \* history: authors[i]: the process that last wrote to line i
  met        \* history: pairs of processes that were up at the same time

historyVars == <<left, authors>>

vars == <<file, running, queue, job, last, answered, failed, faults,
          historyVars, met>>

TypeOK ==
  /\ file \in Seq(Entry \cup Garbage)
  /\ running \subseteq Procs
  /\ queue \in [Procs -> SUBSET Records]
  /\ job \in [Procs -> Job \cup {None}]
  /\ last \in [Procs -> Hash \cup {None}]
  /\ answered \subseteq Records
  /\ failed \subseteq Records
  /\ faults \in Nat
  /\ left \subseteq Nat
  /\ authors \in Seq(Procs)
  /\ met \subseteq Procs \X Procs

Init ==
  /\ file = <<>>
  /\ running = {}
  /\ queue = [p \in Procs |-> {}]
  /\ job = [p \in Procs |-> None]
  /\ last = [p \in Procs |-> None]
  /\ answered = {}
  /\ failed = {}
  /\ faults = 0
  /\ left = {}
  /\ authors = <<>>
  /\ met = {}

-----------------------------------------------------------------------------
(* The file. *)

\* Mutant of Appended: mode "w" instead of "a".
AppendedOver(f, line) == <<line>>

\* What becomes of a line that is not ended when line follows it.
Glued(first, line) ==
  [kind |-> IF "undecodable" \in {first.kind, line.kind}
            THEN "undecodable" ELSE "garbage",
   ended |-> line.ended]

\* f with the bytes of line appended: they belong to the last line if that one
\* is not ended, and it no longer parses.
Appended(f, line) ==
  IF f # <<>> /\ ~f[Len(f)].ended
  THEN [f EXCEPT ![Len(f)] = Glued(f[Len(f)], line)]
  ELSE Append(f, line)

\* Mutant of Line: the entry does not carry prev_hash.
LineNoPrev(id, prev) ==
  [kind |-> "entry", id |-> id, hash |-> Append(prev, id), ended |-> TRUE]

\* entry["prev_hash"], entry["record_hash"] and the newline.
Line(id, prev) ==
  [kind |-> "entry", id |-> id, prev |-> prev, hash |-> Append(prev, id), ended |-> TRUE]

\* A part of a record: it may end inside a character, and after a separator.
Fragment(id) ==
  {[kind |-> "garbage", ended |-> FALSE]}
    \cup (IF id \in NonAscii THEN {[kind |-> "undecodable", ended |-> FALSE]} ELSE {})
    \cup (IF id \in Splitting THEN {[kind |-> "garbage", ended |-> TRUE]} ELSE {})

\* What a write that fails leaves of its line: nothing, a fragment, everything
\* but the newline, or (when only close() fails) the whole line.
Partial(f, line) ==
  {f} \cup {Appended(f, part) :
              part \in Fragment(line.id) \cup {[line EXCEPT !.ended = FALSE], line}}

Parses(line) == line.kind = "entry" /\ line.id \notin Splitting

Decodable(f) == \A i \in DOMAIN f : f[i].kind # "undecodable"

LastHash(f) == IF f = <<>> THEN Genesis ELSE f[Len(f)].hash

\* Mutant of Unreadable: the last line of an empty file is looked up too.
UnreadableEmpty(f) == ~Decodable(f) \/ f = <<>> \/ ~Parses(f[Len(f)])

Unreadable(f) == ~Decodable(f) \/ (f # <<>> /\ ~Parses(f[Len(f)]))

\* Who wrote to the last line of the new file, if it changed.
Signed(p) ==
  authors' = IF file' = file THEN authors
             ELSE [i \in 1..Len(file') |-> IF i = Len(file') THEN p ELSE authors[i]]

-----------------------------------------------------------------------------
(* The sink. *)

\* The response is sent; FastAPI starts the background task afterwards.
Respond(p, r) ==
  /\ p \in running
  /\ r \notin answered
  /\ answered' = answered \cup {r}
  /\ queue' = [queue EXCEPT ![p] = @ \cup {r}]
  /\ UNCHANGED <<file, running, job, last, failed, faults,
                 historyVars, met>>

\* The task takes the lock; it reads the file only if _last_hash is not known.
Acquire(p, r) ==
  /\ job[p] = None
  /\ r \in queue[p]
  /\ queue' = [queue EXCEPT ![p] = @ \ {r}]
  /\ job' = [job EXCEPT ![p] =
       [id |-> r, stage |-> IF last[p] = None THEN "reading" ELSE "writing"]]
  /\ UNCHANGED <<file, running, last, answered, failed, faults,
                 historyVars, met>>

Holds(p, stage) == job[p] # None /\ job[p].stage = stage

\* Mutant of ReadLast: the exception leaves the lock taken.
ReadLastKeepsLock(p) ==
  /\ Holds(p, "reading")
  /\ ~Unreadable(file)
  /\ last' = [last EXCEPT ![p] = LastHash(file)]
  /\ job' = [job EXCEPT ![p].stage = "writing"]
  /\ UNCHANGED <<file, running, queue, answered, failed, faults,
                 historyVars, met>>

\* _read_last_hash.  A last line that does not parse is an exception: the
\* record is dropped with a log line, and _last_hash stays unknown.
ReadLast(p) ==
  /\ Holds(p, "reading")
  /\ \/ /\ ~Unreadable(file)
        /\ last' = [last EXCEPT ![p] = LastHash(file)]
        /\ job' = [job EXCEPT ![p].stage = "writing"]
     \/ /\ Unreadable(file)
        /\ job' = [job EXCEPT ![p] = None]
        /\ UNCHANGED last
  /\ UNCHANGED <<file, running, queue, answered, failed, faults,
                 historyVars, met>>

\* The line is appended, then _last_hash is advanced.
Write(p) ==
  LET line == Line(job[p].id, last[p]) IN
  /\ Holds(p, "writing")
  /\ file' = Appended(file, line)
  /\ Signed(p)
  /\ last' = [last EXCEPT ![p] = line.hash]
  /\ job' = [job EXCEPT ![p] = None]
  /\ UNCHANGED <<running, queue, answered, failed, faults, left, met>>

Fault ==
  /\ faults < MaxFaults
  /\ faults' = faults + 1

Left == left' = IF file' = file THEN left ELSE left \cup {Len(file')}

\* Mutant of WriteFails: _last_hash is advanced before the write.
WriteFailsAdvanced(p) ==
  LET line == Line(job[p].id, last[p]) IN
  /\ Fault
  /\ Holds(p, "writing")
  /\ file' \in Partial(file, line)
  /\ Signed(p) /\ Left
  /\ last' = [last EXCEPT ![p] = line.hash]
  /\ failed' = failed \cup {job[p].id}
  /\ job' = [job EXCEPT ![p] = None]
  /\ UNCHANGED <<running, queue, answered, met>>

\* open, write or close raises: logged, and the next task continues from the
\* _last_hash of the last write that succeeded.
WriteFails(p) ==
  /\ Fault
  /\ Holds(p, "writing")
  /\ file' \in Partial(file, Line(job[p].id, last[p]))
  /\ Signed(p) /\ Left
  /\ failed' = failed \cup {job[p].id}
  /\ job' = [job EXCEPT ![p] = None]
  /\ UNCHANGED <<running, queue, last, answered, met>>

-----------------------------------------------------------------------------
(* Processes. *)

InProgress(p) == queue[p] \cup (IF job[p] = None THEN {} ELSE {job[p].id})

Start(p) ==
  /\ p \notin running
  /\ running' = running \cup {p}
  /\ met' = met \cup ({p} \X running) \cup (running \X {p})
  /\ UNCHANGED <<file, queue, job, last, answered, failed, faults,
                 historyVars>>

\* A graceful shutdown runs the background tasks to their end.
Stop(p) ==
  /\ p \in running
  /\ InProgress(p) = {}
  /\ running' = running \ {p}
  /\ last' = [last EXCEPT ![p] = None]
  /\ UNCHANGED <<file, queue, job, answered, failed, faults,
                 historyVars, met>>

\* The process ends at any point, its queue and a write under way included.
Crash(p) ==
  /\ Fault
  /\ p \in running
  /\ file' \in IF Holds(p, "writing")
               THEN Partial(file, Line(job[p].id, last[p]))
               ELSE {file}
  /\ Signed(p) /\ Left
  /\ failed' = failed \cup InProgress(p)
  /\ running' = running \ {p}
  /\ queue' = [queue EXCEPT ![p] = {}]
  /\ job' = [job EXCEPT ![p] = None]
  /\ last' = [last EXCEPT ![p] = None]
  /\ UNCHANGED <<answered, met>>

Next == \E p \in Procs :
  \/ \E r \in Records : Respond(p, r) \/ Acquire(p, r)
  \/ ReadLast(p) \/ Write(p) \/ WriteFails(p)
  \/ Start(p) \/ Stop(p) \/ Crash(p)

\* The event loop and the disk make progress; nothing makes a process crash.
Fairness == \A p \in Procs :
  /\ WF_vars(\E r \in Records : Acquire(p, r))
  /\ WF_vars(ReadLast(p))
  /\ WF_vars(Write(p))

Spec == Init /\ [][Next]_vars

FairSpec == Spec /\ Fairness

-----------------------------------------------------------------------------
(* verify_audit_chain. *)

\* Mutant of Broken: only the record's own hash is checked.
BrokenHashOnly(f, i) ==
  \/ ~Parses(f[i])
  \/ f[i].hash # Append(f[i].prev, f[i].id)

\* Line i ends the intact part of f, or lies behind its end.
Broken(f, i) ==
  \/ ~Parses(f[i]) \/ Unreadable(SubSeq(f, 1, i - 1))
  \/ f[i].prev # LastHash(SubSeq(f, 1, i - 1))
  \/ f[i].hash # Append(f[i].prev, f[i].id)

\* read_text() raises UnicodeDecodeError, whatever the line.
Raises == -1

\* The line number verify_audit_chain returns, 0 for an intact file.
VerifyAuditChain(f) ==
  LET breaks == {i \in DOMAIN f : Broken(f, i)} IN
  IF ~Decodable(f) THEN Raises ELSE IF breaks = {} THEN 0 ELSE Min(breaks)

Intact(f) == VerifyAuditChain(f) = 0

-----------------------------------------------------------------------------
(* Properties. *)

Recorded == {file[i].id : i \in {j \in DOMAIN file : file[j].kind = "entry"}}

\* A decision that was answered, whose task has ended, and that is not in the
\* file.
Lost == (answered \ Recorded) \ UNION {InProgress(p) : p \in Procs}

\* What verify_audit_chain reports of a file nobody tampered with has a cause
\* at the reported line or the one before: a failed write left bytes there, the
\* record holds a character at which lines are split, or the two lines were
\* written by processes that were up together.  It raises only after a record
\* with characters of several bytes was cut short.
BreakHasCause ==
  LET n == VerifyAuditChain(file) IN
  /\ n = Raises => failed \cap NonAscii # {}
  /\ n > 0 =>
       \/ n \in left
       \/ file[n].kind = "entry" /\ file[n].id \in Splitting
       \/ n > 1 /\ (n - 1 \in left \/ <<authors[n - 1], authors[n]>> \in met)

\* An answered decision is missing only if its own write failed, its process
\* crashed, an earlier failed write had left bytes in the file, or the file
\* holds a record that reads as several lines.
LostHasCause ==
  (left = {} /\ Recorded \cap Splitting = {}) => Lost \subseteq failed

\* verify_audit_chain reports the line at which an intact file was edited, had
\* a record deleted, or two neighbouring records swapped.  (The end of the file is the
\* exception: without its last records it is a shorter intact file.)
TamperEvident ==
  Intact(file) => \A i \in DOMAIN file :
    /\ \A r \in Records \ {file[i].id} :
         VerifyAuditChain([file EXCEPT ![i].id = r]) = i
    /\ i < Len(file) =>
         /\ VerifyAuditChain(RemoveAt(file, i)) = i
         /\ VerifyAuditChain([file EXCEPT ![i] = file[i + 1], ![i + 1] = file[i]]) = i

\* No step invalidates a record that is on disk with its newline and verifies:
\* what a scheduled verify-audit has accepted, it accepts for ever, unless a
\* write is cut inside a character and the file can no longer be decoded.
Verified == {i \in DOMAIN file : file[i].ended /\ \A j \in 1..i : ~Broken(file, j)}

VerifiedKept == [][Decodable(file') => Verified \subseteq Verified']_vars

\* Every task ends and releases the lock, whatever it finds in the file.
TasksEnd == \A p \in Procs, r \in Records :
  r \in InProgress(p) ~> r \notin InProgress(p)

\* "Each decision produces an execution_record, written by the configured audit
\* sinks" (docs/api.md): a decision is missing only if its own write failed.
\* One torn line makes a restarted process drop every later record.
EachDecisionRecorded == Lost \subseteq failed

=============================================================================
