--------------------------- MODULE AuditChain_proofs ---------------------------
(***************************************************************************)
(* Theorems about AuditChain, for any number of processes, records, failed *)
(* writes and crashes.                                                     *)
(***************************************************************************)
EXTENDS AuditChain, WellFoundedInduction, TLAPS

FileLine == Entry \cup Garbage

(***************************************************************************)
(* What the file operators return.                                         *)
(***************************************************************************)

LEMMA LineType ==
  ASSUME NEW id \in Records, NEW prev \in Hash
  PROVE  Line(id, prev) \in Entry
BY DEF Line, Entry, Hash

LEMMA GluedType ==
  ASSUME NEW first \in FileLine, NEW line \in FileLine
  PROVE  Glued(first, line) \in Garbage
<1>1. line.ended \in BOOLEAN
  BY DEF FileLine, Entry, Garbage
<1>2. QED
  BY <1>1 DEF Glued, Garbage

\* An append changes at most the last line, and adds at most one.
Extends(g, f, line) ==
  /\ g \in Seq(FileLine) /\ g # <<>> /\ Len(g) \in Nat /\ Len(g) >= 1
  /\ \A i \in 1..(Len(g) - 1) : i \in DOMAIN f /\ g[i] = f[i]
  /\ \/ Len(g) = Len(f) + 1 /\ g[Len(g)] = line
     \/ /\ Len(g) = Len(f) /\ f # <<>> /\ ~f[Len(f)].ended
        /\ g[Len(g)] = Glued(f[Len(f)], line)

LEMMA AppendedShape ==
  ASSUME NEW f \in Seq(FileLine), NEW line \in FileLine,
         NEW g, g = Appended(f, line)
  PROVE  Extends(g, f, line)
<1>1. CASE f # <<>> /\ ~f[Len(f)].ended
  <2> DEFINE glue == Glued(f[Len(f)], line)
  <2>1. glue \in FileLine
    BY <1>1, GluedType DEF FileLine
  <2>2. g = [f EXCEPT ![Len(f)] = glue]
    BY <1>1 DEF Appended
  <2> HIDE DEF glue
  <2>3. /\ Len(f) \in Nat /\ Len(f) >= 1 /\ g \in Seq(FileLine) /\ Len(g) = Len(f)
        /\ g[Len(f)] = glue /\ \A i \in 1..(Len(f) - 1) : i \in DOMAIN f /\ g[i] = f[i]
    BY <1>1, <2>1, <2>2
  <2>4. QED
    BY <1>1, <2>3 DEF Extends, glue
<1>2. CASE ~(f # <<>> /\ ~f[Len(f)].ended)
  <2>1. g = Append(f, line)
    BY <1>2 DEF Appended
  <2>2. QED
    BY <2>1 DEF Extends
<1>3. QED
  BY <1>1, <1>2

LEMMA AppendedType ==
  ASSUME NEW f \in Seq(FileLine), NEW line \in FileLine
  PROVE  Appended(f, line) \in Seq(FileLine)
BY AppendedShape DEF Extends

\* The bytes of a line that a failed write may leave.
Parts(line) == Fragment(line.id) \cup {[line EXCEPT !.ended = FALSE], line}

LEMMA PartsType ==
  ASSUME NEW line \in Entry
  PROVE  /\ Parts(line) \subseteq FileLine
         /\ Fragment(line.id) \subseteq Garbage
         /\ [line EXCEPT !.ended = FALSE] \in Entry
<1>1. Fragment(line.id) \subseteq Garbage
  <2>1. [kind |-> "garbage", ended |-> FALSE] \in Garbage
    BY DEF Garbage
  <2>2. [kind |-> "garbage", ended |-> TRUE] \in Garbage
    BY DEF Garbage
  <2>3. [kind |-> "undecodable", ended |-> FALSE] \in Garbage
    BY DEF Garbage
  <2>4. QED
    BY <2>1, <2>2, <2>3 DEF Fragment
<1>2. [line EXCEPT !.ended = FALSE] \in Entry
  BY DEF Entry
<1>3. QED
  BY <1>1, <1>2 DEF Parts, FileLine

LEMMA PartialCases ==
  ASSUME NEW f, NEW line, NEW g \in Partial(f, line)
  PROVE  g = f \/ \E part \in Parts(line) : g = Appended(f, part)
BY DEF Partial, Parts

LEMMA PartialType ==
  ASSUME NEW f \in Seq(FileLine), NEW line \in Entry
  PROVE  Partial(f, line) \subseteq Seq(FileLine)
<1> SUFFICES ASSUME NEW g \in Partial(f, line)
             PROVE  g \in Seq(FileLine)
  OBVIOUS
<1>1. Parts(line) \subseteq FileLine
  BY PartsType
<1>2. CASE g = f
  BY <1>2
<1>3. ASSUME NEW part \in Parts(line), g = Appended(f, part)
      PROVE  g \in Seq(FileLine)
  BY <1>1, <1>3, AppendedType
<1>4. QED
  BY <1>2, <1>3, PartialCases

LEMMA LastHashType ==
  ASSUME NEW f \in Seq(FileLine), ~Unreadable(f)
  PROVE  LastHash(f) \in Hash
<1>1. CASE f = <<>>
  BY <1>1 DEF LastHash, Genesis, Hash
<1>2. CASE f # <<>>
  <2>1. f[Len(f)] \in FileLine /\ f[Len(f)].kind = "entry"
    BY <1>2 DEF Unreadable, Parses
  <2>2. f[Len(f)] \in Entry
    BY <2>1 DEF FileLine, Garbage
  <2>3. QED
    BY <1>2, <2>2 DEF LastHash, Entry
<1>3. QED
  BY <1>1, <1>2

(***************************************************************************)
(* Type correctness.  The task that writes holds a hash, which makes the   *)
(* type invariant inductive.                                               *)
(***************************************************************************)

\* _last_hash is known when a task writes.
HashKnown == \A p \in Procs : Holds(p, "writing") => last[p] \in Hash

\* Every line has an author.
Aligned == Len(authors) = Len(file)

TypeInv == TypeOK /\ HashKnown /\ Aligned

LEMMA NextLine ==
  ASSUME TypeInv, NEW p \in Procs, Holds(p, "writing")
  PROVE  /\ job[p] \in Job /\ job[p].id \in Records /\ last[p] \in Hash
         /\ Line(job[p].id, last[p]) \in Entry
<1>1. job[p] \in Job
  BY DEF TypeInv, TypeOK, Holds
<1>2. last[p] \in Hash /\ job[p].id \in Records
  BY <1>1 DEF TypeInv, HashKnown, Job
<1>3. QED
  BY <1>1, <1>2, LineType

LEMMA InProgressType ==
  ASSUME TypeInv, NEW p \in Procs
  PROVE  InProgress(p) \subseteq Records
<1>1. job[p] # None => job[p].id \in Records
  BY DEF TypeInv, TypeOK, Job
<1>2. QED
  BY <1>1 DEF InProgress, TypeInv, TypeOK

LEMMA AcquireType ==
  ASSUME TypeInv, NEW p \in Procs, NEW r \in Records, Acquire(p, r)
  PROVE  TypeInv'
<1> DEFINE next == [id |-> r, stage |-> IF last[p] = None THEN "reading" ELSE "writing"]
<1>1. next \in Job
  BY DEF Job
<1>2. next.stage = "writing" => last[p] \in Hash
  BY DEF TypeInv, TypeOK
<1>3. job' = [job EXCEPT ![p] = next] /\ last' = last
  BY DEF Acquire
<1> HIDE DEF next
<1>4. TypeOK'
  BY <1>1, <1>3 DEF TypeInv, TypeOK, Acquire, historyVars
<1>5. HashKnown'
  BY <1>2, <1>3 DEF TypeInv, TypeOK, HashKnown, Holds
<1>6. Aligned'
  BY DEF TypeInv, Aligned, Acquire, historyVars
<1>7. QED
  BY <1>4, <1>5, <1>6 DEF TypeInv

LEMMA ReadLastType ==
  ASSUME TypeInv, NEW p \in Procs, ReadLast(p)
  PROVE  TypeInv'
<1>1. job[p] \in Job
  BY DEF TypeInv, TypeOK, ReadLast, Holds
<1>2. CASE /\ ~Unreadable(file)
           /\ last' = [last EXCEPT ![p] = LastHash(file)]
           /\ job' = [job EXCEPT ![p].stage = "writing"]
  <2>1. LastHash(file) \in Hash
    BY <1>2, LastHashType DEF TypeInv, TypeOK, FileLine
  <2>2. [job[p] EXCEPT !.stage = "writing"] \in Job
    BY <1>1 DEF Job
  <2>3. TypeOK'
    BY <1>2, <2>1, <2>2 DEF TypeInv, TypeOK, ReadLast, historyVars
  <2>4. HashKnown'
    BY <1>2, <2>1 DEF TypeInv, TypeOK, HashKnown, Holds
  <2>5. Aligned'
    BY DEF TypeInv, Aligned, ReadLast, historyVars
  <2>6. QED
    BY <2>3, <2>4, <2>5 DEF TypeInv
<1>3. CASE job' = [job EXCEPT ![p] = None] /\ UNCHANGED last
  BY <1>3 DEF TypeInv, TypeOK, HashKnown, Holds, ReadLast, Aligned, historyVars
<1>4. QED
  BY <1>2, <1>3 DEF ReadLast

\* The authors follow the file.
LEMMA SignedType ==
  ASSUME TypeInv, NEW p \in Procs, Signed(p), file' \in Seq(FileLine),
         file' = file \/ \E line \in FileLine : file' = Appended(file, line)
  PROVE  /\ authors' \in Seq(Procs) /\ Len(authors') = Len(file')
         /\ file' # file => authors'[Len(file')] = p
         /\ \A i \in 1..(Len(file') - 1) : i \in DOMAIN file /\ authors'[i] = authors[i]
<1>1. file \in Seq(FileLine) /\ authors \in Seq(Procs) /\ Len(authors) = Len(file)
  BY DEF TypeInv, TypeOK, FileLine, Aligned
<1>2. CASE file' = file
  BY <1>1, <1>2 DEF Signed
<1>3. CASE file' # file
  <2>1. /\ Len(file') \in Nat /\ Len(file') >= 1
        /\ \A i \in 1..(Len(file') - 1) : i \in DOMAIN file
    BY <1>1, <1>3, AppendedShape DEF Extends
  <2>2. authors' = [i \in 1..Len(file') |-> IF i = Len(file') THEN p ELSE authors[i]]
    BY <1>3 DEF Signed
  <2>3. ASSUME NEW i \in 1..Len(file')
        PROVE  (IF i = Len(file') THEN p ELSE authors[i]) \in Procs
    <3>1. i # Len(file') => i \in DOMAIN authors
      BY <1>1, <2>1
    <3>2. QED
      BY <1>1, <3>1
  <2>4. authors' \in Seq(Procs) /\ Len(authors') = Len(file')
    BY <2>1, <2>2, <2>3
  <2>5. authors'[Len(file')] = p
    BY <2>1, <2>2
  <2>6. ASSUME NEW i \in 1..(Len(file') - 1)
        PROVE  i \in DOMAIN file /\ authors'[i] = authors[i]
    BY <2>1, <2>2
  <2>7. QED
    BY <2>4, <2>5, <2>6
<1>4. QED
  BY <1>2, <1>3

LEMMA LeftType ==
  ASSUME TypeInv, file' \in Seq(FileLine), Left
  PROVE  left' \subseteq Nat
<1>1. left \subseteq Nat /\ Len(file') \in Nat
  BY DEF TypeInv, TypeOK
<1>2. QED
  BY <1>1 DEF Left

LEMMA WriteType ==
  ASSUME TypeInv, NEW p \in Procs, Write(p)
  PROVE  TypeInv'
<1> DEFINE line == Line(job[p].id, last[p])
<1>1. line \in Entry
  BY NextLine DEF Write
<1>2. line.hash \in Hash /\ line \in FileLine
  BY <1>1 DEF Entry, FileLine
<1>3. /\ file' = Appended(file, line) /\ Signed(p)
      /\ last' = [last EXCEPT ![p] = line.hash]
      /\ job' = [job EXCEPT ![p] = None]
      /\ UNCHANGED <<running, queue, answered, failed, faults, left, met>>
  BY DEF Write
<1> HIDE DEF line
<1>4. file' \in Seq(FileLine)
  BY <1>2, <1>3, AppendedType DEF TypeInv, TypeOK, FileLine
<1>5. authors' \in Seq(Procs) /\ Aligned'
  BY <1>2, <1>3, <1>4, SignedType DEF Aligned
<1>6. TypeOK'
  BY <1>2, <1>3, <1>4, <1>5 DEF TypeInv, TypeOK, FileLine
<1>7. HashKnown'
  BY <1>2, <1>3 DEF TypeInv, TypeOK, HashKnown, Holds
<1>8. QED
  BY <1>5, <1>6, <1>7 DEF TypeInv

\* The file after a write that failed, or a crash during one.
LEMMA FaultFile ==
  ASSUME TypeInv, NEW p \in Procs, WriteFails(p) \/ Crash(p)
  PROVE  /\ file' \in Seq(FileLine)
         /\ \/ file' = file
            \/ /\ Holds(p, "writing")
               /\ \E part \in Parts(Line(job[p].id, last[p])) :
                    part \in FileLine /\ file' = Appended(file, part)
<1>1. file \in Seq(FileLine)
  BY DEF TypeInv, TypeOK, FileLine
<1>2. CASE Holds(p, "writing")
  <2> DEFINE line == Line(job[p].id, last[p])
  <2>1. line \in Entry /\ file' \in Partial(file, line)
    BY <1>2, NextLine DEF WriteFails, Crash
  <2> HIDE DEF line
  <2>2. file' \in Seq(FileLine)
    BY <1>1, <2>1, PartialType
  <2>3. file' = file
        \/ \E part \in Parts(line) : part \in FileLine /\ file' = Appended(file, part)
    <3>1. Parts(line) \subseteq FileLine
      BY <2>1, PartsType
    <3>2. file' = file \/ \E part \in Parts(line) : file' = Appended(file, part)
      BY <2>1, PartialCases
    <3>3. QED
      BY <3>1, <3>2
  <2>4. QED
    BY <1>2, <2>2, <2>3 DEF line
<1>3. CASE ~Holds(p, "writing")
  BY <1>1, <1>3 DEF WriteFails, Crash
<1>4. QED
  BY <1>2, <1>3

LEMMA FaultHistory ==
  ASSUME TypeInv, NEW p \in Procs, WriteFails(p) \/ Crash(p)
  PROVE  authors' \in Seq(Procs) /\ left' \subseteq Nat /\ Aligned'
<1>1. /\ Signed(p) /\ Left /\ file' \in Seq(FileLine)
      /\ file' = file \/ \E line \in FileLine : file' = Appended(file, line)
  BY FaultFile DEF WriteFails, Crash
<1>2. QED
  BY <1>1, SignedType, LeftType DEF Aligned

LEMMA WriteFailsType ==
  ASSUME TypeInv, NEW p \in Procs, WriteFails(p)
  PROVE  TypeInv'
<1>1. job[p].id \in Records
  BY NextLine DEF WriteFails
<1>2. file' \in Seq(FileLine)
  BY FaultFile
<1>3. faults' \in Nat
  BY DEF TypeInv, TypeOK, WriteFails, Fault
<1>4. TypeOK'
  BY <1>1, <1>2, <1>3, FaultHistory DEF TypeInv, TypeOK, WriteFails, FileLine
<1>5. HashKnown'
  BY DEF TypeInv, TypeOK, HashKnown, Holds, WriteFails
<1>6. QED
  BY <1>4, <1>5, FaultHistory DEF TypeInv

LEMMA CrashType ==
  ASSUME TypeInv, NEW p \in Procs, Crash(p)
  PROVE  TypeInv'
<1>1. file' \in Seq(FileLine)
  BY FaultFile
<1>2. faults' \in Nat
  BY DEF TypeInv, TypeOK, Crash, Fault
<1>3. failed' \subseteq Records
  BY InProgressType DEF TypeInv, TypeOK, Crash
<1>4. queue' \in [Procs -> SUBSET Records]
  BY DEF TypeInv, TypeOK, Crash
<1>5. /\ job' \in [Procs -> Job \cup {None}]
      /\ last' \in [Procs -> Hash \cup {None}]
  BY DEF TypeInv, TypeOK, Crash
<1>6. HashKnown'
  BY DEF TypeInv, TypeOK, HashKnown, Holds, Crash
<1>7. running' \subseteq Procs /\ UNCHANGED <<answered, met>>
  BY DEF TypeInv, TypeOK, Crash
<1>8. TypeOK'
  BY <1>1, <1>2, <1>3, <1>4, <1>5, <1>7, FaultHistory DEF TypeInv, TypeOK, FileLine
<1>9. QED
  BY <1>6, <1>8, FaultHistory DEF TypeInv

LEMMA TypeStep ==
  ASSUME TypeInv, [Next]_vars
  PROVE  TypeInv'
<1>1. ASSUME NEW p \in Procs, NEW r \in Records, Respond(p, r)
      PROVE  TypeInv'
  BY <1>1 DEF TypeInv, TypeOK, HashKnown, Holds, Respond, Aligned, historyVars
<1>2. ASSUME NEW p \in Procs, Start(p)
      PROVE  TypeInv'
  <2>1. met' \subseteq Procs \X Procs
    BY <1>2 DEF TypeInv, TypeOK, Start
  <2>2. TypeOK'
    BY <1>2, <2>1 DEF TypeInv, TypeOK, Start, historyVars
  <2>3. QED
    BY <1>2, <2>2 DEF TypeInv, HashKnown, Holds, Start, Aligned, historyVars
<1>3. ASSUME NEW p \in Procs, Stop(p)
      PROVE  TypeInv'
  BY <1>3 DEF TypeInv, TypeOK, HashKnown, Holds, Stop, InProgress, Aligned,
              historyVars
<1>4. CASE UNCHANGED vars
  BY <1>4 DEF vars, historyVars, TypeInv, TypeOK, HashKnown, Holds, Aligned
<1>5. QED
  BY <1>1, <1>2, <1>3, <1>4, AcquireType, ReadLastType, WriteType,
     WriteFailsType, CrashType DEF Next

LEMMA InitType == Init => TypeInv
<1>1. Init => TypeOK
  <2>1. <<>> \in Seq(Entry \cup Garbage) /\ 0 \in Nat /\ <<>> \in Seq(Procs)
    OBVIOUS
  <2>2. QED
    BY <2>1 DEF Init, TypeOK
<1>2. Init => HashKnown /\ Aligned
  BY DEF Init, HashKnown, Holds, Aligned
<1>3. QED
  BY <1>1, <1>2 DEF TypeInv

LEMMA TypeInvariant == Spec => []TypeInv
BY InitType, TypeStep, PTL DEF Spec

\* The file, the locks and the hashes of FileAuditSink keep their types.
THEOREM TypeCorrect == Spec => []TypeOK
<1>1. TypeInv => TypeOK
  BY DEF TypeInv
<1>2. QED
  BY <1>1, TypeInvariant, PTL

(***************************************************************************)
(* The chain.  What a process knows of the end of the file is the hash of  *)
(* the last line, unless that line was left by a failed write, does not    *)
(* parse, or was written by a process that was up at the same time         *)
(* (KnowsEnd); so the same holds between each line and the one before it   *)
(* (LineCaused), and the first line verify_audit_chain rejects has one of  *)
(* these causes.                                                           *)
(***************************************************************************)

\* A process that is down holds nothing.
Down == \A p \in Procs \ running :
  last[p] = None /\ job[p] = None /\ queue[p] = {}

Met == \A p, q \in running : p # q => <<p, q>> \in met

KnowsEnd(p) ==
  IF file = <<>> THEN last[p] = Genesis
  ELSE Parses(file[Len(file)]) =>
         \/ last[p] = file[Len(file)].hash
         \/ Len(file) \in left
         \/ <<authors[Len(file)], p>> \in met

Fresh == \A p \in Procs :
  (last[p] # None \/ Holds(p, "writing")) => KnowsEnd(p)

\* Why line i, if it parses, does not continue the line before it.
Apart(i) == i - 1 \in left \/ <<authors[i - 1], authors[i]>> \in met

LineCaused(i) ==
  /\ file[i].kind # "entry" => i \in left
  /\ ~file[i].ended => i \in left
  /\ file[i].kind = "entry" =>
       /\ file[i].hash = Append(file[i].prev, file[i].id)
       /\ i = 1 => file[i].prev = Genesis
       /\ (i > 1 /\ Parses(file[i - 1])) =>
            file[i].prev = file[i - 1].hash \/ Apart(i)

LinesCaused == \A i \in DOMAIN file : LineCaused(i)

CutShort == ~Decodable(file) => failed \cap NonAscii # {}

IInv == TypeInv /\ Down /\ Met /\ Fresh /\ LinesCaused /\ CutShort

\* Bytes that process p appends: a record that continues the hash it knows, or
\* what a failed write leaves of one.
Continues(part, p) ==
  /\ part \in FileLine
  /\ part.kind = "entry" =>
       part.prev = last[p] /\ part.hash = Append(part.prev, part.id)

LEMMA AppendCaused ==
  ASSUME IInv, NEW p \in Procs, Holds(p, "writing"), NEW part, Continues(part, p),
         file' = Appended(file, part), Signed(p),
         left \subseteq left', met' = met,
         (part.kind # "entry" \/ ~part.ended) =>
           (file' # file => Len(file') \in left')
  PROVE  LinesCaused'
<1> PICK n : n = Len(file')
  OBVIOUS
<1>1. /\ file \in Seq(FileLine) /\ part \in FileLine /\ Len(file) \in Nat
      /\ \E line \in FileLine : file' = Appended(file, line)
  BY DEF IInv, TypeInv, TypeOK, FileLine, Continues
<1>2. /\ file' \in Seq(FileLine) /\ file' # <<>> /\ n \in Nat /\ n >= 1
      /\ \A i \in 1..(n - 1) : i \in DOMAIN file /\ file'[i] = file[i]
      /\ \/ n = Len(file) + 1 /\ file'[n] = part
         \/ /\ n = Len(file) /\ file # <<>> /\ ~file[Len(file)].ended
            /\ file'[n] = Glued(file[Len(file)], part)
  <2>1. Extends(file', file, part)
    BY <1>1, AppendedShape
  <2>2. QED
    BY <2>1 DEF Extends
<1>3. /\ file' # file => authors'[n] = p
      /\ \A i \in 1..(n - 1) : authors'[i] = authors[i]
  BY <1>1, <1>2, SignedType DEF IInv
<1>4. DOMAIN file' = 1..n
  BY <1>2
\* Lines before the last are as they were.
<1>5. ASSUME NEW i \in 1..(n - 1)
      PROVE  LineCaused(i)'
  <2>1. /\ LineCaused(i) /\ file'[i] = file[i] /\ authors'[i] = authors[i]
        /\ i \in 1..Len(file)
    BY <1>1, <1>2, <1>3, <1>5 DEF IInv, LinesCaused
  <2>2. ASSUME i > 1
        PROVE  file'[i - 1] = file[i - 1] /\ authors'[i - 1] = authors[i - 1]
    <3>1. i - 1 \in 1..(n - 1)
      BY <1>2, <2>2
    <3>2. QED
      BY <1>2, <1>3, <3>1
  <2>3. QED
    BY <2>1, <2>2 DEF LineCaused, Apart
\* A line that others are glued to was left by a failed write.
<1>6. CASE /\ n = Len(file) /\ file # <<>> /\ ~file[Len(file)].ended
           /\ file'[n] = Glued(file[Len(file)], part)
  <2>1. n \in DOMAIN file
    BY <1>2, <1>6
  <2>2. n \in left'
    BY <1>6, <2>1 DEF IInv, LinesCaused, LineCaused
  <2>3. file'[n].kind # "entry"
    BY <1>6 DEF Glued
  <2>4. LineCaused(n)'
    BY <2>2, <2>3 DEF LineCaused
  <2>5. QED
    BY <1>2, <1>4, <1>5, <2>4 DEF LinesCaused
<1>7. CASE n = Len(file) + 1 /\ file'[n] = part
  <2>1. file' # file
    BY <1>1, <1>7
  <2>2. (part.kind # "entry" \/ ~part.ended) => n \in left'
    BY <2>1
  <2>3. ASSUME part.kind = "entry"
        PROVE  /\ part.prev = last[p] /\ part.hash = Append(part.prev, part.id)
               /\ KnowsEnd(p)
    BY <2>3 DEF IInv, Fresh, Continues
  <2>4. n = 1 => file = <<>>
    BY <1>1, <1>7
  <2>5. ASSUME n > 1
        PROVE  /\ file # <<>> /\ n - 1 = Len(file)
               /\ file'[n - 1] = file[Len(file)]
               /\ authors'[n - 1] = authors[Len(file)]
    <3>1. n - 1 = Len(file) /\ n - 1 \in 1..(n - 1)
      BY <1>1, <1>7, <2>5
    <3>2. QED
      BY <1>2, <1>3, <2>5, <3>1
  <2>6. LineCaused(n)'
    BY <1>3, <1>7, <2>1, <2>2, <2>3, <2>4, <2>5 DEF LineCaused, KnowsEnd, Apart
  <2>7. QED
    BY <1>2, <1>4, <1>5, <2>6 DEF LinesCaused
<1>8. QED
  BY <1>2, <1>6, <1>7

LEMMA ReadLastStep ==
  ASSUME IInv, NEW p \in Procs, ReadLast(p)
  PROVE  IInv'
<1>1. TypeInv' /\ TypeInv
  BY ReadLastType DEF IInv
<1>2. p \in running
  BY DEF IInv, Down, ReadLast, Holds
<1>3. UNCHANGED <<file, running, failed, left, authors, met>>
  BY DEF ReadLast, historyVars
<1>4. Down' /\ Met'
  BY <1>2, <1>3 DEF IInv, Down, Met, ReadLast, TypeInv, TypeOK
<1>5. \A q \in Procs \ {p} : last'[q] = last[q] /\ job'[q] = job[q]
  BY <1>1 DEF ReadLast, TypeInv, TypeOK
<1>6. last'[p] = LastHash(file) \/ (last'[p] = last[p] /\ job'[p] = None)
  BY <1>1 DEF ReadLast, TypeInv, TypeOK
<1>7. Fresh'
  BY <1>3, <1>5, <1>6 DEF IInv, Fresh, KnowsEnd, LastHash, Holds
<1>8. LinesCaused' /\ CutShort'
  BY <1>3 DEF IInv, LinesCaused, LineCaused, Apart, CutShort, Decodable
<1>9. QED
  BY <1>1, <1>4, <1>7, <1>8 DEF IInv

\* Nothing that is appended decodes what did not.
LEMMA AppendedDecodes ==
  ASSUME NEW f \in Seq(FileLine), NEW part \in FileLine,
         ~Decodable(Appended(f, part))
  PROVE  ~Decodable(f) \/ part.kind = "undecodable"
<1> DEFINE g == Appended(f, part)
           n == Len(g)
<1> Extends(g, f, part)
  BY AppendedShape
<1>1. /\ n \in Nat /\ DOMAIN g = 1..n
      /\ \A i \in 1..(n - 1) : i \in DOMAIN f /\ g[i] = f[i]
      /\ \/ n = Len(f) + 1 /\ g[n] = part
         \/ /\ n = Len(f) /\ f # <<>> /\ g[n] = Glued(f[Len(f)], part)
  BY DEF Extends
<1> HIDE DEF g, n
<1>2. PICK i \in 1..n : g[i].kind = "undecodable"
  BY <1>1 DEF Decodable, g
<1>3. CASE i # n
  BY <1>1, <1>2, <1>3 DEF Decodable
<1>4. CASE i = n /\ g[n] = part
  BY <1>2, <1>4
<1>5. CASE i = n /\ n = Len(f) /\ f # <<>> /\ g[n] = Glued(f[Len(f)], part)
  <2>1. Len(f) \in DOMAIN f
    BY <1>5
  <2>2. f[Len(f)].kind = "undecodable" \/ part.kind = "undecodable"
    BY <1>2, <1>5 DEF Glued
  <2>3. QED
    BY <2>1, <2>2 DEF Decodable
<1>6. QED
  BY <1>1, <1>3, <1>4, <1>5

LEMMA WriteStep ==
  ASSUME IInv, NEW p \in Procs, Write(p)
  PROVE  IInv'
<1> DEFINE line == Line(job[p].id, last[p])
<1>1. /\ TypeInv /\ TypeInv' /\ Holds(p, "writing") /\ job[p].id \in Records
      /\ file \in Seq(FileLine) /\ last[p] \in Hash
  BY WriteType, NextLine DEF IInv, Write, TypeInv, TypeOK, FileLine
<1>2. p \in running
  BY <1>1 DEF IInv, Down, Holds
<1>3. /\ UNCHANGED <<running, queue, failed, left, met>>
      /\ file' = Appended(file, line) /\ Signed(p)
      /\ last'[p] = line.hash /\ job'[p] = None
      /\ \A q \in Procs \ {p} : last'[q] = last[q] /\ job'[q] = job[q]
  BY <1>1 DEF Write, TypeInv, TypeOK
<1>4. Down' /\ Met'
  BY <1>2, <1>3 DEF IInv, Down, Met
<1>5. /\ line \in FileLine /\ line.kind = "entry" /\ line.ended
      /\ line.prev = last[p] /\ line.hash = Append(line.prev, line.id)
  BY <1>1, LineType DEF Line, FileLine
<1> HIDE DEF line
<1>7. LinesCaused'
  BY <1>1, <1>3, <1>5, AppendCaused DEF Continues
<1>8. CutShort'
  BY <1>1, <1>3, <1>5, AppendedDecodes DEF IInv, CutShort
<1>9. Fresh'
  <2> PICK n : n = Len(file')
    OBVIOUS
  <2>1. /\ file' # <<>> /\ n \in Nat
        /\ \/ n = Len(file) + 1 /\ file'[n] = line
           \/ n = Len(file) /\ file'[n].kind # "entry"
    <3>1. Extends(file', file, line)
      BY <1>1, <1>3, <1>5, AppendedShape
    <3>2. QED
      BY <3>1 DEF Extends, Glued
  <2>2. n = Len(file) + 1 => authors'[n] = p
    <3>1. n = Len(file) + 1 => file' # file
      <4>1. Len(file) \in Nat
        BY <1>1
      <4>2. ASSUME file' = file
            PROVE  n # Len(file) + 1
        <5>1. n = Len(file)
          BY <4>2, Zenon
        <5>2. QED
          BY <4>1, <5>1
      <4>3. QED
        BY <4>2
    <3>2. file' \in Seq(FileLine)
      BY <1>1, <1>3, <1>5, AppendedType
    <3>3. QED
      BY <1>1, <1>3, <1>5, <3>1, <3>2, SignedType
  <2>3. ASSUME NEW q \in Procs, last'[q] # None \/ Holds(q, "writing")', q # p
        PROVE  <<p, q>> \in met'
    BY <1>2, <1>3, <2>3 DEF IInv, Down, Met, Holds
  <2>4. ASSUME NEW q \in Procs, last'[q] # None \/ Holds(q, "writing")'
        PROVE  KnowsEnd(q)'
    <3>1. CASE n = Len(file) /\ file'[n].kind # "entry"
      BY <2>1, <3>1 DEF KnowsEnd, Parses
    <3>2. CASE n = Len(file) + 1 /\ file'[n] = line
      BY <1>3, <2>1, <2>2, <2>3, <2>4, <3>2 DEF KnowsEnd
    <3>3. QED
      BY <2>1, <3>1, <3>2
  <2>5. QED
    BY <2>4 DEF Fresh, Holds
<1>10. QED
  BY <1>1, <1>4, <1>7, <1>8, <1>9 DEF IInv

\* A write that fails and a crash release the lock, and forget the hash or
\* keep it; whatever they leave in the file is recorded as left.
LEMMA FaultStep ==
  ASSUME IInv, NEW p \in Procs, WriteFails(p) \/ Crash(p)
  PROVE  IInv'
<1>1. TypeInv /\ TypeInv' /\ file \in Seq(FileLine) /\ file' \in Seq(FileLine)
  BY WriteFailsType, CrashType, FaultFile DEF IInv, TypeInv, TypeOK, FileLine
<1>2. /\ met' = met /\ running' \subseteq running
      /\ job' = [job EXCEPT ![p] = None] /\ Signed(p) /\ Left
      /\ failed \subseteq failed' /\ (job[p] # None => job[p].id \in failed')
  BY DEF WriteFails, Crash, InProgress, Holds
<1>3. /\ last'[p] \in {last[p], None} /\ job'[p] = None
      /\ \A q \in Procs \ {p} : last'[q] = last[q] /\ job'[q] = job[q]
  BY <1>1 DEF WriteFails, Crash, TypeInv, TypeOK
<1>4. Met'
  BY <1>2 DEF IInv, Met
<1>5. Down'
  <2>1. CASE WriteFails(p)
    BY <1>3, <2>1 DEF IInv, Down, WriteFails, Holds
  <2>2. CASE Crash(p)
    <3>1. /\ running' = running \ {p} /\ last'[p] = None /\ queue'[p] = {}
          /\ \A q \in Procs \ {p} : queue'[q] = queue[q]
      BY <1>1, <2>2 DEF Crash, TypeInv, TypeOK
    <3>2. QED
      BY <1>3, <3>1 DEF IInv, Down
  <2>3. QED
    BY <2>1, <2>2
<1>6. left \subseteq left' /\ (file' # file => Len(file') \in left')
  BY <1>2 DEF Left
<1>7. CASE file' = file
  <2>1. authors' = authors /\ left' = left
    BY <1>2, <1>7 DEF Signed, Left
  <2>2. LinesCaused'
    BY <1>2, <1>7, <2>1 DEF IInv, LinesCaused, LineCaused, Apart
  <2>3. Fresh'
    BY <1>2, <1>3, <1>7, <2>1 DEF IInv, Fresh, KnowsEnd, Holds
  <2>4. CutShort'
    BY <1>2, <1>7 DEF IInv, CutShort, Decodable
  <2>5. QED
    BY <1>1, <1>4, <1>5, <2>2, <2>3, <2>4 DEF IInv
<1>8. CASE file' # file
  <2> DEFINE line == Line(job[p].id, last[p])
  <2>1. Holds(p, "writing")
    BY <1>1, <1>8, FaultFile
  <2>2. PICK part \in Parts(line) : part \in FileLine /\ file' = Appended(file, part)
    BY <1>1, <1>8, FaultFile
  <2>3. /\ line \in Entry /\ line.prev = last[p] /\ line.id = job[p].id
        /\ line.hash = Append(line.prev, line.id) /\ last[p] \in Hash
    BY <1>1, <2>1, NextLine DEF Line
  <2> HIDE DEF line
  <2>5. /\ part \in Fragment(line.id) => part.kind # "entry"
        /\ part \notin Fragment(line.id) =>
             part = line \/ part = [line EXCEPT !.ended = FALSE]
    <3>1. Fragment(line.id) \subseteq Garbage
      BY <2>3, PartsType
    <3>2. QED
      BY <2>2, <3>1 DEF Parts, Garbage
  <2>6. Continues(part, p)
    BY <2>2, <2>3, <2>5 DEF Continues, Entry
  <2>7. LinesCaused'
    BY <1>2, <1>6, <2>1, <2>2, <2>6, AppendCaused
  <2>8. Fresh'
    <3>1. file' # <<>>
      BY <1>1, <2>2, AppendedShape DEF Extends
    <3>2. QED
      BY <1>6, <1>8, <3>1 DEF Fresh, KnowsEnd
  <2>9. CutShort'
    <3>1. CASE part.kind = "undecodable"
      <4>1. part \in Fragment(line.id)
        BY <2>3, <2>5, <3>1 DEF Entry
      <4>2. line.id \in NonAscii
        BY <3>1, <4>1 DEF Fragment
      <4>3. QED
        BY <1>2, <2>1, <2>3, <4>2 DEF CutShort, Holds
    <3>2. CASE part.kind # "undecodable"
      BY <1>1, <1>2, <2>2, <3>2, AppendedDecodes DEF IInv, CutShort
    <3>3. QED
      BY <3>1, <3>2
  <2>10. QED
    BY <1>1, <1>4, <1>5, <2>7, <2>8, <2>9 DEF IInv
<1>9. QED
  BY <1>7, <1>8

LEMMA ChainStep ==
  ASSUME IInv, [Next]_vars
  PROVE  IInv'
<1>1. TypeInv /\ TypeInv'
  BY TypeStep DEF IInv
\* A step that leaves the file and its history alone.
<1>2. ASSUME UNCHANGED <<file, failed, left, authors>>, met \subseteq met'
      PROVE  LinesCaused' /\ CutShort'
  BY <1>2 DEF IInv, LinesCaused, LineCaused, Apart, CutShort, Decodable
<1>3. ASSUME UNCHANGED <<file, left, authors>>, met \subseteq met',
             \A q \in Procs :
               last'[q] # None \/ Holds(q, "writing")' =>
                 last'[q] = last[q] /\ (last[q] # None \/ Holds(q, "writing"))
      PROVE  Fresh'
  BY <1>3 DEF IInv, Fresh, KnowsEnd
<1>4. ASSUME NEW p \in Procs, NEW r \in Records, Respond(p, r)
      PROVE  IInv'
  <2>1. /\ UNCHANGED <<file, running, job, last, failed, left, authors, met>>
        /\ p \in running /\ \A q \in Procs \ {p} : queue'[q] = queue[q]
    BY <1>1, <1>4 DEF Respond, TypeInv, TypeOK, historyVars
  <2>2. Down' /\ Met'
    BY <2>1 DEF IInv, Down, Met
  <2>3. Fresh'
    BY <1>3, <2>1 DEF Holds
  <2>4. QED
    BY <1>1, <1>2, <2>1, <2>2, <2>3 DEF IInv
<1>5. ASSUME NEW p \in Procs, NEW r \in Records, Acquire(p, r)
      PROVE  IInv'
  <2>1. /\ UNCHANGED <<file, running, last, failed, left, authors, met>>
        /\ \A q \in Procs \ {p} : queue'[q] = queue[q] /\ job'[q] = job[q]
        /\ r \in queue[p]
    BY <1>1, <1>5 DEF Acquire, TypeInv, TypeOK, historyVars
  <2>2. p \in running
    BY <2>1 DEF IInv, Down
  <2>3. Down' /\ Met'
    BY <2>1, <2>2 DEF IInv, Down, Met
  <2>4. ASSUME Holds(p, "writing")'
        PROVE  last[p] # None
    <3> DEFINE next == [id |-> r, stage |-> IF last[p] = None THEN "reading" ELSE "writing"]
    <3>1. job'[p] = next
      BY <1>1, <1>5 DEF Acquire, TypeInv, TypeOK
    <3>2. job'[p].stage = "writing"
      BY <2>4 DEF Holds
    <3>3. next.stage = "writing"
      BY <3>1, <3>2
    <3>4. QED
      BY <3>3
  <2>5. Fresh'
    BY <1>3, <2>1, <2>4 DEF Holds
  <2>6. QED
    BY <1>1, <1>2, <2>1, <2>3, <2>5 DEF IInv
<1>6. ASSUME NEW p \in Procs, Start(p)
      PROVE  IInv'
  <2>1. /\ UNCHANGED <<file, queue, job, last, failed, left, authors>>
        /\ running' = running \cup {p}
        /\ met' = met \cup ({p} \X running) \cup (running \X {p})
    BY <1>6 DEF Start, historyVars
  <2>2. Down' /\ Met'
    BY <2>1 DEF IInv, Down, Met
  <2>3. Fresh'
    BY <1>3, <2>1 DEF Holds
  <2>4. QED
    BY <1>1, <1>2, <2>1, <2>2, <2>3 DEF IInv
<1>7. ASSUME NEW p \in Procs, Stop(p)
      PROVE  IInv'
  <2>1. /\ UNCHANGED <<file, queue, job, failed, left, authors, met>>
        /\ running' = running \ {p} /\ InProgress(p) = {} /\ last'[p] = None
        /\ \A q \in Procs \ {p} : last'[q] = last[q]
    BY <1>1, <1>7 DEF Stop, TypeInv, TypeOK, historyVars
  <2>2. job[p] = None /\ queue[p] = {}
    BY <2>1 DEF InProgress
  <2>3. Down' /\ Met'
    BY <2>1, <2>2 DEF IInv, Down, Met
  <2>4. Fresh'
    BY <1>3, <2>1, <2>2 DEF Holds
  <2>5. QED
    BY <1>1, <1>2, <2>1, <2>3, <2>4 DEF IInv
<1>8. CASE UNCHANGED vars
  <2>1. UNCHANGED <<file, running, queue, job, last, failed, left, authors, met>>
    BY <1>8 DEF vars, historyVars
  <2>2. Down' /\ Met' /\ Fresh'
    BY <1>3, <2>1 DEF IInv, Down, Met, Holds
  <2>3. QED
    BY <1>1, <1>2, <2>1, <2>2 DEF IInv
<1>9. QED
  BY <1>4, <1>5, <1>6, <1>7, <1>8, ReadLastStep, WriteStep, FaultStep DEF Next

LEMMA ChainInvariant == Spec => []IInv
<1>1. Init => IInv
  <2>1. Init => Down /\ Met /\ Fresh
    BY DEF Init, Down, Met, Fresh, Holds
  <2>2. Init => LinesCaused /\ CutShort
    BY DEF Init, LinesCaused, CutShort, Decodable
  <2>3. QED
    BY <2>1, <2>2, InitType DEF IInv
<1>2. QED
  BY <1>1, ChainStep, PTL DEF Spec

LEMMA LeastBreak ==
  ASSUME NEW S \in SUBSET Nat, S # {}
  PROVE  Min(S) \in S /\ \A y \in S : Min(S) <= y
<1> DEFINE Less == {ss \in Nat \X Nat : ss[1] < ss[2]}
<1>1. IsWellFoundedOn(Less, Nat)
  BY NatLessThanWellFounded DEF OpToRel
<1>2. \A x, y \in S : y < x => <<y, x>> \in Less
  OBVIOUS
<1> HIDE DEF Less
<1>3. PICK x \in S : \A y \in S : ~ (<<y, x>> \in Less)
  BY <1>1, WFMin
<1>4. \A y \in S : x <= y
  <2>1. \A y \in S : ~ (y < x)
    BY <1>2, <1>3, Zenon
  <2>2. QED
    BY <2>1
<1>5. QED
  BY <1>4 DEF Min

\* What verify_audit_chain returns: the first broken line, 0 or Raises.
LEMMA Reported ==
  ASSUME NEW f \in Seq(FileLine), NEW n, n = VerifyAuditChain(f)
  PROVE  \/ ~Decodable(f) /\ n = Raises
         \/ /\ Decodable(f) /\ n = 0
            /\ \A i \in DOMAIN f : ~Broken(f, i)
         \/ /\ Decodable(f) /\ n \in DOMAIN f /\ Broken(f, n)
            /\ \A i \in 1..(n - 1) : ~Broken(f, i)
<1> DEFINE breaks == {i \in DOMAIN f : Broken(f, i)}
<1>1. breaks \in SUBSET Nat /\ DOMAIN f = 1..Len(f) /\ Len(f) \in Nat
  OBVIOUS
<1>2. CASE ~Decodable(f)
  BY <1>2 DEF VerifyAuditChain
<1>3. CASE Decodable(f) /\ breaks = {}
  BY <1>3 DEF VerifyAuditChain
<1>4. CASE Decodable(f) /\ breaks # {}
  <2>1. n = Min(breaks)
    BY <1>4 DEF VerifyAuditChain
  <2>2. n \in breaks /\ \A i \in breaks : n <= i
    BY <1>1, <1>4, <2>1, LeastBreak
  <2>3. ASSUME NEW i \in 1..(n - 1)
        PROVE  ~Broken(f, i)
    <3>1. i \in DOMAIN f /\ ~(n <= i)
      BY <1>1, <2>2
    <3>2. QED
      BY <2>2, <3>1
  <2>4. QED
    BY <1>4, <2>2, <2>3
<1>5. QED
  BY <1>2, <1>3, <1>4

\* The lines before line i end with line i - 1.
LEMMA Before ==
  ASSUME NEW f \in Seq(FileLine), NEW i \in DOMAIN f, i > 1
  PROVE  LET before == SubSeq(f, 1, i - 1) IN
         /\ i - 1 \in DOMAIN f /\ before # <<>> /\ before[Len(before)] = f[i - 1]
         /\ LastHash(before) = f[i - 1].hash
         /\ Decodable(f) => Decodable(before)
<1> DEFINE before == SubSeq(f, 1, i - 1)
<1>1. i \in 1..Len(f) /\ Len(f) \in Nat
  OBVIOUS
<1>2. /\ before \in Seq(FileLine) /\ Len(before) = i - 1 /\ before # <<>>
      /\ \A j \in 1..(i - 1) : before[j] = f[j]
  BY <1>1
<1>3. DOMAIN before = 1..(i - 1)
  BY <1>2
<1> HIDE DEF before
<1>4. before[Len(before)] = f[i - 1] /\ i - 1 \in DOMAIN f
  BY <1>1, <1>2
<1>5. LastHash(before) = f[i - 1].hash
  BY <1>2, <1>4 DEF LastHash
<1>6. Decodable(f) => Decodable(before)
  BY <1>1, <1>2, <1>3 DEF Decodable
<1>7. QED
  BY <1>2, <1>4, <1>5, <1>6 DEF before

LEMMA CausedBreak ==
  ASSUME IInv, NEW n \in DOMAIN file, Decodable(file), Broken(file, n),
         \A i \in 1..(n - 1) : ~Broken(file, i)
  PROVE  \/ n \in left
         \/ file[n].kind = "entry" /\ file[n].id \in Splitting
         \/ n > 1 /\ Apart(n)
<1>1. file \in Seq(FileLine) /\ n \in Nat /\ n >= 1 /\ LineCaused(n)
  BY DEF IInv, TypeInv, TypeOK, FileLine, LinesCaused
<1>2. CASE ~Parses(file[n])
  BY <1>1, <1>2 DEF Parses, LineCaused
<1>3. CASE Parses(file[n]) /\ n = 1
  <2>1. SubSeq(file, 1, n - 1) = <<>>
    BY <1>1, <1>3
  <2>2. QED
    BY <1>1, <1>3, <2>1 DEF Broken, Unreadable, LastHash, Decodable, Parses, LineCaused
<1>4. CASE Parses(file[n]) /\ n > 1
  <2> DEFINE before == SubSeq(file, 1, n - 1)
  <2>1. /\ before # <<>> /\ before[Len(before)] = file[n - 1]
        /\ LastHash(before) = file[n - 1].hash /\ Decodable(before)
    BY <1>1, <1>4, Before
  <2> HIDE DEF before
  <2>2. ~Broken(file, n - 1)
    <3>1. n - 1 \in 1..(n - 1)
      BY <1>1, <1>4
    <3>2. QED
      BY <3>1
  <2>3. Parses(file[n - 1])
    BY <2>2 DEF Broken
  <2>4. ~Unreadable(before)
    BY <2>1, <2>3 DEF Unreadable
  <2>5. file[n].prev # file[n - 1].hash
    BY <1>1, <1>4, <2>1, <2>4 DEF Broken, LineCaused, Parses, before
  <2>6. QED
    BY <1>1, <1>4, <2>3, <2>5 DEF LineCaused, Parses
<1>5. QED
  BY <1>1, <1>2, <1>3, <1>4

\* Of a file nobody tampered with, verify_audit_chain rejects a line only where
\* a failed write left bytes, where a record holds a character at which lines
\* are split, or where processes that were up together wrote; and it raises
\* only after a record with characters of several bytes was cut short.
THEOREM BreakCause == Spec => []BreakHasCause
<1>1. ASSUME IInv
      PROVE  BreakHasCause
  <2> PICK n : n = VerifyAuditChain(file)
    OBVIOUS
  <2>1. file \in Seq(FileLine)
    BY <1>1 DEF IInv, TypeInv, TypeOK, FileLine
  <2>2. CASE ~Decodable(file) /\ n = Raises
    BY <1>1, <2>2 DEF IInv, CutShort, BreakHasCause, Raises
  <2>3. CASE n = 0
    BY <2>3 DEF BreakHasCause, Raises
  <2>4. CASE /\ Decodable(file) /\ n \in DOMAIN file /\ Broken(file, n)
             /\ \A i \in 1..(n - 1) : ~Broken(file, i)
    <3>1. \/ n \in left
          \/ file[n].kind = "entry" /\ file[n].id \in Splitting
          \/ n > 1 /\ Apart(n)
      BY <1>1, <2>4, CausedBreak
    <3>2. n # Raises
      BY <2>1, <2>4 DEF Raises
    <3>3. QED
      BY <3>1, <3>2 DEF BreakHasCause, Apart
  <2>5. QED
    BY <2>1, <2>2, <2>3, <2>4, Reported
<1>2. QED
  BY <1>1, ChainInvariant, PTL

(***************************************************************************)
(* No record is lost without a cause.  While no failed write has left      *)
(* bytes the file holds whole entries only; if none of them is split, each *)
(* process can read the last hash, and the record of an answered decision  *)
(* is in the file, or its task is on its way, or its own write failed or   *)
(* its process crashed.                                                    *)
(***************************************************************************)

Whole(f) == \A i \in DOMAIN f : f[i].kind = "entry" /\ f[i].ended

Accounted == \A r \in answered \ failed :
  r \in Recorded \/ \E p \in Procs : r \in InProgress(p)

NothingSplit == Recorded \cap Splitting = {}

RecordInv ==
  TypeInv /\ (left = {} => Whole(file) /\ (NothingSplit => Accounted))

LEMMA WholeAppend ==
  ASSUME NEW f \in Seq(FileLine), Whole(f), NEW line \in Entry, line.ended
  PROVE  Appended(f, line) = Append(f, line) /\ Whole(Append(f, line))
<1>1. f # <<>> => Len(f) \in DOMAIN f
  OBVIOUS
<1>2. Appended(f, line) = Append(f, line)
  BY <1>1 DEF Appended, Whole
<1>3. line.kind = "entry" /\ line \in FileLine
  BY DEF Entry, FileLine
<1>4. QED
  BY <1>2, <1>3 DEF Whole

\* A step that leaves the file alone, and in which a record that was in
\* progress still is, or has failed.
LEMMA AccountedFrame ==
  ASSUME NothingSplit => Accounted,
         UNCHANGED <<file, answered>>, failed \subseteq failed',
         \A q \in Procs : InProgress(q) \subseteq InProgress(q)' \cup failed'
  PROVE  NothingSplit' => Accounted'
BY DEF NothingSplit, Accounted, Recorded

LEMMA RecordStep ==
  ASSUME RecordInv, [Next]_vars
  PROVE  RecordInv'
<1>1. TypeInv /\ TypeInv' /\ TypeOK
  BY TypeStep DEF RecordInv, TypeInv
<1>2. SUFFICES ASSUME left' = {}
               PROVE  Whole(file)' /\ (NothingSplit' => Accounted')
  BY <1>1 DEF RecordInv
<1>3. left = {}
  BY <1>2 DEF Next, vars, historyVars, Respond, Acquire, ReadLast, Write, WriteFails,
              Start, Stop, Crash, Left
<1>4. Whole(file) /\ (NothingSplit => Accounted) /\ file \in Seq(FileLine)
  BY <1>1, <1>3 DEF RecordInv, TypeOK, FileLine
<1>5. ASSUME NEW p \in Procs, NEW r \in Records, Respond(p, r)
      PROVE  Whole(file)' /\ (NothingSplit' => Accounted')
  <2>1. /\ UNCHANGED <<file, job, failed>> /\ answered' = answered \cup {r}
        /\ r \in queue'[p] /\ \A q \in Procs : queue[q] \subseteq queue'[q]
    BY <1>1, <1>5 DEF Respond, TypeOK
  <2>2. /\ r \in InProgress(p)'
        /\ \A q \in Procs : InProgress(q) \subseteq InProgress(q)'
    BY <2>1 DEF InProgress
  <2>3. QED
    BY <1>4, <2>1, <2>2 DEF Whole, NothingSplit, Accounted, Recorded
<1>6. ASSUME NEW p \in Procs, NEW r \in Records, Acquire(p, r)
      PROVE  Whole(file)' /\ (NothingSplit' => Accounted')
  <2>1. /\ UNCHANGED <<file, answered, failed>> /\ job[p] = None
        /\ queue'[p] = queue[p] \ {r} /\ job'[p].id = r /\ job'[p] \in Job \cup {None}
        /\ \A q \in Procs \ {p} : queue'[q] = queue[q] /\ job'[q] = job[q]
    BY <1>1, <1>6 DEF Acquire, TypeInv, TypeOK
  <2>2. job'[p] # None
    <3>1. [id |-> r, stage |-> IF last[p] = None THEN "reading" ELSE "writing"] \in Job
      BY DEF Job
    <3>2. QED
      BY <1>1, <1>6, <3>1, NoneAssumption DEF Acquire, TypeOK
  <2>3. \A q \in Procs : InProgress(q) \subseteq InProgress(q)'
    BY <2>1, <2>2 DEF InProgress
  <2>4. QED
    BY <1>4, <2>1, <2>3, AccountedFrame DEF Whole
<1>7. ASSUME NEW p \in Procs, ReadLast(p)
      PROVE  Whole(file)' /\ (NothingSplit' => Accounted')
  <2> UNCHANGED <<file, answered, failed>>
    BY <1>7 DEF ReadLast
  <2> SUFFICES ASSUME NothingSplit
               PROVE  NothingSplit' => Accounted'
    BY <1>4 DEF Whole, NothingSplit, Recorded
  <2>1. ~Unreadable(file)
    <3>1. file # <<>> => Len(file) \in DOMAIN file
      BY <1>4
    <3>2. \A i \in DOMAIN file : Parses(file[i]) /\ file[i].kind # "undecodable"
      BY <1>4 DEF Parses, NothingSplit, Recorded, Whole
    <3>3. QED
      BY <3>1, <3>2 DEF Unreadable, Decodable
  <2>2. job[p] # None /\ job[p] \in Job
    BY <1>1, <1>7 DEF ReadLast, Holds, TypeOK
  <2>3. /\ UNCHANGED <<file, queue, answered, failed>>
        /\ job'[p] = [job[p] EXCEPT !.stage = "writing"]
        /\ \A q \in Procs \ {p} : job'[q] = job[q]
    BY <1>1, <1>7, <2>1 DEF ReadLast, TypeOK
  <2>4. job'[p].id = job[p].id /\ job'[p] # None
    <3>1. job'[p] \in Job
      BY <2>2, <2>3 DEF Job
    <3>2. job'[p] # None
      BY <3>1, NoneAssumption
    <3>3. QED
      BY <2>2, <2>3, <3>2 DEF Job
  <2>5. \A q \in Procs : InProgress(q) \subseteq InProgress(q)'
    BY <2>2, <2>3, <2>4 DEF InProgress
  <2>6. QED
    BY <1>4, <2>3, <2>5, AccountedFrame
<1>8. ASSUME NEW p \in Procs, Write(p)
      PROVE  Whole(file)' /\ (NothingSplit' => Accounted')
  <2> DEFINE line == Line(job[p].id, last[p])
  <2>1. line \in Entry
    BY <1>1, <1>8, NextLine DEF Write
  <2>2. line.ended /\ line.id = job[p].id /\ line.kind = "entry" /\ line \in FileLine
    BY <2>1 DEF Line, FileLine
  <2>3. /\ file' = Appended(file, line)
        /\ UNCHANGED <<queue, answered, failed>>
        /\ \A q \in Procs \ {p} : job'[q] = job[q]
    BY <1>1, <1>8 DEF Write, TypeOK
  <2> HIDE DEF line
  <2>4. file' = Append(file, line) /\ Whole(file')
    BY <1>4, <2>1, <2>2, <2>3, WholeAppend
  <2>5. Recorded \subseteq Recorded' /\ job[p].id \in Recorded'
    <3>1. /\ \A i \in DOMAIN file : i \in DOMAIN file' /\ file'[i] = file[i]
          /\ Len(file) + 1 \in DOMAIN file' /\ file'[Len(file) + 1] = line
      BY <1>4, <2>2, <2>4
    <3>2. QED
      BY <2>2, <3>1 DEF Recorded
  <2>6. \A q \in Procs : InProgress(q) \subseteq InProgress(q)' \cup {job[p].id}
    BY <2>3 DEF InProgress
  <2>7. NothingSplit' => Accounted'
    BY <1>4, <2>3, <2>5, <2>6 DEF NothingSplit, Accounted
  <2>8. QED
    BY <2>4, <2>7 DEF Whole
<1>9. ASSUME NEW p \in Procs, WriteFails(p)
      PROVE  Whole(file)' /\ (NothingSplit' => Accounted')
  <2>1. /\ file' = file /\ UNCHANGED <<answered, queue>>
        /\ failed' = failed \cup {job[p].id}
        /\ \A q \in Procs \ {p} : job'[q] = job[q]
    BY <1>1, <1>2, <1>9 DEF WriteFails, TypeOK, Left
  <2>2. \A q \in Procs : InProgress(q) \subseteq InProgress(q)' \cup failed'
    BY <2>1 DEF InProgress
  <2>3. QED
    BY <1>4, <2>1, <2>2, AccountedFrame DEF Whole
<1>10. ASSUME NEW p \in Procs, Crash(p)
       PROVE  Whole(file)' /\ (NothingSplit' => Accounted')
  <2>1. /\ file' = file /\ UNCHANGED answered /\ failed' = failed \cup InProgress(p)
        /\ \A q \in Procs \ {p} : job'[q] = job[q] /\ queue'[q] = queue[q]
    BY <1>1, <1>2, <1>10 DEF Crash, TypeOK, Left
  <2>2. \A q \in Procs \ {p} : InProgress(q)' = InProgress(q)
    BY <2>1 DEF InProgress
  <2>3. QED
    BY <1>4, <2>1, <2>2, AccountedFrame DEF Whole
<1>11. ASSUME NEW p \in Procs, Start(p) \/ Stop(p)
       PROVE  Whole(file)' /\ (NothingSplit' => Accounted')
  BY <1>4, <1>11, AccountedFrame DEF Start, Stop, InProgress, Whole
<1>12. CASE UNCHANGED vars
  BY <1>4, <1>12, AccountedFrame DEF vars, InProgress, Whole
<1>13. QED
  BY <1>5, <1>6, <1>7, <1>8, <1>9, <1>10, <1>11, <1>12 DEF Next

\* The record of an answered decision is missing from the file, its task ended,
\* only if its own write failed, its process crashed, an earlier failed write
\* had left bytes in the file, or a record in the file reads as several lines
\* (FileAuditSink.record).
THEOREM LossHasCause == Spec => []LostHasCause
<1>1. Init => RecordInv
  <2>1. Init => Whole(file) /\ Accounted
    BY DEF Init, Whole, Accounted
  <2>2. QED
    BY <2>1, InitType DEF RecordInv
<1>2. RecordInv => LostHasCause
  BY DEF RecordInv, Accounted, NothingSplit, LostHasCause, Lost
<1>3. QED
  BY <1>1, <1>2, RecordStep, PTL DEF Spec

(***************************************************************************)
(* What verify_audit_chain says of a line depends on the lines up to it.   *)
(***************************************************************************)

LEMMA BrokenPrefix ==
  ASSUME NEW f \in Seq(FileLine), NEW g \in Seq(FileLine),
         NEW i \in DOMAIN f \cap DOMAIN g,
         \A k \in 1..i : g[k] = f[k]
  PROVE  Broken(g, i) <=> Broken(f, i)
<1>1. i \in 1..Len(f) /\ i \in 1..Len(g) /\ Len(f) \in Nat /\ Len(g) \in Nat
  OBVIOUS
<1>2. SubSeq(g, 1, i - 1) = SubSeq(f, 1, i - 1)
  BY <1>1
<1>3. g[i] = f[i]
  BY <1>1
<1>4. QED
  BY <1>2, <1>3 DEF Broken

\* The lines that verify, of any file.
VerifiedOf(f) == {i \in DOMAIN f : f[i].ended /\ \A j \in 1..i : ~Broken(f, j)}

\* Appending changes no line that has its newline, nor one before it.
LEMMA AppendedKeeps ==
  ASSUME NEW f \in Seq(FileLine), NEW line \in FileLine
  PROVE  VerifiedOf(f) \subseteq VerifiedOf(Appended(f, line))
<1> DEFINE g == Appended(f, line)
<1>1. g \in Seq(FileLine)
  BY AppendedType
<1>2. ASSUME NEW i \in DOMAIN f, f[i].ended
      PROVE  i \in DOMAIN g /\ \A k \in 1..i : g[k] = f[k]
  <2>1. CASE f # <<>> /\ ~f[Len(f)].ended
    <3>1. i # Len(f)
      BY <1>2, <2>1
    <3>2. QED
      BY <1>2, <2>1, <3>1 DEF Appended
  <2>2. CASE ~(f # <<>> /\ ~f[Len(f)].ended)
    <3>1. g = Append(f, line)
      BY <2>2 DEF Appended
    <3>2. QED
      BY <1>2, <3>1
  <2>3. QED
    BY <2>1, <2>2
<1> HIDE DEF g
<1>3. ASSUME NEW i \in VerifiedOf(f)
      PROVE  i \in VerifiedOf(g)
  <2>1. i \in DOMAIN f /\ f[i].ended /\ \A j \in 1..i : ~Broken(f, j)
    BY <1>3 DEF VerifiedOf
  <2>2. i \in DOMAIN g /\ \A k \in 1..i : g[k] = f[k]
    BY <1>2, <2>1
  <2>3. ASSUME NEW j \in 1..i
        PROVE  ~Broken(g, j)
    <3>1. j \in DOMAIN f \cap DOMAIN g /\ \A k \in 1..j : g[k] = f[k]
      BY <1>1, <2>1, <2>2
    <3>2. QED
      BY <1>1, <2>1, <3>1, BrokenPrefix
  <2>4. g[i] = f[i]
    BY <2>1, <2>2
  <2>5. QED
    BY <2>1, <2>2, <2>3, <2>4 DEF VerifiedOf
<1>4. QED
  BY <1>3 DEF g

\* What a write that fails leaves changes no line that verifies either.
LEMMA PartialKeeps ==
  ASSUME NEW f \in Seq(FileLine), NEW line \in Entry, NEW g \in Partial(f, line)
  PROVE  VerifiedOf(f) \subseteq VerifiedOf(g)
<1>1. Parts(line) \subseteq FileLine
  BY PartsType
<1>2. CASE g = f
  BY <1>2
<1>3. ASSUME NEW part \in Parts(line), g = Appended(f, part)
      PROVE  VerifiedOf(f) \subseteq VerifiedOf(g)
  BY <1>1, <1>3, AppendedKeeps
<1>4. QED
  BY <1>2, <1>3, PartialCases

LEMMA VerifiedStep ==
  ASSUME TypeInv, [Next]_vars
  PROVE  Verified \subseteq Verified'
<1>1. file \in Seq(FileLine)
  BY DEF TypeInv, TypeOK, FileLine
<1>2. VerifiedOf(file) \subseteq VerifiedOf(file')
  <2>1. ASSUME NEW p \in Procs, Write(p)
        PROVE  VerifiedOf(file) \subseteq VerifiedOf(file')
    <3>1. Line(job[p].id, last[p]) \in FileLine
      BY <2>1, NextLine DEF Write, FileLine
    <3>2. QED
      BY <1>1, <2>1, <3>1, AppendedKeeps DEF Write
  <2>2. ASSUME NEW p \in Procs, WriteFails(p) \/ Crash(p)
        PROVE  VerifiedOf(file) \subseteq VerifiedOf(file')
    <3>1. CASE Holds(p, "writing")
      <4>1. /\ Line(job[p].id, last[p]) \in Entry
            /\ file' \in Partial(file, Line(job[p].id, last[p]))
        BY <2>2, <3>1, NextLine DEF WriteFails, Crash
      <4>2. QED
        BY <1>1, <4>1, PartialKeeps
    <3>2. CASE ~Holds(p, "writing")
      <4>1. file' = file
        BY <2>2, <3>2 DEF WriteFails, Crash
      <4>2. QED
        BY <4>1
    <3>3. QED
      BY <3>1, <3>2
  <2>3. CASE UNCHANGED file
    BY <2>3
  <2>4. QED
    BY <2>1, <2>2, <2>3
       DEF Next, vars, Respond, Acquire, ReadLast, Start, Stop
<1>3. QED
  BY <1>2 DEF Verified, VerifiedOf, Broken, Unreadable, LastHash

\* No step of FileAuditSink, a failed write or a crash included, makes
\* verify_audit_chain reject a record it has accepted, while the file decodes.
THEOREM VerifiedStays == Spec => VerifiedKept
<1>1. TypeInv /\ [Next]_vars => [Decodable(file') => Verified \subseteq Verified']_vars
  BY VerifiedStep
<1>2. QED
  BY <1>1, TypeInvariant, PTL DEF Spec, VerifiedKept

(***************************************************************************)
(* Tampering.  The line verify_audit_chain reports is the first broken one *)
(* and in an intact file every line is chained to the one before it.       *)
(***************************************************************************)

LEMMA IntactLine ==
  ASSUME NEW f \in Seq(FileLine), Intact(f), NEW i \in DOMAIN f
  PROVE  ~Broken(f, i) /\ Decodable(f)
<1> PICK n : n = VerifyAuditChain(f)
  OBVIOUS
<1>1. n = 0 /\ 0 \notin DOMAIN f
  BY DEF Intact
<1>2. n # Raises
  BY <1>1 DEF Raises
<1>3. QED
  BY <1>1, <1>2, Reported, Zenon

LEMMA FirstBreak ==
  ASSUME NEW f \in Seq(FileLine), Decodable(f), NEW i \in DOMAIN f, Broken(f, i),
         \A j \in 1..(i - 1) : ~Broken(f, j)
  PROVE  VerifyAuditChain(f) = i
<1> PICK n : n = VerifyAuditChain(f)
  OBVIOUS
<1>1. DOMAIN f = 1..Len(f) /\ Len(f) \in Nat
  OBVIOUS
<1>2. n \in DOMAIN f /\ Broken(f, n) /\ \A j \in 1..(n - 1) : ~Broken(f, j)
  BY Reported
<1>3. ~(n < i) /\ ~(i < n)
  BY <1>1, <1>2
<1>4. QED
  BY <1>1, <1>2, <1>3

\* A file whose lines before i are those of an intact one, and whose line i is
\* broken, is reported at i.
LEMMA ReportedAt ==
  ASSUME NEW f \in Seq(FileLine), Intact(f), NEW g \in Seq(FileLine),
         NEW i \in DOMAIN f \cap DOMAIN g,
         \A k \in 1..(i - 1) : g[k] = f[k],
         Broken(g, i), Decodable(g)
  PROVE  VerifyAuditChain(g) = i
<1>1. ASSUME NEW j \in 1..(i - 1)
      PROVE  ~Broken(g, j)
  <2>1. j \in DOMAIN f \cap DOMAIN g /\ \A k \in 1..j : g[k] = f[k]
    OBVIOUS
  <2>2. QED
    BY <2>1, BrokenPrefix, IntactLine
<1>2. QED
  BY <1>1, FirstBreak

\* The hash and the previous hash of a line of an intact file.
LEMMA IntactEntry ==
  ASSUME NEW f \in Seq(FileLine), Intact(f), NEW i \in DOMAIN f
  PROVE  /\ f[i] \in Entry
         /\ f[i].hash = Append(f[i].prev, f[i].id)
         /\ f[i].prev = LastHash(SubSeq(f, 1, i - 1))
         /\ i > 1 => f[i].prev = f[i - 1].hash
<1>1. ~Broken(f, i)
  BY IntactLine
<1>2. /\ f[i].kind = "entry" /\ f[i].hash = Append(f[i].prev, f[i].id)
      /\ f[i].prev = LastHash(SubSeq(f, 1, i - 1))
  BY <1>1 DEF Broken, Parses
<1>3. f[i] \in Entry
  BY <1>2 DEF FileLine, Garbage
<1>4. i > 1 => LastHash(SubSeq(f, 1, i - 1)) = f[i - 1].hash
  BY Before
<1>5. QED
  BY <1>2, <1>3, <1>4

\* The next line does not chain to the lines before i.
LEMMA NextLineBroken ==
  ASSUME NEW f \in Seq(FileLine), Intact(f), NEW i \in DOMAIN f, i < Len(f),
         NEW g \in Seq(FileLine), i \in DOMAIN g,
         \A k \in 1..(i - 1) : g[k] = f[k],
         g[i] = f[i + 1], Decodable(g)
  PROVE  VerifyAuditChain(g) = i
<1>1. i \in Nat /\ i + 1 \in DOMAIN f /\ i + 1 > 1 /\ (i + 1) - 1 = i
  OBVIOUS
<1>2. f[i + 1].prev = f[i].hash
  BY <1>1, IntactEntry
<1>3. /\ f[i] \in Entry /\ f[i].hash = Append(f[i].prev, f[i].id)
      /\ f[i].prev = LastHash(SubSeq(f, 1, i - 1))
  BY IntactEntry
<1>4. f[i].prev \in Seq(Records) /\ f[i].id \in Records
  BY <1>3 DEF Entry, Hash
<1>5. Append(f[i].prev, f[i].id) # f[i].prev
  <2>1. Len(Append(f[i].prev, f[i].id)) # Len(f[i].prev)
    BY <1>4
  <2>2. QED
    BY <2>1
<1>6. SubSeq(g, 1, i - 1) = SubSeq(f, 1, i - 1)
  BY <1>1
<1>7. g[i].prev # LastHash(SubSeq(g, 1, i - 1))
  BY <1>2, <1>3, <1>5, <1>6
<1>8. Broken(g, i)
  BY <1>7 DEF Broken
<1>9. QED
  BY <1>8, ReportedAt

LEMMA EditBroken ==
  ASSUME NEW f \in Seq(FileLine), Intact(f), NEW i \in DOMAIN f,
         NEW r \in Records \ {f[i].id}
  PROVE  VerifyAuditChain([f EXCEPT ![i].id = r]) = i
<1> DEFINE line == [f[i] EXCEPT !.id = r]
           g == [f EXCEPT ![i] = line]
<1>1. f[i] \in Entry /\ f[i].hash = Append(f[i].prev, f[i].id)
  BY IntactEntry
<1>2. /\ line \in Entry /\ line.prev = f[i].prev /\ line.hash = f[i].hash
      /\ line.id = r
  BY <1>1 DEF Entry
<1>3. f[i].prev \in Seq(Records) /\ f[i].id \in Records
  BY <1>1 DEF Entry, Hash
<1> HIDE DEF line
<1>4. /\ g \in Seq(FileLine) /\ i \in DOMAIN g /\ g[i] = line
      /\ \A k \in 1..(i - 1) : g[k] = f[k]
      /\ \A k \in DOMAIN g : k \in DOMAIN f /\ (k # i => g[k] = f[k])
  BY <1>2 DEF FileLine
<1> HIDE DEF g
<1>5. Decodable(g)
  BY <1>2, <1>4, IntactLine DEF Decodable, Entry
<1>6. Append(f[i].prev, r) # Append(f[i].prev, f[i].id)
  <2>1. /\ Append(f[i].prev, r)[Len(f[i].prev) + 1] = r
        /\ Append(f[i].prev, f[i].id)[Len(f[i].prev) + 1] = f[i].id
    BY <1>3
  <2>2. QED
    BY <2>1
<1>7. Broken(g, i)
  BY <1>1, <1>2, <1>4, <1>6 DEF Broken
<1>8. VerifyAuditChain(g) = i
  BY <1>4, <1>7, <1>5, ReportedAt
<1>9. QED
  BY <1>8 DEF g, line

LEMMA RemoveBroken ==
  ASSUME NEW f \in Seq(FileLine), Intact(f), NEW i \in DOMAIN f, i < Len(f)
  PROVE  VerifyAuditChain(RemoveAt(f, i)) = i
<1> DEFINE before == SubSeq(f, 1, i - 1)
           after == SubSeq(f, i + 1, Len(f))
           g == before \o after
<1>1. i \in Nat /\ Len(f) \in Nat /\ i >= 1
  OBVIOUS
<1>2. /\ before \in Seq(FileLine) /\ Len(before) = i - 1
      /\ \A k \in 1..(i - 1) : before[k] = f[k]
  BY <1>1
<1>3. after \in Seq(FileLine) /\ Len(after) = Len(f) - i /\ after[1] = f[i + 1]
  BY <1>1
<1> HIDE DEF before, after
<1>4. /\ g \in Seq(FileLine) /\ i \in DOMAIN g /\ g[i] = f[i + 1]
      /\ \A k \in 1..(i - 1) : g[k] = f[k]
  BY <1>1, <1>2, <1>3
<1>5. Decodable(g)
  <2>1. Decodable(f) /\ Decodable(before) /\ Decodable(after)
    BY <1>1, IntactLine DEF Decodable, before, after
  <2>2. QED
    BY <1>2, <1>3, <2>1 DEF Decodable
<1> HIDE DEF g
<1>6. VerifyAuditChain(g) = i
  BY <1>4, <1>5, NextLineBroken
<1>7. QED
  BY <1>6 DEF g, before, after, RemoveAt

LEMMA SwapBroken ==
  ASSUME NEW f \in Seq(FileLine), Intact(f), NEW i \in DOMAIN f, i < Len(f)
  PROVE  VerifyAuditChain([f EXCEPT ![i] = f[i + 1], ![i + 1] = f[i]]) = i
<1> DEFINE g == [f EXCEPT ![i] = f[i + 1], ![i + 1] = f[i]]
<1>1. i \in Nat /\ Len(f) \in Nat /\ i >= 1 /\ i + 1 \in DOMAIN f
  OBVIOUS
<1>2. f[i] \in FileLine /\ f[i + 1] \in FileLine
  BY <1>1
<1>3. /\ g \in Seq(FileLine) /\ i \in DOMAIN g /\ g[i] = f[i + 1]
      /\ \A k \in 1..(i - 1) : g[k] = f[k]
      /\ \A k \in DOMAIN g : \E j \in DOMAIN f : g[k] = f[j]
  BY <1>1, <1>2
<1> HIDE DEF g
<1>4. Decodable(g)
  BY <1>3, IntactLine DEF Decodable
<1>5. VerifyAuditChain(g) = i
  BY <1>3, <1>4, NextLineBroken
<1>6. QED
  BY <1>5 DEF g

\* verify_audit_chain reports the line at which an intact file of any length
\* was edited, had a record deleted, or two neighbouring records swapped.
THEOREM Tampering == Spec => []TamperEvident
<1>1. TypeInv => TamperEvident
  <2>1. TypeInv => file \in Seq(FileLine)
    BY DEF TypeInv, TypeOK, FileLine
  <2>2. QED
    BY <2>1, EditBroken, RemoveBroken, SwapBroken DEF TamperEvident
<1>2. QED
  BY <1>1, TypeInvariant, PTL

=============================================================================
