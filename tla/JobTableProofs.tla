--------------------------- MODULE JobTableProofs ---------------------------
(***************************************************************************)
(* Proofs about the job table of Jobs, for every set of pids and commands  *)
(* and every bound: the list of jobs and the table agree, no status of a   *)
(* child is lost or credited to another job, the count of children without *)
(* a job is right, and wait, fg and foreground commands report the status  *)
(* that is asked for.                                                      *)
(*                                                                         *)
(* The invariant has five parts.  TableInv always holds.  The others hold  *)
(* for the constants their conditions name; outside of these the code is   *)
(* wrong (see the README).                                                 *)
(***************************************************************************)
EXTENDS JobsProofs, ListsProofs

-----------------------------------------------------------------------------
(***************************************************************************)
(* The invariant                                                           *)
(***************************************************************************)

\* The shell is in dowait or in a loop around it.
Inside == {"loop", "clear", "wait3", "mask", "test", "suspend"}

Ops == {"none", "run", "here", "wait", "waitpid", "jobs", "fg"}
Cmd == [op : Ops, job : Slots \cup {0}, left : 0 .. MaxPipe, bg : BOOLEAN,
        block : BOOLEAN, mode : {"all", "changed", "pgid"}]

\* The types of the variables that say where the shell is.
ControlTypes ==
    /\ jobless \in Int /\ jobctl \in JobControl
    /\ pc \in {"eval", "fork", "end"} \cup Inside
    /\ cmd \in Cmd
    /\ ret \in {-1, 0, 1} /\ result \in Nat \cup {Kept} /\ raised \in BOOLEAN
    /\ truth \in [Slots -> Finals \cup {Live}]

Procs == [pid : Pids, status : Finals \cup {Live, Stopped}]

TableTypes ==
    /\ jobtab \in [Slots -> Job]
    /\ njobs \in 0 .. MaxJobs
    /\ curjob \in Seq(Slots)
    /\ owner \in [Pids -> [job : Slots \cup {0}, last : BOOLEAN]]

\* A zombie has a status, and only what may be stopped is.
ProcInv ==
    \A p \in Pids : /\ proc[p].st = "zombie" => proc[p].status \in Finals
                    /\ proc[p].st = "stopped" => Stoppable

\* The list has the jobs in use, each once.
ListInv == ToSet(curjob) = Used /\ Once(curjob)

\* What a job in use, and a free slot, looks like.
SlotInv ==
    \A j \in Slots :
        /\ jobtab[j].used => j <= njobs
        /\ ~jobtab[j].used => jobtab[j].ps = <<>>
        /\ Len(jobtab[j].ps) <= MaxPipe
        /\ jobtab[j].state # "RUNNING" => jobtab[j].ps # <<>>
        /\ jobtab[j].state = "DONE" =>
              \A i \in DOMAIN jobtab[j].ps : jobtab[j].ps[i].status \in Finals
        /\ ~Stoppable => /\ jobtab[j].state # "STOPPED"
                         /\ \A i \in DOMAIN jobtab[j].ps : jobtab[j].ps[i].status # Stopped

\* While a pipeline is forked its job is in the table, with the processes it
\* has so far, and room for the others.
ForkInv ==
    pc = "fork" =>
        /\ cmd.op = "run" /\ cmd.job \in Used /\ cmd.left >= 1
        /\ jobtab[cmd.job].state = "RUNNING"
        /\ \A i \in DOMAIN jobtab[cmd.job].ps : jobtab[cmd.job].ps[i].status = Live
        /\ Len(jobtab[cmd.job].ps) + cmd.left <= MaxPipe

\* The job that is waited for stays in the table.
BusyInv == pc \in Inside /\ cmd.op \in {"run", "fg", "waitpid"} => cmd.job \in Used

TableInv == ControlTypes /\ TableTypes /\ ProcInv /\ ListInv /\ SlotInv /\ ForkInv /\ BusyInv

\* Job j waits for process p.
Awaits(j, p) ==
    \E i \in DOMAIN jobtab[j].ps :
        jobtab[j].ps[i].pid = p /\ jobtab[j].ps[i].status \in {Live, Stopped}

\* If pids come back, the list has the job that awaits one ahead of jobs that
\* had it before; stops and bg take an older job to the front.
Straight == ReusePids => ~Stoppable /\ "bg" \notin Commands

\* What makes dowait find the right job.
AwaitInv ==
    /\ NoStatusLost
    /\ \A p \in Existing : owner[p].job = 0 => owner[p] = Untracked
    /\ \A j, k \in Used : \A p \in Pids :
          Awaits(j, p) /\ HasPid(k, p) /\ k # j => ReusePids /\ Before(curjob, j, k)
    /\ ~ReusePids => \A j \in Used : \A p \in Pids :
          HasPid(j, p) => proc[p].st # "unborn" /\ (p \in Existing => owner[p].job = j)
    /\ ReusePids /\ pc = "fork" => curjob # <<>> /\ curjob[1] = cmd.job

\* fg does not find a job of set -m after set +m.
Steady == {"fg", "set"} \subseteq Commands => JobControl # BOOLEAN

\* A job's state is the one its processes add up to.
StateInv ==
    \A j \in Used :
        /\ jobtab[j].ps # <<>> => jobtab[j].state = NewState(jobtab[j].ps)
        /\ jobtab[j].state = "DONE" => jobtab[j].changed
        /\ "fg" \in Commands /\ jobtab[j].jobctl => jobctl

\* jobless counts a writer of a here document once the shell goes on.
Writer == IF pc \in Inside /\ cmd.op = "here" THEN 1 ELSE 0
Orphans == {p \in Existing : owner[p] = Untracked}
CountInv == jobless + Writer = Cardinality(Orphans)

\* Every child that is not reaped has a job, or has a pid for itself.
Tracked == ~SysFailures /\ (ReusePids => ~Stoppable /\ {"bg", "here"} \cap Commands = {})

\* The last process of a job's array is the last of its pipeline.
Forks(j) == pc = "fork" /\ cmd.job = j
TruthInv ==
    /\ ReusePids => \A p \in Existing : owner[p] # Untracked
    /\ \A j \in Used :
          LET ps == jobtab[j].ps
          IN  /\ \A i, k \in DOMAIN ps : ps[i].pid = ps[k].pid => i = k
              /\ \A i \in DOMAIN ps : ps[i].status \in {Live, Stopped} =>
                    owner[ps[i].pid] = Owned(j, ~Forks(j) /\ i = Len(ps))
              /\ ps # <<>> /\ ~Forks(j) /\ ps[Len(ps)].status \in Finals =>
                    truth[j] = ps[Len(ps)].status

JobsInv ==
    /\ WaitInv
    /\ TableInv
    /\ Straight => AwaitInv
    /\ Steady => StateInv
    /\ ~ReusePids /\ ~SysFailures => CountInv
    /\ Tracked => TruthInv

-----------------------------------------------------------------------------
(***************************************************************************)
(* What the helpers do                                                     *)
(***************************************************************************)

\* The first of the jobs of a list that pass a test.
LEMMA FirstOfList ==
    ASSUME NEW s \in Seq(Slots), NEW I, I \subseteq 1 .. Len(s)
    PROVE  LET first == IF I # {} THEN Min(I) ELSE 0
           IN  \/ I = {} /\ first = 0
               \/ first \in I /\ first # 0 /\ \A k \in I : first <= k
  <1>1. \A k \in I : k \in Nat /\ k # 0
    BY LenProperties
  <1>2. I # {} => Min(I) \in I /\ \A k \in I : Min(I) <= k
    BY <1>1, LeastOf
  <1> QED
    BY <1>1, <1>2

\* dowait's search: the first job of the list that is not done and has p.
LEMMA JobOfFound ==
    ASSUME curjob \in Seq(Slots), NEW p
    PROVE  \/ /\ JobOf(p) = 0
              /\ \A k \in ToSet(curjob) : jobtab[k].state = "DONE" \/ ~HasPid(k, p)
           \/ \E i \in DOMAIN curjob :
                 /\ JobOf(p) = curjob[i] /\ JobOf(p) \in Slots /\ JobOf(p) # 0
                 /\ jobtab[curjob[i]].state # "DONE" /\ HasPid(curjob[i], p)
                 /\ \A k \in DOMAIN curjob :
                       jobtab[curjob[k]].state # "DONE" /\ HasPid(curjob[k], p) => i <= k
  <1> DEFINE I == {i \in 1 .. Len(curjob) : jobtab[curjob[i]].state # "DONE" /\ HasPid(curjob[i], p)}
             first == IF I # {} THEN Min(I) ELSE 0
  <1>1. DOMAIN curjob = 1 .. Len(curjob) /\ \A i \in DOMAIN curjob : curjob[i] \in Slots
    OBVIOUS
  <1>2. JobOf(p) = IF first = 0 THEN 0 ELSE curjob[first]
    BY DEF JobOf, SelectInSeq
  <1>3. \/ I = {} /\ first = 0
        \/ first \in I /\ first # 0 /\ \A k \in I : first <= k
    BY FirstOfList
  <1>4. 0 \notin Slots
    BY DEF Slots
  <1> HIDE DEF first
  <1>5. CASE I = {} /\ first = 0
    <2>1. \A k \in ToSet(curjob) : jobtab[k].state = "DONE" \/ ~HasPid(k, p)
      BY <1>1, <1>5 DEF ToSet
    <2> QED
      BY <2>1, <1>2, <1>5
  <1>6. CASE first \in I /\ first # 0 /\ \A k \in I : first <= k
    <2>1. /\ first \in DOMAIN curjob /\ JobOf(p) = curjob[first] /\ curjob[first] \in Slots
          /\ jobtab[curjob[first]].state # "DONE" /\ HasPid(curjob[first], p)
      BY <1>1, <1>2, <1>6
    <2>2. \A k \in DOMAIN curjob :
             jobtab[curjob[k]].state # "DONE" /\ HasPid(curjob[k], p) => first <= k
      BY <1>1, <1>6
    <2> QED
      BY <2>1, <2>2, <1>4
  <1> QED
    BY <1>3, <1>5, <1>6

\* waitcmd's search: no running job is left, or the first is in the list.
LEMMA FirstRunningFound ==
    ASSUME curjob \in Seq(Slots)
    PROVE  \/ FirstRunning = 0 /\ \A k \in ToSet(curjob) : jobtab[k].state # "RUNNING"
           \/ FirstRunning \in 1 .. Len(curjob)
  <1> DEFINE I == {i \in 1 .. Len(curjob) : jobtab[curjob[i]].state = "RUNNING"}
             first == IF I # {} THEN Min(I) ELSE 0
  <1>1. FirstRunning = first
    BY DEF FirstRunning, SelectInSeq
  <1>2. \/ I = {} /\ first = 0
        \/ first \in I /\ first # 0 /\ \A k \in I : first <= k
    BY FirstOfList
  <1>3. I = {} => \A k \in ToSet(curjob) : jobtab[k].state # "RUNNING"
    BY DEF ToSet
  <1> HIDE DEF first
  <1> QED
    BY <1>1, <1>2, <1>3

\* set_curjob puts a job at the front, or behind the stopped ones.
LEMMA Relinked ==
    ASSUME NEW list \in Seq(Slots), NEW tab, NEW j \in Slots, Once(list)
    PROVE  /\ SetStopped(list, j) \in Seq(Slots)
           /\ ToSet(SetStopped(list, j)) = ToSet(list) \cup {j}
           /\ Once(SetStopped(list, j))
           /\ SetStopped(list, j) # <<>> /\ SetStopped(list, j)[1] = j
           /\ SetRunning(list, tab, j) \in Seq(Slots)
           /\ ToSet(SetRunning(list, tab, j)) = ToSet(list) \cup {j}
           /\ Once(SetRunning(list, tab, j))
  <1> DEFINE rest == Unlinked(list, j)
  <1>1. /\ rest \in Seq(Slots) /\ ToSet(rest) = ToSet(list) \ {j} /\ Once(rest)
    BY WithoutElements DEF Unlinked
  <1>2. PICK n \in Nat : n = Len(rest)
    BY <1>1, LenProperties
  <1>3. StoppedPrefix(rest, tab) + 1 \in 1 .. (Len(rest) + 1)
    <2> DEFINE I == {i \in 1 .. Len(rest) : tab[rest[i]].state # "STOPPED"}
               first == IF I # {} THEN Min(I) ELSE 0
    <2>1. StoppedPrefix(rest, tab) = IF first = 0 THEN Len(rest) ELSE first - 1
      BY DEF StoppedPrefix, SelectInSeq
    <2>2. \/ I = {} /\ first = 0
          \/ first \in I /\ first # 0 /\ \A k \in I : first <= k
      BY <1>1, FirstOfList
    <2>3. first = 0 \/ first \in 1 .. n
      BY <2>2, <1>2
    <2> HIDE DEF first, rest
    <2> QED
      BY <2>1, <2>3, <1>2
  <1> HIDE DEF rest
  <1>4. /\ SetStopped(list, j) = <<j>> \o rest
        /\ SetRunning(list, tab, j) = InsertAt(rest, StoppedPrefix(rest, tab) + 1, j)
    BY DEF SetStopped, SetRunning, rest
  <1>5. /\ <<j>> \o rest \in Seq(Slots) /\ <<j>> \o rest # <<>> /\ (<<j>> \o rest)[1] = j
        /\ ToSet(<<j>> \o rest) = ToSet(rest) \cup {j} /\ Once(<<j>> \o rest)
    BY <1>1, PushElements
  <1> DEFINE at == StoppedPrefix(rest, tab) + 1
             r == InsertAt(rest, at, j)
  <1>6. r \in Seq(Slots) /\ Inserted(r, rest, at, j)
    BY <1>1, <1>3, InsertAtElements
  <1> HIDE DEF r
  <1>7. ToSet(r) = ToSet(rest) \cup {j} /\ Once(r)
    <2>1. at \in 1 .. (Len(rest) + 1)
      BY <1>3
    <2> HIDE DEF at
    <2> QED
      BY <2>1, <1>1, <1>6, InsertedElements
  <1>8. ToSet(list) \cup {j} = (ToSet(list) \ {j}) \cup {j}
    OBVIOUS
  <1> QED
    BY <1>1, <1>4, <1>5, <1>6, <1>7, <1>8 DEF r

-----------------------------------------------------------------------------
(***************************************************************************)
(* Steps that leave the jobs as they are                                   *)
(***************************************************************************)

\* The jobs as they were, but for who has waited for them.
SameJobs ==
    /\ UNCHANGED <<njobs, curjob, owner>>
    /\ jobtab' \in [Slots -> Job]
    /\ \A j \in Slots : /\ jobtab'[j].used = jobtab[j].used
                        /\ jobtab'[j].state = jobtab[j].state
                        /\ jobtab'[j].ps = jobtab[j].ps
                        /\ jobtab'[j].changed = jobtab[j].changed
                        /\ jobtab'[j].jobctl = jobtab[j].jobctl
    /\ \A j \in Used : truth'[j] = truth[j]

\* The children as they were, but for who runs.
SameProcs ==
    /\ Existing' = Existing
    /\ \A p \in Pids : proc'[p].st = "unborn" <=> proc[p].st = "unborn"

Quiet ==
    /\ SameJobs /\ SameProcs
    /\ pc' = "fork" => pc = "fork" /\ cmd' = cmd
    /\ pc = "fork" => pc' = "fork" \/ SysFailures
    /\ jobless' + Writer' = jobless + Writer
    /\ Steady /\ "fg" \in Commands => jobctl' = jobctl

\* What is to be shown of a step besides.
Sound == ControlTypes' /\ ProcInv' /\ BusyInv'

LEMMA StillJobs ==
    ASSUME TableInv, UNCHANGED <<jobtab, njobs, curjob, owner, truth>>
    PROVE  SameJobs
  BY DEF TableInv, TableTypes, SameJobs

LEMMA StillProcs ==
    ASSUME TableInv, UNCHANGED proc
    PROVE  SameProcs /\ ProcInv'
  BY DEF TableInv, ProcInv, SameProcs, Existing

\* A step of a command that touches none of the jobs.
LEMMA StillTable ==
    ASSUME TableInv, UNCHANGED <<proc, jobtab, njobs, curjob, jobless, jobctl, hist>>
    PROVE  /\ SameJobs /\ SameProcs /\ ProcInv' /\ jobctl' = jobctl
           /\ jobless' \in Int /\ jobctl' \in JobControl /\ truth' \in [Slots -> Finals \cup {Live}]
           /\ jobless' = jobless /\ Used' = Used
  <1>1. UNCHANGED <<owner, truth>>
    BY DEF hist
  <1>2. Used' = Used
    BY DEF Used
  <1> QED
    BY <1>1, <1>2, StillJobs, StillProcs DEF TableInv, ControlTypes

\* The statuses of a job are exit statuses, or -1.
LEMMA StatusTypes ==
    /\ Finals \cup {Live, Stopped} \subseteq Nat \cup {Kept}
    /\ Live \notin Finals /\ Stopped \notin Finals /\ Live # Stopped
  BY ProcessesAssumption DEF Finals, Live, Stopped, Killed, Kept

LEMMA GetStatusType ==
    ASSUME TableInv, NEW j \in Slots, jobtab[j].ps # <<>>
    PROVE  GetStatus(j) \in Nat \cup {Kept}
  <1>1. jobtab[j].ps \in Seq(Procs)
    BY DEF TableInv, TableTypes, Job, Procs
  <1>2. PICK n \in Nat : n = Len(jobtab[j].ps) /\ n # 0
    BY <1>1, EmptySeq, LenProperties
  <1>3. jobtab[j].ps[n] \in Procs
    BY <1>1, <1>2, ElementOfSeq
  <1> QED
    BY <1>2, <1>3, StatusTypes DEF GetStatus, LastPs, Procs

\* A command of getjob names a job in use, or none.
LEMMA OperandsUsed ==
    ASSUME TableInv, NEW j \in Operands
    PROVE  j = NoSuchJob \/ j \in Used
  <1>1. CASE \E num \in 1 .. njobs : j = GetJobNumber(num)
    <2>1. PICK num \in 1 .. njobs : j = GetJobNumber(num)
      BY <1>1
    <2>2. num \in Slots
      BY <2>1, JobsAssumption DEF TableInv, TableTypes, Slots
    <2> QED
      BY <2>1, <2>2 DEF GetJobNumber, Used
  <1>2. CASE \E i \in {1, 2} : j = IF i <= Len(curjob) THEN curjob[i] ELSE NoSuchJob
    <2>1. PICK i \in {1, 2} : j = IF i <= Len(curjob) THEN curjob[i] ELSE NoSuchJob
      BY <1>2
    <2>2. i <= Len(curjob) => i \in DOMAIN curjob
      BY DEF TableInv, TableTypes
    <2>3. i <= Len(curjob) => curjob[i] \in ToSet(curjob)
      BY <2>2 DEF ToSet
    <2> QED
      BY <2>1, <2>3 DEF TableInv, ListInv
  <1> QED
    BY <1>1, <1>2 DEF Operands

\* The commands of NoCommand's form that the builtins start.
LEMMA StartTypes ==
    ASSUME NEW o \in Ops, NEW j \in Slots \cup {0}
    PROVE  /\ [NoCommand EXCEPT !.op = o, !.job = j] \in Cmd
           /\ [NoCommand EXCEPT !.op = o, !.job = j].op = o
           /\ [NoCommand EXCEPT !.op = o, !.job = j].job = j
  <1>1. 0 \in 0 .. MaxPipe
    BY JobsAssumption
  <1> QED
    BY <1>1 DEF Cmd, NoCommand

LEMMA ModeTypes ==
    ASSUME NEW o \in Ops, NEW m \in {"all", "changed", "pgid"}, NEW c,
           c = [NoCommand EXCEPT !.op = o, !.mode = m]
    PROVE  c \in Cmd /\ c.op = o
  <1>1. 0 \in 0 .. MaxPipe
    BY JobsAssumption
  <1> QED
    BY <1>1 DEF Cmd, NoCommand

\* CallDowait and waitproc change block only.
LEMMA BlockTypes ==
    ASSUME cmd \in Cmd, NEW b \in BOOLEAN, cmd' = [cmd EXCEPT !.block = b]
    PROVE  cmd' \in Cmd /\ cmd'.op = cmd.op /\ cmd'.job = cmd.job
  BY DEF Cmd

\* A step from pc to another place that forks nothing.
LEMMA QuietStep ==
    ASSUME TableInv, SameJobs, SameProcs, ProcInv', UNCHANGED <<jobctl, jobless, truth>>,
           pc \in {"eval", "end"} \cup Inside,
           pc' \in {"eval", "end"} \cup Inside,
           cmd' \in Cmd, ret' \in {-1, 0, 1}, result' \in Nat \cup {Kept}, raised' \in BOOLEAN,
           pc \in Inside /\ cmd.op = "here" <=> pc' \in Inside /\ cmd'.op = "here",
           BusyInv'
    PROVE  Quiet /\ Sound
  <1>1. ControlTypes'
    BY DEF TableInv, ControlTypes
  <1>2. Writer' = Writer
    BY DEF Writer
  <1>3. pc # "fork" /\ pc' # "fork"
    BY DEF Inside
  <1> QED
    BY <1>1, <1>2, <1>3 DEF Quiet, Sound

\* The steps of waitproc but for a child that is reaped.
LEMMA QuietWaitproc ==
    ASSUME WaitInv, TableInv,
           ClearFlag \/ Wait3Empty \/ MaskSignals \/ Suspend \/ Wake \/ UnmaskSignals
    PROVE  Quiet /\ Sound
  <1>1. UNCHANGED <<proc, jobVars, result, raised, hist>>
    BY DEF ClearFlag, Wait3Empty, MaskSignals, Suspend, Wake, UnmaskSignals, procVars
  <1>2. SameJobs /\ SameProcs /\ ProcInv' /\ UNCHANGED <<jobctl, jobless, truth>> /\ Used' = Used
    BY <1>1, StillTable DEF jobVars, hist
  <1>3. pc \in Inside /\ pc' \in Inside /\ ret' \in {-1, 0, 1}
    BY DEF ClearFlag, Wait3Empty, MaskSignals, Suspend, Wake, UnmaskSignals, Inside,
           TableInv, ControlTypes
  <1>4. cmd' = cmd \/ cmd' = [cmd EXCEPT !.block = FALSE]
    BY DEF ClearFlag, Wait3Empty, MaskSignals, Suspend, Wake, UnmaskSignals
  <1>5. cmd' \in Cmd /\ cmd'.op = cmd.op /\ cmd'.job = cmd.job
    BY <1>4, BlockTypes DEF TableInv, ControlTypes
  <1>6. BusyInv'
    BY <1>2, <1>3, <1>5 DEF TableInv, BusyInv
  <1>7. result' \in Nat \cup {Kept} /\ raised' \in BOOLEAN
    BY <1>1 DEF TableInv, ControlTypes
  <1> QED
    BY <1>2, <1>3, <1>5, <1>6, <1>7, QuietStep

\* A call of dowait from a loop that has not changed the jobs.
LEMMA QuietCall ==
    ASSUME TableInv, NEW b \in BOOLEAN, CallDowait(b), pc = "loop",
           SameJobs, Used' = Used,
           UNCHANGED <<proc, jobctl, jobless, truth, ret, result, raised>>
    PROVE  Quiet /\ Sound
  <1>1. cmd' \in Cmd /\ cmd'.op = cmd.op /\ cmd'.job = cmd.job
    BY BlockTypes DEF TableInv, ControlTypes, CallDowait
  <1>2. SameProcs /\ ProcInv'
    BY StillProcs
  <1>3. pc \in Inside /\ pc' \in Inside
    BY DEF CallDowait, Inside
  <1>4. BusyInv'
    BY <1>1, <1>3 DEF TableInv, BusyInv
  <1>5. ret' \in {-1, 0, 1} /\ result' \in Nat \cup {Kept} /\ raised' \in BOOLEAN
    BY DEF TableInv, ControlTypes
  <1> QED
    BY <1>1, <1>2, <1>3, <1>4, <1>5, QuietStep

\* The end of a command that has not changed the jobs.
LEMMA QuietEnd ==
    ASSUME TableInv, NEW status \in Nat \cup {Kept}, Finish(status),
           pc = "eval" \/ (pc = "loop" /\ cmd.op # "here"),
           SameJobs, UNCHANGED <<proc, jobctl, jobless, truth, ret, cmd>>, raised' \in BOOLEAN
    PROVE  Quiet /\ Sound
  <1>1. SameProcs /\ ProcInv'
    BY StillProcs
  <1>2. pc' = "end" /\ result' = status
    BY DEF Finish
  <1>3. BusyInv'
    BY <1>2 DEF BusyInv, Inside
  <1>4. ret' \in {-1, 0, 1} /\ cmd' \in Cmd
    BY DEF TableInv, ControlTypes
  <1>5. pc \in {"eval", "end"} \cup Inside /\ pc' \notin Inside /\ ~(pc \in Inside /\ cmd.op = "here")
    BY <1>2 DEF Inside
  <1> QED
    BY <1>1, <1>2, <1>3, <1>4, <1>5, QuietStep

\* The start of a loop around dowait.
LEMMA QuietStart ==
    ASSUME TableInv, NEW o \in Ops \ {"here", "none"}, cmd' \in Cmd, cmd'.op = o, pc' = "loop",
           o \in {"run", "fg", "waitpid"} => cmd'.job \in Used,
           pc = "eval",
           UNCHANGED <<proc, jobVars, result, raised, ret, hist>>
    PROVE  Quiet /\ Sound
  <1>1. SameJobs /\ SameProcs /\ ProcInv' /\ UNCHANGED <<jobctl, jobless, truth>> /\ Used' = Used
    BY StillTable DEF jobVars, hist
  <1>2. BusyInv'
    BY <1>1 DEF BusyInv
  <1>3. ret' \in {-1, 0, 1} /\ result' \in Nat \cup {Kept} /\ raised' \in BOOLEAN
    BY DEF TableInv, ControlTypes
  <1>4. pc' \in Inside /\ pc \notin Inside /\ cmd'.op # "here"
    BY DEF Inside
  <1> QED
    BY <1>1, <1>2, <1>3, <1>4, QuietStep

\* Who has waited for a job is marked in it.
LEMMA MarkedJobs ==
    ASSUME TableInv, NEW S,
           jobtab' = [j \in Slots |-> IF j \in S THEN [jobtab[j] EXCEPT !.waited = TRUE]
                                                ELSE jobtab[j]],
           UNCHANGED <<njobs, curjob, owner, truth>>
    PROVE  SameJobs /\ Used' = Used
  <1>1. jobtab \in [Slots -> Job]
    BY DEF TableInv, TableTypes
  <1>2. \A j \in Slots : [jobtab[j] EXCEPT !.waited = TRUE] \in Job
    BY <1>1 DEF Job
  <1>3. \A j \in Slots : /\ jobtab'[j].used = jobtab[j].used
                         /\ jobtab'[j].state = jobtab[j].state
                         /\ jobtab'[j].ps = jobtab[j].ps
                         /\ jobtab'[j].changed = jobtab[j].changed
                         /\ jobtab'[j].jobctl = jobtab[j].jobctl
    BY <1>1 DEF Job
  <1> QED
    BY <1>1, <1>2, <1>3 DEF SameJobs, Used

LEMMA QuietEndCommand ==
    ASSUME TableInv, EndCommand
    PROVE  Quiet /\ Sound
  <1>1. /\ pc = "end" /\ pc' = "eval" /\ cmd' = NoCommand /\ ret' = 1 /\ result' = Kept
        /\ raised' = FALSE /\ UNCHANGED <<proc, jobtab, njobs, curjob, jobless, jobctl, owner>>
    BY DEF EndCommand, jobVars
  <1>2. /\ truth' \in [Slots -> Finals \cup {Live}]
        /\ \A j \in Used : truth'[j] = truth[j]
    BY DEF EndCommand, TableInv, ControlTypes, Used
  <1>3. SameJobs
    BY <1>1, <1>2 DEF TableInv, TableTypes, SameJobs
  <1>4. SameProcs /\ ProcInv'
    BY <1>1, StillProcs
  <1>5. BusyInv' /\ Writer = 0 /\ Writer' = 0
    BY <1>1 DEF BusyInv, Writer, Inside
  <1>6. NoCommand \in Cmd
    BY JobsAssumption DEF Cmd, NoCommand, Ops
  <1>7. ControlTypes'
    BY <1>1, <1>2, <1>6 DEF TableInv, ControlTypes
  <1> QED
    BY <1>1, <1>3, <1>4, <1>5, <1>7 DEF Quiet, Sound

LEMMA QuietPipeFails ==
    ASSUME TableInv, PipeFails
    PROVE  Quiet /\ Sound
  <1>1. /\ pc = "fork" /\ pc' = "end" /\ SysFailures /\ result' = 2
        /\ UNCHANGED <<proc, jobtab, njobs, curjob, jobless, jobctl, hist, raised, cmd, ret>>
    BY DEF PipeFails, Error, Finish, procVars, jobVars
  <1>2. /\ SameJobs /\ SameProcs /\ ProcInv' /\ UNCHANGED <<jobctl, jobless, truth>>
    BY <1>1, StillTable DEF hist
  <1>3. BusyInv' /\ Writer = 0 /\ Writer' = 0
    BY <1>1 DEF BusyInv, Writer, Inside
  <1>4. ControlTypes'
    BY <1>1, <1>2 DEF TableInv, ControlTypes
  <1> QED
    BY <1>1, <1>2, <1>3, <1>4 DEF Quiet, Sound

\* waitforjob as long as the job is not done.
LEMMA QuietWaitForJob ==
    ASSUME TableInv, WaitForJob,
           ~(pc' = "end" /\ jobtab[cmd.job].state = "DONE" /\ (jobtab[cmd.job].jobctl => jobctl))
    PROVE  Quiet /\ Sound
  <1>1. /\ pc = "loop" /\ cmd.op \in {"run", "fg"}
        /\ UNCHANGED <<proc, njobs, jobless, jobctl, ret, owner, truth>>
    BY DEF WaitForJob, At, procVars, hist
  <1>2. cmd.job \in Used /\ cmd.job \in Slots /\ cmd.op # "here"
    BY <1>1 DEF TableInv, BusyInv, Inside, Used
  <1>3. \/ CallDowait(TRUE) /\ UNCHANGED <<jobtab, curjob, result, raised>>
        \/ Error /\ UNCHANGED <<jobtab, curjob, raised, cmd>>
        \/ /\ Finish(GetStatus(cmd.job)) /\ jobtab[cmd.job].state \notin {"RUNNING", "DONE"}
           /\ raised' = (jobtab[cmd.job].jobctl /\ GetStatus(cmd.job) = Killed)
           /\ UNCHANGED <<jobtab, curjob, cmd>>
    BY DEF WaitForJob, Finish
  <1>4. jobtab' = jobtab /\ curjob' = curjob
    BY <1>3
  <1>5. SameJobs /\ Used' = Used
    BY <1>1, <1>4, StillJobs DEF Used
  <1>6. CASE CallDowait(TRUE) /\ UNCHANGED <<jobtab, curjob, result, raised>>
    BY <1>1, <1>5, <1>6, QuietCall
  <1>7. CASE Error /\ UNCHANGED <<jobtab, curjob, raised, cmd>>
    <2>1. Finish(2) /\ 2 \in Nat \cup {Kept} /\ raised' \in BOOLEAN
      BY <1>7 DEF Error, TableInv, ControlTypes
    <2> QED
      BY <2>1, <1>1, <1>2, <1>5, <1>7, QuietEnd
  <1>8. CASE /\ Finish(GetStatus(cmd.job)) /\ jobtab[cmd.job].state \notin {"RUNNING", "DONE"}
             /\ raised' = (jobtab[cmd.job].jobctl /\ GetStatus(cmd.job) = Killed)
             /\ UNCHANGED <<jobtab, curjob, cmd>>
    <2>1. jobtab[cmd.job].ps # <<>>
      BY <1>2, <1>8 DEF TableInv, SlotInv
    <2>2. GetStatus(cmd.job) \in Nat \cup {Kept}
      BY <2>1, <1>2, GetStatusType
    <2>3. raised' \in BOOLEAN
      BY <1>8
    <2> QED
      BY <2>2, <2>3, <1>1, <1>2, <1>5, <1>8, QuietEnd
  <1> QED
    BY <1>3, <1>6, <1>7, <1>8

LEMMA QuietHereLoop ==
    ASSUME TableInv, HereLoop
    PROVE  Quiet /\ Sound
  <1>1. /\ pc = "loop" /\ cmd.op = "here"
        /\ UNCHANGED <<proc, jobtab, njobs, curjob, jobctl, raised, ret, owner, truth>>
    BY DEF HereLoop, At, procVars, hist
  <1>2. SameJobs /\ Used' = Used
    BY <1>1, StillJobs DEF Used
  <1>3. CASE CallDowait(FALSE) /\ UNCHANGED <<jobless, result>>
    BY <1>1, <1>2, <1>3, QuietCall
  <1>4. CASE jobless' = jobless + 1 /\ Finish(0) /\ UNCHANGED cmd
    <2>1. SameProcs /\ ProcInv'
      BY <1>1, StillProcs
    <2>2. pc' = "end" /\ result' = 0
      BY <1>4 DEF Finish
    <2>3. Writer = 1 /\ Writer' = 0 /\ BusyInv' /\ pc # "fork"
      BY <1>1, <2>2 DEF Writer, BusyInv, Inside
    <2>4. jobless \in Int /\ jobless' \in Int /\ jobless' + Writer' = jobless + Writer
      BY <1>4, <2>3 DEF TableInv, ControlTypes
    <2>5. ControlTypes'
      BY <1>1, <1>4, <2>2, <2>4 DEF TableInv, ControlTypes
    <2> QED
      BY <1>1, <1>2, <2>1, <2>2, <2>3, <2>4, <2>5 DEF Quiet, Sound
  <1> QED
    BY <1>3, <1>4 DEF HereLoop

\* 128 and the number of a signal.
LEMMA SigOutType ==
    ASSUME WaitInv
    PROVE  128 + pendingsigs \in Nat \cup {Kept}
  <1>1. pendingsigs \in Nat
    BY ProcessesAssumption DEF WaitInv, ProcessesTypeOK
  <1> QED
    BY <1>1

LEMMA QuietWaitAllLoop ==
    ASSUME WaitInv, TableInv, WaitAllLoop
    PROVE  Quiet /\ Sound
  <1>1. /\ pc = "loop" /\ cmd.op = "wait"
        /\ UNCHANGED <<proc, njobs, curjob, jobless, jobctl, raised, ret, owner, truth>>
    BY DEF WaitAllLoop, At, procVars, hist
  <1> DEFINE marks(S) == jobtab' = [j \in Slots |-> IF j \in S THEN [jobtab[j] EXCEPT !.waited = TRUE]
                                                               ELSE jobtab[j]]
  <1>2. \/ SigOut /\ UNCHANGED <<jobtab, cmd>>
        \/ /\ \E S : marks(S)
           /\ \/ Finish(0) /\ UNCHANGED cmd
              \/ CallDowait(TRUE) /\ UNCHANGED result
    BY DEF WaitAllLoop
  <1>3. SameJobs /\ Used' = Used
    <2>1. CASE UNCHANGED jobtab
      BY <1>1, <2>1, StillJobs DEF Used
    <2>2. ASSUME NEW S, marks(S) PROVE SameJobs /\ Used' = Used
      BY <1>1, <2>2, MarkedJobs
    <2> QED
      BY <1>2, <2>1, <2>2
  <1>4. \A status \in Nat \cup {Kept} : Finish(status) /\ UNCHANGED cmd => Quiet /\ Sound
    <2>1. raised' \in BOOLEAN
      BY <1>1 DEF TableInv, ControlTypes
    <2> QED
      BY <2>1, <1>1, <1>3, QuietEnd
  <1>5. CASE CallDowait(TRUE) /\ UNCHANGED result
    BY <1>1, <1>3, <1>5, QuietCall
  <1> QED
    BY <1>2, <1>4, <1>5, SigOutType DEF SigOut

LEMMA QuietWaitPidLoop ==
    ASSUME WaitInv, TableInv, WaitPidLoop
    PROVE  Quiet /\ Sound
  <1> DEFINE j == cmd.job
  <1>1. /\ pc = "loop" /\ cmd.op = "waitpid"
        /\ UNCHANGED <<proc, njobs, curjob, jobless, jobctl, raised, ret, owner, truth>>
    BY DEF WaitPidLoop, At, procVars, hist
  <1>2. j \in Slots
    BY <1>1 DEF TableInv, BusyInv, Inside, Used
  <1>3. \A status \in Nat \cup {Kept} :
           Finish(status) /\ UNCHANGED cmd /\ SameJobs => Quiet /\ Sound
    <2>1. raised' \in BOOLEAN
      BY <1>1 DEF TableInv, ControlTypes
    <2> QED
      BY <2>1, <1>1, QuietEnd
  <1>4. CASE jobtab[j].state = "RUNNING"
    <2>1. UNCHANGED jobtab
      BY <1>4 DEF WaitPidLoop
    <2>2. SameJobs /\ Used' = Used
      BY <1>1, <2>1, StillJobs DEF Used
    <2>3. (SigOut /\ UNCHANGED cmd) \/ (CallDowait(TRUE) /\ UNCHANGED result)
      BY <1>4 DEF WaitPidLoop
    <2>4. CASE SigOut /\ UNCHANGED cmd
      BY <2>2, <2>4, <1>3, SigOutType DEF SigOut
    <2>5. CASE CallDowait(TRUE) /\ UNCHANGED result
      BY <1>1, <2>2, <2>5, QuietCall
    <2> QED
      BY <2>3, <2>4, <2>5
  <1>5. CASE jobtab[j].state # "RUNNING"
    <2>1. jobtab' = [jobtab EXCEPT ![j].waited = TRUE] /\ Finish(GetStatus(j)) /\ UNCHANGED cmd
      BY <1>5 DEF WaitPidLoop
    <2>2. jobtab' = [k \in Slots |-> IF k \in {j} THEN [jobtab[k] EXCEPT !.waited = TRUE]
                                                  ELSE jobtab[k]]
      BY <1>2, <2>1 DEF TableInv, TableTypes
    <2>3. SameJobs
      BY <1>1, <2>2, MarkedJobs
    <2>4. jobtab[j].ps # <<>>
      BY <1>2, <1>5 DEF TableInv, SlotInv
    <2>5. GetStatus(j) \in Nat \cup {Kept}
      BY <2>4, <1>2, GetStatusType
    <2> QED
      BY <2>1, <2>3, <2>5, <1>3
  <1> QED
    BY <1>4, <1>5

LEMMA QuietWaitPid ==
    ASSUME TableInv, NEW p \in Pids, WaitPid(p)
    PROVE  Quiet /\ Sound
  <1> DEFINE I == {i \in 1 .. Len(curjob) : /\ jobtab[curjob[i]].ps # <<>>
                                            /\ LastPs(curjob[i]).pid = p}
             first == IF I # {} THEN Min(I) ELSE 0
  <1>1. /\ pc = "eval"
        /\ UNCHANGED <<procVars, jobVars, raised, ret, hist>>
        /\ IF first = 0 THEN Finish(127) /\ UNCHANGED cmd
                        ELSE Start("waitpid", curjob[first]) /\ UNCHANGED result
    BY DEF WaitPid, Idle, SelectInSeq
  <1>2. curjob \in Seq(Slots)
    BY DEF TableInv, TableTypes
  <1>3. first = 0 \/ first \in 1 .. Len(curjob)
    BY <1>2, FirstOfList
  <1> HIDE DEF first
  <1>4. UNCHANGED <<proc, jobtab, njobs, curjob, jobless, jobctl, owner, truth, hist>>
    BY <1>1 DEF procVars, jobVars, hist
  <1>5. CASE first = 0
    <2>1. SameJobs /\ raised' \in BOOLEAN
      BY <1>1, <1>4, StillJobs DEF TableInv, ControlTypes
    <2> QED
      BY <2>1, <1>1, <1>4, <1>5, QuietEnd
  <1>6. CASE first # 0
    <2>1. curjob[first] \in Used /\ curjob[first] \in Slots
      BY <1>2, <1>3, <1>6 DEF TableInv, ListInv, ToSet
    <2>2. cmd' = [NoCommand EXCEPT !.op = "waitpid", !.job = curjob[first]] /\ pc' = "loop"
      BY <1>1, <1>6 DEF Start
    <2>3. cmd' \in Cmd /\ cmd'.op = "waitpid" /\ cmd'.job = curjob[first]
      <3>1. curjob[first] \in Slots \cup {0} /\ "waitpid" \in Ops
        BY <2>1 DEF Ops
      <3> QED
        BY <2>2, <3>1, StartTypes
    <2> QED
      BY <2>1, <2>2, <2>3, <1>1, <1>4, <1>6, QuietStart DEF Ops
  <1> QED
    BY <1>5, <1>6

\* The commands that start a loop or fail, and touch no job.
LEMMA QuietCommand ==
    ASSUME TableInv,
           \/ WaitAll
           \/ \E j \in Operands : WaitJob(j)
           \/ \E mode \in {"all", "changed", "pgid"} : ShowJobs(mode)
    PROVE  Quiet /\ Sound
  <1>1. CASE WaitAll
    <2>1. /\ pc = "eval" /\ pc' = "loop" /\ UNCHANGED <<proc, jobVars, result, raised, ret, hist>>
          /\ cmd' = [NoCommand EXCEPT !.op = "wait", !.job = 0]
      BY <1>1 DEF WaitAll, Idle, Start, procVars
    <2>2. cmd' \in Cmd /\ cmd'.op = "wait"
      <3>1. 0 \in Slots \cup {0} /\ "wait" \in Ops
        BY DEF Ops
      <3>2. [NoCommand EXCEPT !.op = "wait", !.job = 0] \in Cmd
        BY <3>1, StartTypes
      <3>3. [NoCommand EXCEPT !.op = "wait", !.job = 0].op = "wait"
        BY <3>1, StartTypes
      <3> QED
        BY <2>1, <3>2, <3>3
    <2> QED
      BY <2>1, <2>2, QuietStart DEF Ops
  <1>2. ASSUME NEW j \in Operands, WaitJob(j) PROVE Quiet /\ Sound
    <2>1. /\ pc = "eval" /\ UNCHANGED <<proc, jobVars, raised, ret, hist>>
          /\ IF j = NoSuchJob THEN Error /\ UNCHANGED cmd
                              ELSE Start("waitpid", j) /\ UNCHANGED result
      BY <1>2 DEF WaitJob, Idle, procVars
    <2>2. CASE j = NoSuchJob
      <3>1. SameJobs /\ raised' \in BOOLEAN /\ UNCHANGED <<jobctl, jobless, truth>>
        BY <2>1, StillJobs DEF TableInv, ControlTypes, jobVars, hist
      <3> QED
        BY <2>1, <2>2, <3>1, QuietEnd DEF Error
    <2>3. CASE j # NoSuchJob
      <3>1. j \in Used /\ j \in Slots
        BY <2>3, OperandsUsed DEF Used
      <3>2. cmd' = [NoCommand EXCEPT !.op = "waitpid", !.job = j] /\ pc' = "loop" /\ UNCHANGED result
        BY <2>1, <2>3 DEF Start
      <3>3. cmd' \in Cmd /\ cmd'.op = "waitpid" /\ cmd'.job = j
        <4>1. j \in Slots \cup {0} /\ "waitpid" \in Ops
          BY <3>1 DEF Ops
        <4> QED
          BY <3>2, <4>1, StartTypes
      <3> QED
        BY <2>1, <3>1, <3>2, <3>3, QuietStart DEF Ops
    <2> QED
      BY <2>2, <2>3
  <1>3. ASSUME NEW mode \in {"all", "changed", "pgid"}, ShowJobs(mode) PROVE Quiet /\ Sound
    <2>1. /\ pc = "eval" /\ pc' = "loop" /\ UNCHANGED <<proc, jobVars, result, raised, ret, hist>>
          /\ cmd' = [NoCommand EXCEPT !.op = "jobs", !.mode = mode]
      BY <1>3 DEF ShowJobs, Idle, procVars
    <2>2. cmd' \in Cmd /\ cmd'.op = "jobs"
      BY <2>1, ModeTypes DEF Ops
    <2> QED
      BY <2>1, <2>2, QuietStart DEF Ops
  <1> QED
    BY <1>1, <1>2, <1>3

\* Builtins that fail before they have done anything.
LEMMA QuietError ==
    ASSUME TableInv, pc = "eval", Error,
           UNCHANGED <<proc, jobtab, njobs, curjob, jobless, jobctl, hist, raised, ret, cmd>>
    PROVE  Quiet /\ Sound
  <1>1. SameJobs /\ raised' \in BOOLEAN /\ UNCHANGED <<jobctl, jobless, truth>>
    BY StillJobs DEF TableInv, ControlTypes, hist
  <1> QED
    BY <1>1, QuietEnd DEF Error

\* set -m and set +m.
LEMMA QuietSetJobctl ==
    ASSUME TableInv, SetJobctl
    PROVE  Quiet /\ Sound
  <1>1. /\ pc = "eval" /\ "set" \in Commands /\ jobctl' \in JobControl \ {jobctl}
        /\ UNCHANGED <<proc, jobtab, njobs, curjob, jobless, result, raised, pc, cmd, ret, owner, truth>>
    BY DEF SetJobctl, Idle, procVars, ctlVars, hist
  <1>2. SameJobs /\ SameProcs /\ ProcInv'
    BY <1>1, StillJobs, StillProcs
  <1>3. Writer' = Writer /\ BusyInv'
    BY <1>1 DEF Writer, BusyInv, Inside
  <1>4. ControlTypes'
    BY <1>1 DEF TableInv, ControlTypes
  <1>5. ~(Steady /\ "fg" \in Commands)
    <2>1. jobctl \in JobControl /\ JobControl \subseteq BOOLEAN
      BY JobsAssumption DEF TableInv, ControlTypes
    <2>2. JobControl = BOOLEAN
      BY <1>1, <2>1
    <2> QED
      BY <1>1, <2>2 DEF Steady
  <1> QED
    BY <1>1, <1>2, <1>3, <1>4, <1>5 DEF Quiet, Sound

\* What children and senders of signals do.
LEMMA QuietEnvironment ==
    ASSUME WaitInv, TableInv, Environment, UNCHANGED <<jobVars, ctlVars, hist>>
    PROVE  Quiet /\ Sound
  <1>1. UNCHANGED <<jobtab, njobs, curjob, jobless, jobctl, result, raised, pc, cmd, ret, owner, truth>>
    BY DEF jobVars, ctlVars, hist
  <1>2. SameJobs /\ Used' = Used
    BY <1>1, StillJobs DEF Used
  <1>3. proc \in [Pids -> ProcState]
    BY DEF WaitInv, ProcessesTypeOK
  <1>4. SameProcs /\ ProcInv'
    <2>1. ASSUME NEW p \in Pids, NEW c \in Finals, ProcExit(p, c)
          PROVE  SameProcs /\ ProcInv'
      <3>1. /\ proc[p].st \in {"running", "stopped"}
            /\ proc' = [proc EXCEPT ![p] = Process("zombie", FALSE, c)]
        BY <2>1 DEF ProcExit
      <3>2. /\ proc'[p].st = "zombie" /\ proc'[p].status = c
            /\ \A q \in Pids : q # p => proc'[q] = proc[q]
        BY <1>3, <3>1 DEF Process
      <3> QED
        BY <3>1, <3>2 DEF SameProcs, Existing, TableInv, ProcInv
    <2>2. ASSUME NEW p \in Pids, ProcStop(p)
          PROVE  SameProcs /\ ProcInv'
      <3>1. /\ proc[p].st = "running" /\ Stoppable
            /\ proc' = [proc EXCEPT ![p] = Process("stopped", TRUE, Live)]
        BY <2>2 DEF ProcStop
      <3>2. proc'[p].st = "stopped" /\ \A q \in Pids : q # p => proc'[q] = proc[q]
        BY <1>3, <3>1 DEF Process
      <3> QED
        BY <3>1, <3>2 DEF SameProcs, Existing, TableInv, ProcInv
    <2>3. ASSUME NEW p \in Pids, ProcCont(p)
          PROVE  SameProcs /\ ProcInv'
      <3>1. /\ proc[p].st = "stopped"
            /\ proc' = [proc EXCEPT ![p] = Process("running", FALSE, Live)]
        BY <2>3 DEF ProcCont
      <3>2. proc'[p].st = "running" /\ \A q \in Pids : q # p => proc'[q] = proc[q]
        BY <1>3, <3>1 DEF Process
      <3> QED
        BY <3>1, <3>2 DEF SameProcs, Existing, TableInv, ProcInv
    <2>4. ASSUME NEW s \in Traps, SendTrapped(s)
          PROVE  SameProcs /\ ProcInv'
      BY <2>4, StillProcs DEF SendTrapped
    <2> QED
      BY <2>1, <2>2, <2>3, <2>4 DEF Environment
  <1>5. Writer' = Writer /\ BusyInv'
    BY <1>1, <1>2 DEF Writer, TableInv, BusyInv
  <1>6. ControlTypes'
    BY <1>1 DEF TableInv, ControlTypes
  <1> QED
    BY <1>1, <1>2, <1>4, <1>5, <1>6 DEF Quiet, Sound

LEMMA QuietStutter ==
    ASSUME TableInv, UNCHANGED vars
    PROVE  Quiet /\ Sound
  <1>1. UNCHANGED <<proc, jobtab, njobs, curjob, jobless, jobctl, result, raised, pc, cmd, ret, owner, truth>>
    BY DEF vars, procVars, jobVars, ctlVars, hist
  <1>2. SameJobs /\ SameProcs /\ ProcInv' /\ Used' = Used
    BY <1>1, StillJobs, StillProcs DEF Used
  <1>3. Writer' = Writer /\ BusyInv'
    BY <1>1, <1>2 DEF Writer, TableInv, BusyInv
  <1>4. ControlTypes'
    BY <1>1 DEF TableInv, ControlTypes
  <1> QED
    BY <1>1, <1>2, <1>3, <1>4 DEF Quiet, Sound

\* Such steps keep the invariant.
LEMMA QuietTable ==
    ASSUME TableInv, Quiet, Sound
    PROVE  TableInv'
  <1>1. SameJobs
    BY DEF Quiet
  <1>2. Used' = Used
    BY <1>1 DEF SameJobs, Used
  <1>3. TableTypes' /\ ListInv'
    BY <1>1, <1>2 DEF SameJobs, TableInv, TableTypes, ListInv, Once
  <1>4. SlotInv'
    BY <1>1 DEF SameJobs, TableInv, SlotInv
  <1>5. ForkInv'
    <2>1. CASE pc' = "fork"
      <3>1. pc = "fork" /\ cmd' = cmd
        BY <2>1 DEF Quiet
      <3>2. cmd.job \in Slots /\ ForkInv
        BY <3>1 DEF TableInv, ForkInv, Used
      <3> QED
        BY <1>1, <1>2, <3>1, <3>2 DEF SameJobs, ForkInv
    <2>2. CASE pc' # "fork"
      BY <2>2 DEF ForkInv
    <2> QED
      BY <2>1, <2>2
  <1> QED
    BY <1>3, <1>4, <1>5 DEF Sound, TableInv

LEMMA QuietAwait ==
    ASSUME TableInv, AwaitInv, Quiet
    PROVE  AwaitInv'
  <1>1. /\ SameJobs /\ Existing' = Existing /\ owner' = owner /\ curjob' = curjob
        /\ \A p \in Pids : proc'[p].st = "unborn" <=> proc[p].st = "unborn"
    BY DEF Quiet, SameJobs, SameProcs
  <1>2. /\ Used' = Used /\ Used \subseteq Slots
        /\ \A j \in Slots : jobtab'[j].ps = jobtab[j].ps
    BY <1>1 DEF SameJobs, Used
  <1>3. /\ \A j \in Slots : \A p : Awaits(j, p)' <=> Awaits(j, p)
        /\ \A j \in Slots : \A p : HasPid(j, p)' <=> HasPid(j, p)
    BY <1>2 DEF Awaits, HasPid
  <1>4. NoStatusLost'
    BY <1>1, <1>2 DEF AwaitInv, NoStatusLost, ChildrenAwaited, OwnersInUse
  <1>5. pc' = "fork" => pc = "fork" /\ cmd' = cmd
    BY DEF Quiet
  <1> QED
    BY <1>1, <1>2, <1>3, <1>4, <1>5 DEF AwaitInv, Before

LEMMA QuietState ==
    ASSUME StateInv, Quiet, Steady
    PROVE  StateInv'
  <1>1. SameJobs /\ ("fg" \in Commands => jobctl' = jobctl)
    BY DEF Quiet
  <1>2. Used' = Used /\ Used \subseteq Slots
    BY <1>1 DEF SameJobs, Used
  <1> QED
    BY <1>1, <1>2 DEF SameJobs, StateInv, NewState

LEMMA QuietCount ==
    ASSUME CountInv, Quiet
    PROVE  CountInv'
  BY DEF CountInv, Quiet, SameJobs, SameProcs, Orphans

LEMMA QuietTruth ==
    ASSUME TableInv, TruthInv, Quiet, ~SysFailures
    PROVE  TruthInv'
  <1>1. SameJobs /\ Existing' = Existing /\ owner' = owner
    BY DEF Quiet, SameJobs, SameProcs
  <1>2. /\ Used' = Used /\ Used \subseteq Slots
        /\ \A j \in Used : jobtab'[j].ps = jobtab[j].ps /\ truth'[j] = truth[j]
    BY <1>1 DEF SameJobs, Used
  <1>3. \A j : Forks(j)' <=> Forks(j)
    BY DEF Quiet, Forks
  <1> QED
    BY <1>1, <1>2, <1>3 DEF TruthInv

\* A job that goes to the front leaves the order of the others.
LEMMA FrontOrder ==
    ASSUME NEW list \in Seq(Slots), NEW j \in Slots, NEW a, NEW b, a # j, b # j,
           Before(list, a, b)
    PROVE  Before(SetStopped(list, j), a, b)
  <1>1. Before(Unlinked(list, j), a, b) /\ Unlinked(list, j) \in Seq(Slots)
    BY WithoutOrder, WithoutPlaces DEF Unlinked
  <1>2. Before(<<j>> \o Unlinked(list, j), a, b)
    BY <1>1, PushElements
  <1> QED
    BY <1>2 DEF SetStopped

\* The others come after it.
LEMMA FrontFirst ==
    ASSUME NEW list \in Seq(Slots), NEW j \in Slots, NEW b \in ToSet(list), b # j
    PROVE  Before(SetStopped(list, j), j, b)
  <1>1. b \in ToSet(Unlinked(list, j)) /\ Unlinked(list, j) \in Seq(Slots)
    BY WithoutElements DEF Unlinked
  <1>2. Before(<<j>> \o Unlinked(list, j), j, b)
    BY <1>1, PushElements
  <1> QED
    BY <1>2 DEF SetStopped

-----------------------------------------------------------------------------
(***************************************************************************)
(* makejob                                                                 *)
(***************************************************************************)

\* makejob takes a slot that is free, or of a job that is done and waited for.
LEMMA SlotTaken ==
    ASSUME TableInv, MakeJobSlot <= njobs \/ njobs + GrowBy <= MaxJobs
    PROVE  LET j == MakeJobSlot IN
           /\ j \in Slots
           /\ j <= IF j <= njobs THEN njobs ELSE njobs + GrowBy
           /\ (IF j <= njobs THEN njobs ELSE njobs + GrowBy) \in 0 .. MaxJobs
           /\ njobs <= IF j <= njobs THEN njobs ELSE njobs + GrowBy
           /\ jobtab[j].used => jobtab[j].state = "DONE" /\ jobtab[j].waited
  <1> DEFINE I == {j \in 1 .. njobs : Reusable(j)}
             j == MakeJobSlot
  <1>1. njobs \in 0 .. MaxJobs /\ MaxJobs \in Nat /\ GrowBy \in Nat /\ GrowBy >= 1
    BY JobsAssumption DEF TableInv, TableTypes
  <1>2. CASE I # {}
    <2>1. Min(I) \in I /\ \A k \in I : Min(I) <= k
      BY <1>1, <1>2, LeastOf
    <2>2. \E i \in 1 .. njobs : Reusable(i) /\ \A k \in 1 .. i - 1 : ~Reusable(k)
      <3>1. \A k \in 1 .. Min(I) - 1 : k \in 1 .. njobs /\ ~(Min(I) <= k)
        BY <2>1, <1>1
      <3> QED
        BY <2>1, <3>1
    <2>3. j = CHOOSE i \in 1 .. njobs : Reusable(i) /\ \A k \in 1 .. i - 1 : ~Reusable(k)
      BY <2>2 DEF MakeJobSlot
    <2>4. j \in 1 .. njobs /\ Reusable(j)
      BY <2>2, <2>3
    <2> HIDE DEF j
    <2>5. j \in Slots /\ j <= njobs
      BY <2>4, <1>1 DEF Slots
    <2> QED
      BY <2>4, <2>5, <1>1 DEF Reusable, j
  <1>3. CASE I = {}
    <2>1. j = njobs + 1
      BY <1>3 DEF MakeJobSlot
    <2>2. ~(j <= njobs) /\ njobs + GrowBy <= MaxJobs
      BY <1>1, <2>1
    <2>3. j \in Slots /\ j <= njobs + GrowBy /\ njobs <= njobs + GrowBy /\ njobs + GrowBy \in 0 .. MaxJobs
      BY <1>1, <2>1, <2>2 DEF Slots
    <2>4. ~jobtab[j].used
      BY <2>2, <2>3 DEF TableInv, SlotInv
    <2> QED
      BY <2>2, <2>3, <2>4
  <1> QED
    BY <1>2, <1>3

\* What MakeJob does.
Makes(j) ==
    /\ pc = "eval" /\ pc' = "fork"
    /\ j \in Slots
    /\ jobtab[j].used => jobtab[j].state = "DONE" /\ jobtab[j].waited
    /\ jobtab' = [jobtab EXCEPT ![j] = FreshJob(TRUE, jobctl)]
    /\ curjob' = SetStopped(curjob, j)
    /\ cmd'.job = j
    /\ truth' = [truth EXCEPT ![j] = Live]
    /\ UNCHANGED <<proc, jobless, jobctl, result, owner>>

LEMMA MakeJobTable ==
    ASSUME TableInv, NEW n \in 1 .. MaxPipe, NEW bg \in BOOLEAN, MakeJob(n, bg)
    PROVE  Makes(MakeJobSlot) /\ TableInv'
  <1> DEFINE j == MakeJobSlot
  <1>1. /\ pc = "eval" /\ pc' = "fork"
        /\ j <= njobs \/ njobs + GrowBy <= MaxJobs
        /\ njobs' = IF j <= njobs THEN njobs ELSE njobs + GrowBy
        /\ jobtab' = [jobtab EXCEPT ![j] = FreshJob(TRUE, jobctl)]
        /\ curjob' = SetStopped(curjob, j)
        /\ cmd' = [NoCommand EXCEPT !.op = "run", !.job = j, !.left = n, !.bg = bg]
        /\ truth' = [truth EXCEPT ![j] = Live]
        /\ UNCHANGED <<proc, jobless, jobctl, result, raised, ret, owner>>
    BY DEF MakeJob, Idle, procVars
  <1>2. /\ j \in Slots /\ j <= njobs' /\ njobs' \in 0 .. MaxJobs /\ njobs <= njobs'
        /\ jobtab[j].used => jobtab[j].state = "DONE" /\ jobtab[j].waited
    BY <1>1, SlotTaken
  <1> HIDE DEF j
  <1>3. /\ cmd' \in Cmd /\ cmd'.op = "run" /\ cmd'.job = j /\ cmd'.left = n
    <2>1. n \in 0 .. MaxPipe
      BY JobsAssumption
    <2>2. cmd' = [op |-> "run", job |-> j, left |-> n, bg |-> bg, block |-> FALSE, mode |-> "all"]
      BY <1>1 DEF NoCommand
    <2> QED
      BY <2>1, <2>2, <1>2 DEF Cmd, Ops
  <1>4. Makes(j)
    BY <1>1, <1>2, <1>3 DEF Makes
  <1>5. /\ jobctl \in BOOLEAN /\ jobtab \in [Slots -> Job] /\ curjob \in Seq(Slots)
    BY JobsAssumption DEF TableInv, ControlTypes, TableTypes
  <1>6. FreshJob(TRUE, jobctl) \in Job
    BY <1>5 DEF FreshJob, Job
  <1>7. /\ jobtab'[j] = FreshJob(TRUE, jobctl)
        /\ \A k \in Slots : k # j => jobtab'[k] = jobtab[k]
    BY <1>1, <1>2, <1>5
  <1>8. Used' = Used \cup {j}
    BY <1>2, <1>7 DEF Used, FreshJob
  <1>9. /\ curjob' \in Seq(Slots) /\ ToSet(curjob') = ToSet(curjob) \cup {j} /\ Once(curjob')
    BY <1>1, <1>2, <1>5, Relinked DEF TableInv, ListInv
  <1>10. ControlTypes'
    BY <1>1, <1>2, <1>3 DEF TableInv, ControlTypes
  <1>11. TableTypes'
    BY <1>1, <1>2, <1>5, <1>6, <1>9 DEF TableInv, TableTypes
  <1>12. ProcInv'
    BY <1>1 DEF TableInv, ProcInv
  <1>13. ListInv'
    BY <1>8, <1>9 DEF TableInv, ListInv
  <1>14. SlotInv'
    <2>1. \A k \in Slots : jobtab[k].used => k <= njobs'
      BY <1>1, <1>2 DEF TableInv, TableTypes, SlotInv, Slots
    <2>2. Len(<<>>) <= MaxPipe /\ DOMAIN <<>> = {}
      BY JobsAssumption
    <2> QED
      BY <1>2, <1>7, <2>1, <2>2 DEF TableInv, SlotInv, FreshJob
  <1>15. ForkInv'
    <2>1. Len(<<>>) + n <= MaxPipe /\ n >= 1 /\ DOMAIN <<>> = {}
      OBVIOUS
    <2> QED
      BY <2>1, <1>2, <1>3, <1>7, <1>8 DEF ForkInv, FreshJob
  <1>16. BusyInv'
    BY <1>1 DEF BusyInv, Inside
  <1> QED
    BY <1>4, <1>10, <1>11, <1>12, <1>13, <1>14, <1>15, <1>16 DEF TableInv, j

\* The new job has no processes, and the slot's old one awaits none.
LEMMA MadeJob ==
    ASSUME TableInv, NEW j, Makes(j)
    PROVE  /\ j \in Slots /\ Used' = Used \cup {j}
           /\ jobtab'[j].ps = <<>> /\ jobtab'[j].state = "RUNNING" /\ jobtab'[j].jobctl = jobctl
           /\ \A k \in Slots : k # j => jobtab'[k] = jobtab[k]
           /\ \A p : ~Awaits(j, p)' /\ ~HasPid(j, p)' /\ ~Awaits(j, p)
           /\ \A k \in Slots : k # j => \A p : /\ Awaits(k, p)' <=> Awaits(k, p)
                                               /\ HasPid(k, p)' <=> HasPid(k, p)
           /\ Existing' = Existing
  <1>1. /\ jobtab'[j] = FreshJob(TRUE, jobctl) /\ j \in Slots
        /\ \A k \in Slots : k # j => jobtab'[k] = jobtab[k]
    BY DEF Makes, TableInv, TableTypes
  <1>2. Used' = Used \cup {j}
    BY <1>1 DEF Used, FreshJob
  <1>3. \A p : ~Awaits(j, p)
    <2>1. CASE jobtab[j].used
      BY <2>1, <1>1, StatusTypes DEF Makes, TableInv, SlotInv, Awaits
    <2>2. CASE ~jobtab[j].used
      BY <2>2, <1>1 DEF TableInv, SlotInv, Awaits
    <2> QED
      BY <2>1, <2>2
  <1>4. \A p : ~Awaits(j, p)' /\ ~HasPid(j, p)'
    BY <1>1 DEF Awaits, HasPid, FreshJob
  <1>5. Existing' = Existing
    BY DEF Makes, Existing
  <1> QED
    BY <1>1, <1>2, <1>3, <1>4, <1>5 DEF Awaits, HasPid, FreshJob

LEMMA MakeJobAwait ==
    ASSUME TableInv, AwaitInv, NEW j, Makes(j)
    PROVE  AwaitInv'
  <1>1. /\ j \in Slots /\ Used' = Used \cup {j} /\ Existing' = Existing /\ Used \subseteq Slots
        /\ \A p : ~Awaits(j, p)' /\ ~HasPid(j, p)' /\ ~Awaits(j, p)
        /\ \A k \in Slots : k # j => \A p : /\ Awaits(k, p)' <=> Awaits(k, p)
                                            /\ HasPid(k, p)' <=> HasPid(k, p)
    BY MadeJob DEF Used
  <1>2. /\ owner' = owner /\ proc' = proc /\ curjob' = SetStopped(curjob, j) /\ cmd'.job = j
        /\ curjob \in Seq(Slots) /\ Once(curjob)
    BY DEF Makes, TableInv, TableTypes, ListInv
  <1>3. /\ \A k \in Used, p \in Pids : p \in Existing /\ owner[p].job = k <=> Awaits(k, p)
        /\ \A p \in Existing : owner[p].job \in Used \cup {0}
    BY DEF AwaitInv, NoStatusLost, ChildrenAwaited, OwnersInUse, Awaits
  <1>4. \A p \in Existing : owner[p].job # j
    <2>1. j # 0 /\ Existing \subseteq Pids
      BY <1>1 DEF Slots, Existing
    <2> QED
      BY <2>1, <1>1, <1>3
  <1>5. NoStatusLost'
    <2>1. \A k \in Used', p \in Pids : p \in Existing /\ owner[p].job = k <=> Awaits(k, p)'
      BY <1>1, <1>3, <1>4
    <2> QED
      BY <2>1, <1>1, <1>2, <1>3 DEF NoStatusLost, ChildrenAwaited, OwnersInUse, Awaits
  <1>6. ASSUME NEW a \in Used', NEW b \in Used', NEW p \in Pids,
               Awaits(a, p)', HasPid(b, p)', b # a
        PROVE  ReusePids /\ Before(curjob', a, b)
    <2>1. a # j /\ b # j /\ a \in Used /\ b \in Used /\ Awaits(a, p) /\ HasPid(b, p)
      BY <1>1, <1>6
    <2>2. ReusePids /\ Before(curjob, a, b)
      BY <2>1, <1>6 DEF AwaitInv
    <2> QED
      BY <2>1, <2>2, <1>1, <1>2, FrontOrder
  <1>7. ~ReusePids => \A k \in Used' : \A p \in Pids :
           HasPid(k, p)' => proc'[p].st # "unborn" /\ (p \in Existing' => owner'[p].job = k)
    BY <1>1, <1>2 DEF AwaitInv
  <1>8. curjob' # <<>> /\ curjob'[1] = cmd'.job
    BY <1>1, <1>2, Relinked
  <1>9. \A p \in Existing' : owner'[p].job = 0 => owner'[p] = Untracked
    BY <1>1, <1>2 DEF AwaitInv
  <1>10. \A a, b \in Used' : \A p \in Pids :
            Awaits(a, p)' /\ HasPid(b, p)' /\ b # a => ReusePids /\ Before(curjob, a, b)'
    BY <1>6 DEF Before
  <1> QED
    BY <1>5, <1>7, <1>8, <1>9, <1>10 DEF AwaitInv

LEMMA MakeJobState ==
    ASSUME TableInv, StateInv, NEW j, Makes(j)
    PROVE  StateInv'
  <1>1. /\ Used' = Used \cup {j} /\ jobtab'[j].ps = <<>> /\ jobtab'[j].state = "RUNNING"
        /\ jobtab'[j].jobctl = jobctl /\ jobctl' = jobctl
        /\ \A k \in Slots : k # j => jobtab'[k] = jobtab[k]
    BY MadeJob DEF Makes
  <1> QED
    BY <1>1 DEF StateInv, NewState, Used

LEMMA MakeJobCount ==
    ASSUME TableInv, CountInv, NEW j, Makes(j)
    PROVE  CountInv'
  <1>1. Writer = 0 /\ Writer' = 0 /\ Orphans' = Orphans /\ jobless' = jobless
    BY MadeJob DEF Makes, Writer, Inside, Orphans
  <1> QED
    BY <1>1 DEF CountInv

LEMMA MakeJobTruth ==
    ASSUME TableInv, TruthInv, NEW j, Makes(j)
    PROVE  TruthInv'
  <1>1. /\ Used' = Used \cup {j} /\ jobtab'[j].ps = <<>> /\ Existing' = Existing /\ owner' = owner
        /\ \A k \in Used : k # j => jobtab'[k] = jobtab[k]
    BY MadeJob DEF Makes, Used
  <1>2. \A k \in Used : k # j => truth'[k] = truth[k]
    BY DEF Makes, TableInv, ControlTypes, Used
  <1>3. \A k : ~Forks(k) /\ (k # j => ~Forks(k)')
    BY DEF Makes, Forks
  <1>4. ASSUME NEW k \in Used', k # j
        PROVE  LET ps == jobtab'[k].ps
               IN  /\ \A i, l \in DOMAIN ps : ps[i].pid = ps[l].pid => i = l
                   /\ \A i \in DOMAIN ps : ps[i].status \in {Live, Stopped} =>
                        owner'[ps[i].pid] = Owned(k, ~Forks(k)' /\ i = Len(ps))
                   /\ ps # <<>> /\ ~Forks(k)' /\ ps[Len(ps)].status \in Finals =>
                        truth'[k] = ps[Len(ps)].status
    <2>1. k \in Used /\ jobtab'[k] = jobtab[k] /\ truth'[k] = truth[k] /\ ~Forks(k) /\ ~Forks(k)'
      BY <1>1, <1>2, <1>3, <1>4
    <2> QED
      BY <2>1, <1>1 DEF TruthInv
  <1>5. DOMAIN <<>> = {}
    OBVIOUS
  <1> QED
    BY <1>1, <1>4, <1>5 DEF TruthInv

\* Without stopped jobs set_curjob puts a running job at the front.
LEMMA RunningFront ==
    ASSUME NEW list \in Seq(Slots), NEW tab, NEW j \in Slots,
           \A k \in Slots : tab[k].state # "STOPPED"
    PROVE  SetRunning(list, tab, j) = SetStopped(list, j)
  <1> DEFINE rest == Unlinked(list, j)
             I == {i \in 1 .. Len(rest) : tab[rest[i]].state # "STOPPED"}
             first == IF I # {} THEN Min(I) ELSE 0
  <1>1. rest \in Seq(Slots)
    BY WithoutElements DEF Unlinked
  <1>2. StoppedPrefix(rest, tab) = IF first = 0 THEN Len(rest) ELSE first - 1
    BY DEF StoppedPrefix, SelectInSeq
  <1>3. PICK n \in Nat : n = Len(rest)
    BY <1>1, LenProperties
  <1>4. I = 1 .. n
    BY <1>1, <1>3
  <1>5. \/ I = {} /\ first = 0
        \/ first \in I /\ first # 0 /\ \A k \in I : first <= k
    BY <1>1, FirstOfList
  <1> HIDE DEF first, I
  <1>6. (n = 0 /\ first = 0) \/ first = 1
    <2>1. CASE I = {} /\ first = 0
      BY <2>1, <1>4
    <2>2. CASE first \in I /\ first # 0 /\ \A k \in I : first <= k
      <3>1. first \in 1 .. n /\ 1 \in 1 .. n
        BY <2>2, <1>4
      <3> QED
        BY <2>2, <3>1, <1>4
    <2> QED
      BY <1>5, <2>1, <2>2
  <1>7. StoppedPrefix(rest, tab) + 1 = 1
    BY <1>2, <1>3, <1>6
  <1> HIDE DEF rest
  <1>8. SetRunning(list, tab, j) = InsertAt(rest, 1, j)
    BY <1>7 DEF SetRunning, rest
  <1>9. InsertAt(rest, 1, j) = (<<>> \o <<j>>) \o rest
    <2>1. SubSeq(rest, 1, 1 - 1) = <<>>
      BY <1>1
    <2>2. SubSeq(rest, 1, Len(rest)) = rest
      BY <1>1
    <2> QED
      BY <2>1, <2>2 DEF InsertAt
  <1>10. <<>> \o <<j>> = <<j>>
    OBVIOUS
  <1> QED
    BY <1>8, <1>9, <1>10 DEF SetStopped, rest

\* The first of a list comes before the others, and none before it.
LEMMA HeadOrder ==
    ASSUME NEW list \in Seq(Slots), list # <<>>, Once(list), NEW j, list[1] = j
    PROVE  /\ \A b \in ToSet(list) : b # j => Before(list, j, b)
           /\ \A a : ~Before(list, a, j)
  <1>1. PICK n \in Nat : n = Len(list) /\ n # 0
    BY EmptySeq, LenProperties
  <1>2. DOMAIN list = 1 .. n /\ 1 \in 1 .. n
    BY <1>1
  <1>3. ASSUME NEW b \in ToSet(list), b # j PROVE Before(list, j, b)
    <2>1. PICK k \in 1 .. n : list[k] = b
      BY <1>2 DEF ToSet
    <2>2. 1 < k
      BY <2>1, <1>3
    <2> QED
      BY <2>1, <2>2, <1>2 DEF Before
  <1>4. ASSUME NEW a, Before(list, a, j) PROVE FALSE
    <2>1. PICK i \in 1 .. n, k \in 1 .. n : i < k /\ list[k] = j
      BY <1>2, <1>4 DEF Before
    <2>2. k = 1
      BY <2>1, <1>2 DEF Once
    <2> QED
      BY <2>1, <2>2
  <1> QED
    BY <1>3, <1>4

-----------------------------------------------------------------------------
(***************************************************************************)
(* forkshell                                                               *)
(***************************************************************************)

\* What Fork does, j being the job of the command.
Forked(j, p) ==
    /\ pc = "fork" /\ j = cmd.job /\ p \in Forkable
    /\ proc' = [proc EXCEPT ![p] = Process("running", FALSE, Live)]
    /\ owner' = [owner EXCEPT ![p] = Owned(j, cmd.left = 1)]
    /\ jobtab' = [jobtab EXCEPT ![j].ps = Append(@, [pid |-> p, status |-> Live])]
    /\ curjob' = curjob \/ curjob' = SetRunning(curjob, jobtab, j)
    /\ cmd' = [cmd EXCEPT !.left = @ - 1]
    /\ pc' = "fork" <=> cmd.left > 1
    /\ pc' \in {"fork", "end", "loop"}
    /\ result' \in Nat \cup {Kept}
    /\ UNCHANGED <<njobs, jobless, jobctl, raised, ret, truth>>

LEMMA ForkedStep ==
    ASSUME NEW p \in Pids, Fork(p)
    PROVE  Forked(cmd.job, p)
  BY DEF Fork, Forked, Kept, hist

\* The job's processes, with the new one at the end.
LEMMA ForkedJob ==
    ASSUME WaitInv, TableInv, NEW p \in Pids, NEW j, Forked(j, p)
    PROVE  /\ j \in Used /\ j \in Slots /\ j # 0
           /\ Used' = Used
           /\ jobtab[j].state = "RUNNING" /\ jobtab'[j].state = "RUNNING"
           /\ jobtab'[j].used = jobtab[j].used /\ jobtab'[j].changed = jobtab[j].changed
           /\ jobtab'[j].jobctl = jobtab[j].jobctl
           /\ jobtab' \in [Slots -> Job]
           /\ \A k \in Slots : k # j => jobtab'[k] = jobtab[k]
           /\ Existing' = Existing \cup {p} /\ p \notin Existing
           /\ proc'[p].st = "running" /\ \A q \in Pids : q # p => proc'[q] = proc[q]
           /\ owner'[p] = Owned(j, cmd.left = 1) /\ \A q \in Pids : q # p => owner'[q] = owner[q]
           /\ cmd' \in Cmd /\ cmd'.op = "run" /\ cmd'.job = j /\ cmd'.left = cmd.left - 1
           /\ cmd.left \in Nat /\ cmd.left >= 1
  <1>1. /\ ForkInv /\ pc = "fork" /\ j = cmd.job
        /\ jobtab \in [Slots -> Job] /\ cmd \in Cmd
    BY DEF Forked, TableInv, TableTypes, ControlTypes
  <1>2. j \in Used /\ j \in Slots /\ jobtab[j].state = "RUNNING" /\ cmd.op = "run" /\ cmd.left >= 1
    BY <1>1 DEF ForkInv, Used
  <1>3. jobtab[j] \in Job
    BY <1>1, <1>2
  <1>4. Append(jobtab[j].ps, [pid |-> p, status |-> Live]) \in Seq(Procs)
    <2>1. jobtab[j].ps \in Seq(Procs) /\ [pid |-> p, status |-> Live] \in Procs
      BY <1>3 DEF Job, Procs
    <2> QED
      BY <2>1, AppendProperties
  <1>5. jobtab' = [jobtab EXCEPT ![j].ps = Append(@, [pid |-> p, status |-> Live])]
    BY DEF Forked
  <1>6. /\ jobtab'[j] = [jobtab[j] EXCEPT !.ps = Append(jobtab[j].ps, [pid |-> p, status |-> Live])]
        /\ \A k \in Slots : k # j => jobtab'[k] = jobtab[k]
    BY <1>1, <1>2, <1>5
  <1>7. /\ jobtab'[j] \in Job
        /\ jobtab'[j].state = jobtab[j].state /\ jobtab'[j].used = jobtab[j].used
        /\ jobtab'[j].changed = jobtab[j].changed /\ jobtab'[j].jobctl = jobtab[j].jobctl
    BY <1>3, <1>4, <1>6 DEF Job, Procs
  <1>8. jobtab' \in [Slots -> Job]
    BY <1>1, <1>2, <1>5, <1>6, <1>7
  <1>9. Used' = Used
    BY <1>6, <1>7, <1>2 DEF Used
  <1>10. /\ proc' = [proc EXCEPT ![p] = Process("running", FALSE, Live)]
         /\ proc \in [Pids -> ProcState] /\ p \in Forkable
    BY DEF Forked, WaitInv, ProcessesTypeOK
  <1>11. proc'[p].st = "running" /\ \A q \in Pids : q # p => proc'[q] = proc[q]
    BY <1>10 DEF Process
  <1>12. Existing' = Existing \cup {p} /\ p \notin Existing
    BY <1>10, <1>11 DEF Existing, Forkable
  <1>13. /\ owner'[p] = Owned(j, cmd.left = 1) /\ \A q \in Pids : q # p => owner'[q] = owner[q]
    BY DEF Forked, TableInv, TableTypes
  <1>14. cmd.left \in 1 .. MaxPipe /\ cmd.left \in Nat
    BY <1>1, <1>2, JobsAssumption DEF Cmd
  <1>15. cmd.left - 1 \in 0 .. MaxPipe
    BY <1>14, JobsAssumption
  <1>16. cmd' \in Cmd /\ cmd'.op = "run" /\ cmd'.job = j /\ cmd'.left = cmd.left - 1
    BY <1>1, <1>2, <1>15 DEF Forked, Cmd
  <1>17. j # 0
    BY <1>2 DEF Slots
  <1> QED
    BY <1>2, <1>6, <1>7, <1>8, <1>9, <1>11, <1>12, <1>13, <1>14, <1>16, <1>17

\* Its processes one by one.
LEMMA ForkedPs ==
    ASSUME WaitInv, TableInv, NEW p \in Pids, NEW j, Forked(j, p)
    PROVE  \E n \in Nat :
             /\ n = Len(jobtab[j].ps) /\ Len(jobtab'[j].ps) = n + 1
             /\ DOMAIN jobtab[j].ps = 1 .. n /\ DOMAIN jobtab'[j].ps = 1 .. (n + 1)
             /\ \A i \in 1 .. n : jobtab'[j].ps[i] = jobtab[j].ps[i]
             /\ jobtab'[j].ps[n + 1].pid = p /\ jobtab'[j].ps[n + 1].status = Live
             /\ jobtab'[j].ps # <<>>
             /\ \A i \in 1 .. n : jobtab[j].ps[i].status = Live
             /\ n + cmd.left <= MaxPipe
  <1> DEFINE ps == jobtab[j].ps
             new == [pid |-> p, status |-> Live]
  <1>1. j \in Slots /\ jobtab \in [Slots -> Job]
    BY ForkedJob DEF TableInv, TableTypes
  <1>2. ps \in Seq(Procs) /\ new \in Procs
    BY <1>1 DEF Job, Procs
  <1>3. jobtab'[j].ps = Append(ps, new)
    BY <1>1 DEF Forked, Job
  <1>4. PICK n \in Nat : n = Len(ps)
    BY <1>2, LenProperties
  <1>5. /\ Append(ps, new) \in Seq(Procs) /\ Len(Append(ps, new)) = n + 1
        /\ \A i \in 1 .. n : Append(ps, new)[i] = ps[i]
        /\ Append(ps, new)[n + 1] = new
    BY <1>2, <1>4, AppendProperties
  <1>6. DOMAIN ps = 1 .. n /\ DOMAIN Append(ps, new) = 1 .. (n + 1) /\ Append(ps, new) # <<>>
    BY <1>2, <1>4, <1>5
  <1>7. (\A i \in 1 .. n : ps[i].status = Live) /\ n + cmd.left <= MaxPipe
    BY <1>4, <1>6 DEF Forked, TableInv, ForkInv
  <1> HIDE DEF ps
  <1>8. new.pid = p /\ new.status = Live
    OBVIOUS
  <1> HIDE DEF new
  <1> QED
    BY <1>3, <1>4, <1>5, <1>6, <1>7, <1>8 DEF ps

LEMMA ForkedPids ==
    ASSUME WaitInv, TableInv, NEW p \in Pids, NEW j, Forked(j, p)
    PROVE  /\ \A q : HasPid(j, q)' <=> HasPid(j, q) \/ q = p
           /\ \A q : Awaits(j, q)' <=> Awaits(j, q) \/ q = p
           /\ \A q : HasPid(j, q) <=> Awaits(j, q)
           /\ \A k \in Slots : k # j => \A q : /\ HasPid(k, q)' <=> HasPid(k, q)
                                               /\ Awaits(k, q)' <=> Awaits(k, q)
  <1>1. PICK n \in Nat :
             /\ DOMAIN jobtab[j].ps = 1 .. n /\ DOMAIN jobtab'[j].ps = 1 .. (n + 1)
             /\ \A i \in 1 .. n : jobtab'[j].ps[i] = jobtab[j].ps[i]
             /\ jobtab'[j].ps[n + 1].pid = p /\ jobtab'[j].ps[n + 1].status = Live
             /\ \A i \in 1 .. n : jobtab[j].ps[i].status = Live
    BY ForkedPs
  <1>2. \A i : i \in 1 .. (n + 1) <=> i \in 1 .. n \/ i = n + 1
    BY <1>1
  <1>3. \A q : HasPid(j, q)' <=> HasPid(j, q) \/ q = p
    BY <1>1, <1>2 DEF HasPid
  <1>4. \A q : Awaits(j, q)' <=> Awaits(j, q) \/ q = p
    BY <1>1, <1>2 DEF Awaits
  <1>5. \A q : HasPid(j, q) <=> Awaits(j, q)
    BY <1>1 DEF HasPid, Awaits
  <1>6. \A k \in Slots : k # j => jobtab'[k] = jobtab[k]
    BY ForkedJob
  <1> QED
    BY <1>3, <1>4, <1>5, <1>6 DEF HasPid, Awaits

\* The list after a fork.
LEMMA ForkedList ==
    ASSUME WaitInv, TableInv, NEW p \in Pids, NEW j, Forked(j, p)
    PROVE  /\ curjob' \in Seq(Slots) /\ ToSet(curjob') = ToSet(curjob) /\ Once(curjob')
           /\ ~Stoppable /\ curjob # <<>> /\ curjob[1] = j =>
                 /\ curjob' # <<>> /\ curjob'[1] = j
                 /\ \A a, b : Before(curjob, a, b) /\ a \in ToSet(curjob) /\ b \in ToSet(curjob) /\ a # b
                                 => Before(curjob', a, b)
                 /\ \A b \in ToSet(curjob) : b # j => Before(curjob', j, b)
  <1>1. /\ curjob \in Seq(Slots) /\ Once(curjob) /\ j \in Slots /\ j \in ToSet(curjob)
    BY ForkedJob DEF TableInv, TableTypes, ListInv
  <1>2. CASE curjob' = curjob
    BY <1>1, <1>2, HeadOrder
  <1>3. CASE curjob' = SetRunning(curjob, jobtab, j)
    <2>1. curjob' \in Seq(Slots) /\ ToSet(curjob') = ToSet(curjob) /\ Once(curjob')
      <3>1. /\ SetRunning(curjob, jobtab, j) \in Seq(Slots)
            /\ ToSet(SetRunning(curjob, jobtab, j)) = ToSet(curjob) \cup {j}
            /\ Once(SetRunning(curjob, jobtab, j))
        BY <1>1, Relinked
      <3>2. ToSet(curjob) \cup {j} = ToSet(curjob)
        BY <1>1
      <3> QED
        BY <1>3, <3>1, <3>2
    <2>2. ASSUME ~Stoppable, curjob # <<>>, curjob[1] = j
          PROVE  /\ curjob' # <<>> /\ curjob'[1] = j
                 /\ \A a, b : Before(curjob, a, b) /\ a \in ToSet(curjob) /\ b \in ToSet(curjob) /\ a # b
                                 => Before(curjob', a, b)
                 /\ \A b \in ToSet(curjob) : b # j => Before(curjob', j, b)
      <3>1. \A k \in Slots : jobtab[k].state # "STOPPED"
        BY <2>2 DEF TableInv, SlotInv
      <3>2. curjob' = SetStopped(curjob, j)
        BY <1>1, <1>3, <3>1, RunningFront
      <3>3. curjob' # <<>> /\ curjob'[1] = j
        BY <1>1, <3>2, Relinked
      <3>4. \A b \in ToSet(curjob) : b # j => Before(curjob', j, b)
        BY <1>1, <3>2, FrontFirst
      <3>5. ASSUME NEW a, NEW b, Before(curjob, a, b), a \in ToSet(curjob), b \in ToSet(curjob), a # b
            PROVE  Before(curjob', a, b)
        <4>1. b # j
          BY <1>1, <2>2, <3>5, HeadOrder
        <4>2. CASE a = j
          BY <3>4, <3>5, <4>1, <4>2
        <4>3. CASE a # j
          BY <1>1, <3>2, <3>5, <4>1, <4>3, FrontOrder
        <4> QED
          BY <4>2, <4>3
      <3> QED
        BY <3>3, <3>4, <3>5
    <2> QED
      BY <2>1, <2>2
  <1> QED
    BY <1>2, <1>3 DEF Forked

LEMMA ForkTable ==
    ASSUME WaitInv, TableInv, NEW p \in Pids, NEW j, Forked(j, p)
    PROVE  TableInv'
  <1>1. PICK n \in Nat :
             /\ n = Len(jobtab[j].ps) /\ Len(jobtab'[j].ps) = n + 1
             /\ DOMAIN jobtab'[j].ps = 1 .. (n + 1)
             /\ \A i \in 1 .. n : jobtab'[j].ps[i] = jobtab[j].ps[i]
             /\ jobtab'[j].ps[n + 1].pid = p /\ jobtab'[j].ps[n + 1].status = Live
             /\ jobtab'[j].ps # <<>>
             /\ \A i \in 1 .. n : jobtab[j].ps[i].status = Live
             /\ n + cmd.left <= MaxPipe
    BY ForkedPs
  <1>2. /\ j \in Used /\ j \in Slots /\ Used' = Used
        /\ jobtab'[j].state = "RUNNING" /\ jobtab'[j].used
        /\ jobtab' \in [Slots -> Job]
        /\ \A k \in Slots : k # j => jobtab'[k] = jobtab[k]
        /\ proc'[p].st = "running" /\ \A q \in Pids : q # p => proc'[q] = proc[q]
        /\ cmd' \in Cmd /\ cmd'.op = "run" /\ cmd'.job = j /\ cmd'.left = cmd.left - 1
        /\ cmd.left \in Nat /\ cmd.left >= 1
    BY ForkedJob DEF Used
  <1>3. \A i \in 1 .. (n + 1) : jobtab'[j].ps[i].status = Live
    <2>1. \A i : i \in 1 .. (n + 1) <=> i \in 1 .. n \/ i = n + 1
      BY <1>1
    <2> QED
      BY <1>1, <2>1
  <1>4. n + 1 <= MaxPipe /\ n + 1 + (cmd.left - 1) <= MaxPipe /\ (cmd.left > 1 => cmd.left - 1 >= 1)
    BY <1>1, <1>2, JobsAssumption
  <1>5. ControlTypes'
    BY <1>2 DEF Forked, TableInv, ControlTypes, Inside
  <1>6. TableTypes'
    <2>1. Owned(j, cmd.left = 1) \in [job : Slots \cup {0}, last : BOOLEAN]
      BY <1>2 DEF Owned
    <2>2. owner' \in [Pids -> [job : Slots \cup {0}, last : BOOLEAN]]
      BY <2>1 DEF Forked, TableInv, TableTypes
    <2> QED
      BY <2>2, <1>2, ForkedList DEF Forked, TableInv, TableTypes
  <1>7. ProcInv'
    BY <1>2 DEF TableInv, ProcInv
  <1>8. ListInv'
    BY <1>2, ForkedList DEF TableInv, ListInv
  <1>9. SlotInv'
    <2>1. \A k \in Slots : k # j =>
            /\ jobtab'[k].used => k <= njobs'
            /\ ~jobtab'[k].used => jobtab'[k].ps = <<>>
            /\ Len(jobtab'[k].ps) <= MaxPipe
            /\ jobtab'[k].state # "RUNNING" => jobtab'[k].ps # <<>>
            /\ jobtab'[k].state = "DONE" =>
                  \A i \in DOMAIN jobtab'[k].ps : jobtab'[k].ps[i].status \in Finals
            /\ ~Stoppable => /\ jobtab'[k].state # "STOPPED"
                             /\ \A i \in DOMAIN jobtab'[k].ps : jobtab'[k].ps[i].status # Stopped
      BY <1>2 DEF Forked, TableInv, SlotInv
    <2>2. j <= njobs'
      BY <1>2 DEF Forked, TableInv, SlotInv, Used
    <2>3. Len(jobtab'[j].ps) <= MaxPipe
      BY <1>1, <1>4
    <2>4. \A i \in DOMAIN jobtab'[j].ps : jobtab'[j].ps[i].status # Stopped
      BY <1>1, <1>3, StatusTypes
    <2> QED
      BY <1>2, <2>1, <2>2, <2>3, <2>4 DEF SlotInv
  <1>10. ForkInv'
    <2>1. pc' = "fork" => cmd'.left >= 1
      BY <1>2, <1>4 DEF Forked
    <2>2. Len(jobtab'[j].ps) + cmd'.left <= MaxPipe
      BY <1>1, <1>2, <1>4
    <2> QED
      BY <1>1, <1>2, <1>3, <2>1, <2>2 DEF ForkInv
  <1>11. BusyInv'
    BY <1>2 DEF BusyInv
  <1> QED
    BY <1>5, <1>6, <1>7, <1>8, <1>9, <1>10, <1>11 DEF TableInv

LEMMA ForkAwait ==
    ASSUME WaitInv, TableInv, AwaitInv, Straight, NEW p \in Pids, NEW j, Forked(j, p)
    PROVE  AwaitInv'
  <1>1. /\ j \in Used /\ j \in Slots /\ j # 0 /\ Used' = Used /\ Used \subseteq Slots
        /\ Existing' = Existing \cup {p} /\ p \notin Existing /\ Existing \subseteq Pids
        /\ proc'[p].st = "running" /\ \A q \in Pids : q # p => proc'[q] = proc[q]
        /\ owner'[p] = Owned(j, cmd.left = 1) /\ \A q \in Pids : q # p => owner'[q] = owner[q]
        /\ owner'[p].job = j /\ cmd'.job = j
    BY ForkedJob DEF Used, Existing, Owned
  <1>2. /\ \A q : HasPid(j, q)' <=> HasPid(j, q) \/ q = p
        /\ \A q : Awaits(j, q)' <=> Awaits(j, q) \/ q = p
        /\ \A q : HasPid(j, q) <=> Awaits(j, q)
        /\ \A k \in Slots : k # j => \A q : /\ HasPid(k, q)' <=> HasPid(k, q)
                                            /\ Awaits(k, q)' <=> Awaits(k, q)
    BY ForkedPids
  <1>3. /\ \A k \in Used, q \in Pids : q \in Existing /\ owner[q].job = k <=> Awaits(k, q)
        /\ \A q \in Existing : owner[q].job \in Used \cup {0}
    BY DEF AwaitInv, NoStatusLost, ChildrenAwaited, OwnersInUse, Awaits
  <1>4. \A k \in Used : ~Awaits(k, p)
    BY <1>1, <1>3
  <1>5. \A k \in Used, q \in Pids : q \in Existing' /\ owner'[q].job = k <=> Awaits(k, q)'
    BY <1>1, <1>2, <1>3, <1>4
  <1>6. \A q \in Existing' : owner'[q].job \in Used' \cup {0}
    BY <1>1, <1>3
  <1>7. NoStatusLost'
    <2>1. ChildrenAwaited'
      BY <1>1, <1>5 DEF ChildrenAwaited, Awaits
    <2> QED
      BY <2>1, <1>6 DEF NoStatusLost, OwnersInUse
  <1>8. \A q \in Existing' : owner'[q].job = 0 => owner'[q] = Untracked
    BY <1>1 DEF AwaitInv
  <1>9. ReusePids => ~Stoppable /\ curjob # <<>> /\ curjob[1] = j
    BY DEF Straight, Forked, AwaitInv
  <1>10. ~ReusePids => \A k \in Used : ~HasPid(k, p)
    <2>1. ~ReusePids => proc[p].st = "unborn"
      BY DEF Forked, Forkable
    <2> QED
      BY <2>1 DEF AwaitInv
  <1>11. ~ReusePids => \A k \in Used' : \A q \in Pids :
            HasPid(k, q)' => proc'[q].st # "unborn" /\ (q \in Existing' => owner'[q].job = k)
    <2> SUFFICES ASSUME ~ReusePids, NEW k \in Used', NEW q \in Pids, HasPid(k, q)'
                 PROVE  proc'[q].st # "unborn" /\ (q \in Existing' => owner'[q].job = k)
      OBVIOUS
    <2>1. CASE q = p
      <3>1. k = j
        BY <2>1, <1>1, <1>2, <1>10
      <3> QED
        BY <2>1, <3>1, <1>1
    <2>2. CASE q # p
      <3>1. HasPid(k, q) /\ k \in Used
        BY <2>2, <1>1, <1>2
      <3> QED
        BY <2>2, <3>1, <1>1 DEF AwaitInv
    <2> QED
      BY <2>1, <2>2
  <1>12. ASSUME NEW a \in Used', NEW b \in Used', NEW q \in Pids,
                Awaits(a, q)', HasPid(b, q)', b # a
         PROVE  ReusePids /\ Before(curjob', a, b)
    <2>1. ToSet(curjob) = Used
      BY DEF TableInv, ListInv
    <2>2. CASE q = p
      <3>1. a = j
        BY <2>2, <1>1, <1>2, <1>4, <1>12
      <3>2. ReusePids
        <4>1. b \in Used /\ HasPid(b, p)
          BY <2>2, <3>1, <1>1, <1>2, <1>12
        <4> QED
          BY <4>1, <1>10
      <3> QED
        BY <3>1, <3>2, <2>1, <1>1, <1>9, <1>12, ForkedList
    <2>3. CASE q # p
      <3>1. Awaits(a, q) /\ HasPid(b, q) /\ a \in Used /\ b \in Used
        BY <2>3, <1>1, <1>2, <1>12
      <3>2. ReusePids /\ Before(curjob, a, b)
        BY <3>1, <1>12 DEF AwaitInv
      <3> QED
        BY <3>1, <3>2, <2>1, <1>9, <1>12, ForkedList
    <2> QED
      BY <2>2, <2>3
  <1>13. \A a, b \in Used' : \A q \in Pids :
            Awaits(a, q)' /\ HasPid(b, q)' /\ b # a => ReusePids /\ Before(curjob, a, b)'
    BY <1>12 DEF Before
  <1>14. ReusePids => curjob' # <<>> /\ curjob'[1] = cmd'.job
    BY <1>1, <1>9, ForkedList
  <1> QED
    BY <1>7, <1>8, <1>11, <1>13, <1>14 DEF AwaitInv

LEMMA ForkState ==
    ASSUME WaitInv, TableInv, StateInv, NEW p \in Pids, NEW j, Forked(j, p)
    PROVE  StateInv'
  <1>1. /\ j \in Used /\ Used' = Used /\ Used \subseteq Slots
        /\ jobtab'[j].state = "RUNNING" /\ jobtab'[j].jobctl = jobtab[j].jobctl
        /\ \A k \in Slots : k # j => jobtab'[k] = jobtab[k]
    BY ForkedJob DEF Used
  <1>2. jobctl' = jobctl
    BY DEF Forked
  <1>3. PICK n \in Nat : /\ DOMAIN jobtab'[j].ps = 1 .. (n + 1)
                         /\ jobtab'[j].ps[n + 1].status = Live
    BY ForkedPs
  <1>4. n + 1 \in 1 .. (n + 1)
    BY <1>3
  <1>5. NewState(jobtab'[j].ps) = "RUNNING"
    BY <1>3, <1>4 DEF NewState
  <1>6. \A k \in Used : k # j => /\ jobtab'[k].ps # <<>> => jobtab'[k].state = NewState(jobtab'[k].ps)
                                 /\ jobtab'[k].state = "DONE" => jobtab'[k].changed
                                 /\ "fg" \in Commands /\ jobtab'[k].jobctl => jobctl'
    BY <1>1, <1>2 DEF StateInv
  <1>7. "fg" \in Commands /\ jobtab'[j].jobctl => jobctl'
    BY <1>1, <1>2 DEF StateInv
  <1>8. Used' = Used
    BY <1>1
  <1> QED
    BY <1>1, <1>5, <1>6, <1>7, <1>8 DEF StateInv, NewState

LEMMA ForkCount ==
    ASSUME WaitInv, TableInv, CountInv, NEW p \in Pids, NEW j, Forked(j, p)
    PROVE  CountInv'
  <1>1. /\ j # 0 /\ Existing' = Existing \cup {p} /\ p \notin Existing /\ Existing \subseteq Pids
        /\ owner'[p] = Owned(j, cmd.left = 1) /\ \A q \in Pids : q # p => owner'[q] = owner[q]
        /\ cmd'.op = "run"
    BY ForkedJob DEF Existing
  <1>2. Owned(j, cmd.left = 1) # Untracked
    BY <1>1 DEF Owned, Untracked
  <1>3. Orphans' = Orphans
    BY <1>1, <1>2 DEF Orphans
  <1>4. Writer = 0 /\ Writer' = 0 /\ jobless' = jobless
    BY <1>1 DEF Forked, Writer, Inside
  <1> QED
    BY <1>3, <1>4 DEF CountInv

LEMMA ForkTruth ==
    ASSUME WaitInv, TableInv, AwaitInv, TruthInv, NEW p \in Pids, NEW j, Forked(j, p)
    PROVE  TruthInv'
  <1>1. /\ j \in Used /\ j \in Slots /\ j # 0 /\ Used' = Used /\ Used \subseteq Slots
        /\ Existing' = Existing \cup {p} /\ p \notin Existing /\ Existing \subseteq Pids
        /\ owner'[p] = Owned(j, cmd.left = 1) /\ \A q \in Pids : q # p => owner'[q] = owner[q]
        /\ \A k \in Slots : k # j => jobtab'[k] = jobtab[k]
        /\ cmd.left \in Nat /\ cmd.left >= 1 /\ cmd'.job = j
        /\ jobtab' \in [Slots -> Job]
    BY ForkedJob DEF Used, Existing
  <1>2. PICK n \in Nat :
             /\ n = Len(jobtab[j].ps) /\ Len(jobtab'[j].ps) = n + 1
             /\ DOMAIN jobtab[j].ps = 1 .. n /\ DOMAIN jobtab'[j].ps = 1 .. (n + 1)
             /\ \A i \in 1 .. n : jobtab'[j].ps[i] = jobtab[j].ps[i]
             /\ jobtab'[j].ps[n + 1].pid = p /\ jobtab'[j].ps[n + 1].status = Live
             /\ \A i \in 1 .. n : jobtab[j].ps[i].status = Live
    BY ForkedPs
  <1>3. \A k \in Used : \A i \in DOMAIN jobtab[k].ps :
           jobtab[k].ps[i].status \in {Live, Stopped} => jobtab[k].ps[i].pid \in Pids \ {p}
    <2> SUFFICES ASSUME NEW k \in Used, NEW i \in DOMAIN jobtab[k].ps,
                        jobtab[k].ps[i].status \in {Live, Stopped}
                 PROVE  jobtab[k].ps[i].pid \in Pids \ {p}
      OBVIOUS
    <2>1. jobtab[k] \in Job
      BY <1>1 DEF TableInv, TableTypes
    <2>2. jobtab[k].ps \in Seq(Procs)
      BY <2>1 DEF Job, Procs
    <2>3. jobtab[k].ps[i] \in Procs
      BY <2>2
    <2>4. jobtab[k].ps[i].pid \in Pids
      BY <2>3 DEF Procs
    <2>5. jobtab[k].ps[i].pid # p
      BY <1>1, <2>4 DEF AwaitInv, NoStatusLost, ChildrenAwaited
    <2> QED
      BY <2>4, <2>5
  <1>4. truth' = truth /\ Forks(j) /\ (\A k : k # j => ~Forks(k) /\ ~Forks(k)')
    BY <1>1 DEF Forked, Forks
  <1>5. ASSUME NEW k \in Used, k # j
        PROVE  LET ps == jobtab'[k].ps
               IN  /\ \A i, l \in DOMAIN ps : ps[i].pid = ps[l].pid => i = l
                   /\ \A i \in DOMAIN ps : ps[i].status \in {Live, Stopped} =>
                        owner'[ps[i].pid] = Owned(k, ~Forks(k)' /\ i = Len(ps))
                   /\ ps # <<>> /\ ~Forks(k)' /\ ps[Len(ps)].status \in Finals =>
                        truth'[k] = ps[Len(ps)].status
    <2>1. k \in Slots /\ jobtab'[k] = jobtab[k] /\ ~Forks(k) /\ ~Forks(k)'
      BY <1>1, <1>4, <1>5
    <2> DEFINE ps == jobtab[k].ps
    <2>2. /\ \A i, l \in DOMAIN ps : ps[i].pid = ps[l].pid => i = l
          /\ \A i \in DOMAIN ps : ps[i].status \in {Live, Stopped} =>
               owner[ps[i].pid] = Owned(k, ~Forks(k) /\ i = Len(ps))
          /\ ps # <<>> /\ ~Forks(k) /\ ps[Len(ps)].status \in Finals =>
               truth[k] = ps[Len(ps)].status
      BY DEF TruthInv
    <2>3. \A i \in DOMAIN ps : ps[i].status \in {Live, Stopped} => owner'[ps[i].pid] = owner[ps[i].pid]
      BY <1>1, <1>3
    <2> QED
      BY <2>1, <2>2, <2>3, <1>4
  <1>6. /\ \A i, l \in DOMAIN jobtab[j].ps : jobtab[j].ps[i].pid = jobtab[j].ps[l].pid => i = l
        /\ \A i \in DOMAIN jobtab[j].ps : owner[jobtab[j].ps[i].pid] = Owned(j, FALSE)
    <2>1. \A i \in DOMAIN jobtab[j].ps : jobtab[j].ps[i].status \in {Live, Stopped} =>
            owner[jobtab[j].ps[i].pid] = Owned(j, ~Forks(j) /\ i = Len(jobtab[j].ps))
      BY <1>1 DEF TruthInv
    <2>2. \A i \in DOMAIN jobtab[j].ps : jobtab[j].ps[i].status \in {Live, Stopped}
      BY <1>2
    <2>3. \A i : (~Forks(j) /\ i = Len(jobtab[j].ps)) = FALSE
      BY <1>4
    <2> QED
      BY <1>1, <2>1, <2>2, <2>3 DEF TruthInv
  <1>7. Forks(j)' <=> cmd.left # 1
    <2>1. pc' = "fork" <=> cmd.left > 1
      BY DEF Forked
    <2>2. cmd.left > 1 <=> ~(cmd.left = 1)
      BY <1>1
    <2> QED
      BY <1>1, <2>1, <2>2 DEF Forks
  <1>8. \A i : i \in 1 .. (n + 1) <=> i \in 1 .. n \/ i = n + 1
    BY <1>2
  <1>9. \A i, l \in 1 .. (n + 1) : jobtab'[j].ps[i].pid = jobtab'[j].ps[l].pid => i = l
    <2>1. \A i \in 1 .. n : jobtab[j].ps[i].pid # p
      BY <1>1, <1>2, <1>3
    <2>2. \A i \in 1 .. n : jobtab'[j].ps[i].pid # p /\ i \in DOMAIN jobtab[j].ps
      BY <1>2, <2>1
    <2>3. \A i, l \in 1 .. n : jobtab'[j].ps[i].pid = jobtab'[j].ps[l].pid => i = l
      BY <1>2, <1>6
    <2> SUFFICES ASSUME NEW i \in 1 .. (n + 1), NEW l \in 1 .. (n + 1),
                        jobtab'[j].ps[i].pid = jobtab'[j].ps[l].pid
                 PROVE  i = l
      OBVIOUS
    <2>4. CASE i = n + 1
      BY <2>4, <1>2, <1>8, <2>2
    <2>5. CASE l = n + 1
      BY <2>5, <1>2, <1>8, <2>2
    <2> QED
      BY <1>8, <2>3, <2>4, <2>5
  <1>10. ASSUME NEW i \in 1 .. (n + 1)
         PROVE  owner'[jobtab'[j].ps[i].pid] = Owned(j, ~Forks(j)' /\ i = n + 1)
    <2>1. CASE i = n + 1
      <3>1. (~Forks(j)' /\ i = n + 1) = (cmd.left = 1)
        <4>1. CASE cmd.left = 1
          <5>1. (~Forks(j)' /\ i = n + 1) = TRUE
            BY <2>1, <4>1, <1>7
          <5> QED
            BY <4>1, <5>1
        <4>2. CASE cmd.left # 1
          <5>1. (~Forks(j)' /\ i = n + 1) = FALSE
            BY <4>2, <1>7
          <5> QED
            BY <4>2, <5>1
        <4> QED
          BY <4>1, <4>2
      <3>2. owner'[jobtab'[j].ps[i].pid] = Owned(j, cmd.left = 1)
        BY <2>1, <1>1, <1>2
      <3> QED
        BY <3>1, <3>2
    <2>2. CASE i \in 1 .. n
      <3>1. i # n + 1
        BY <2>2, <1>2
      <3>2. owner'[jobtab'[j].ps[i].pid] = owner[jobtab[j].ps[i].pid]
        BY <2>2, <1>1, <1>2, <1>3
      <3>3. (~Forks(j)' /\ i = n + 1) = FALSE
        BY <3>1
      <3> QED
        BY <2>2, <3>2, <3>3, <1>2, <1>6
    <2> QED
      BY <2>1, <2>2, <1>8
  <1>11. jobtab'[j].ps[Len(jobtab'[j].ps)].status \notin Finals
    BY <1>2, StatusTypes
  <1>12. ReusePids => \A q \in Existing' : owner'[q] # Untracked
    <2>1. Owned(j, cmd.left = 1) # Untracked
      BY <1>1 DEF Owned, Untracked
    <2> QED
      BY <2>1, <1>1 DEF TruthInv
  <1>13. LET ps == jobtab'[j].ps
         IN  /\ \A i, l \in DOMAIN ps : ps[i].pid = ps[l].pid => i = l
             /\ \A i \in DOMAIN ps : ps[i].status \in {Live, Stopped} =>
                  owner'[ps[i].pid] = Owned(j, ~Forks(j)' /\ i = Len(ps))
             /\ ps # <<>> /\ ~Forks(j)' /\ ps[Len(ps)].status \in Finals =>
                  truth'[j] = ps[Len(ps)].status
    BY <1>2, <1>9, <1>10, <1>11
  <1>14. Used' = Used
    BY <1>1
  <1> QED
    BY <1>5, <1>12, <1>13, <1>14 DEF TruthInv

-----------------------------------------------------------------------------
(***************************************************************************)
(* freejob                                                                 *)
(***************************************************************************)

\* The jobs of S are freed and taken off the list; of the others at most the
\* mark for the next prompt goes.
Frees(S) ==
    /\ S \subseteq Slots
    /\ jobtab' \in [Slots -> Job]
    /\ \A j \in S : jobtab'[j] = FreshJob(FALSE, FALSE)
    /\ \A j \in Slots \ S : /\ jobtab'[j].used = jobtab[j].used
                            /\ jobtab'[j].state = jobtab[j].state
                            /\ jobtab'[j].ps = jobtab[j].ps
                            /\ jobtab'[j].jobctl = jobtab[j].jobctl
                            /\ jobtab[j].state = "DONE" => jobtab'[j].changed = jobtab[j].changed
    /\ curjob' = Without(curjob, S)
    /\ pc \in {"fork", "eval", "loop"} /\ pc' = "end"
    /\ pc = "loop" => cmd.op # "here"
    /\ UNCHANGED <<proc, njobs, jobless, jobctl, cmd, ret, truth>>
    /\ result' \in Nat \cup {Kept} /\ raised' \in BOOLEAN
    /\ owner' \in [Pids -> [job : Slots \cup {0}, last : BOOLEAN]]

\* Jobs that are done are freed.
FreesDone(S) ==
    /\ Frees(S) /\ pc # "fork" /\ owner' = owner
    /\ \A j \in S : jobtab[j].state = "DONE"

LEMMA FreedTable ==
    ASSUME TableInv, NEW S, Frees(S)
    PROVE  TableInv' /\ Used' = Used \ S /\ Used \subseteq Slots
  <1>1. Used' = Used \ S /\ Used \subseteq Slots
    BY DEF Frees, Used, FreshJob
  <1>2. /\ Without(curjob, S) \in Seq(Slots)
        /\ ToSet(Without(curjob, S)) = ToSet(curjob) \ S
        /\ Once(Without(curjob, S))
    BY WithoutElements DEF TableInv, TableTypes, ListInv
  <1>3. ControlTypes'
    BY DEF Frees, TableInv, ControlTypes
  <1>4. TableTypes'
    BY <1>2 DEF Frees, TableInv, TableTypes
  <1>5. ProcInv'
    BY DEF Frees, TableInv, ProcInv
  <1>6. ListInv'
    BY <1>1, <1>2 DEF Frees, TableInv, ListInv
  <1>7. SlotInv'
    <2>1. \A j \in Slots \ S :
            /\ jobtab'[j].used => j <= njobs'
            /\ ~jobtab'[j].used => jobtab'[j].ps = <<>>
            /\ Len(jobtab'[j].ps) <= MaxPipe
            /\ jobtab'[j].state # "RUNNING" => jobtab'[j].ps # <<>>
            /\ jobtab'[j].state = "DONE" =>
                  \A i \in DOMAIN jobtab'[j].ps : jobtab'[j].ps[i].status \in Finals
            /\ ~Stoppable => /\ jobtab'[j].state # "STOPPED"
                             /\ \A i \in DOMAIN jobtab'[j].ps : jobtab'[j].ps[i].status # Stopped
      BY DEF Frees, TableInv, SlotInv
    <2>2. \A j \in S : /\ ~jobtab'[j].used /\ jobtab'[j].ps = <<>> /\ jobtab'[j].state = "RUNNING"
      BY DEF Frees, FreshJob
    <2>3. Len(<<>>) <= MaxPipe /\ DOMAIN <<>> = {}
      BY JobsAssumption
    <2> QED
      BY <2>1, <2>2, <2>3 DEF SlotInv
  <1>8. ForkInv' /\ BusyInv'
    BY DEF Frees, ForkInv, BusyInv, Inside
  <1> QED
    BY <1>1, <1>3, <1>4, <1>5, <1>6, <1>7, <1>8 DEF TableInv

LEMMA FreedAwait ==
    ASSUME TableInv, AwaitInv, NEW S, Frees(S),
           \A p \in Existing : owner'[p] = IF owner[p].job \in S THEN Untracked ELSE owner[p]
    PROVE  AwaitInv'
  <1>1. /\ Used' = Used \ S /\ Used \subseteq Slots
        /\ proc' = proc /\ Existing' = Existing /\ Existing \subseteq Pids
        /\ curjob' = Without(curjob, S) /\ curjob \in Seq(Slots)
    BY FreedTable DEF Frees, Existing, TableInv, TableTypes
  <1>2. \A j \in Used' : jobtab'[j].ps = jobtab[j].ps
    BY <1>1 DEF Frees
  <1>3. \A j \in Used' : \A p : /\ Awaits(j, p)' <=> Awaits(j, p)
                                /\ HasPid(j, p)' <=> HasPid(j, p)
    BY <1>2 DEF Awaits, HasPid
  <1>4. /\ \A k \in Used, p \in Pids : p \in Existing /\ owner[p].job = k <=> Awaits(k, p)
        /\ \A p \in Existing : owner[p].job \in Used \cup {0}
    BY DEF AwaitInv, NoStatusLost, ChildrenAwaited, OwnersInUse, Awaits
  <1>5. 0 \notin Slots /\ Untracked.job = 0
    BY DEF Slots, Untracked, Owned
  <1>6. \A p \in Existing : \A k \in Used' : owner'[p].job = k <=> owner[p].job = k
    BY <1>1, <1>5
  <1>7. NoStatusLost'
    <2>1. \A k \in Used', p \in Pids : p \in Existing' /\ owner'[p].job = k <=> Awaits(k, p)'
      BY <1>1, <1>3, <1>4, <1>6
    <2>2. \A p \in Existing' : owner'[p].job \in Used' \cup {0}
      BY <1>1, <1>4, <1>5
    <2>3. ChildrenAwaited'
      BY <2>1 DEF ChildrenAwaited, Awaits
    <2> QED
      BY <2>2, <2>3 DEF NoStatusLost, OwnersInUse
  <1>8. \A p \in Existing' : owner'[p].job = 0 => owner'[p] = Untracked
    BY <1>1 DEF AwaitInv
  <1>9. ASSUME NEW a \in Used', NEW b \in Used', NEW p \in Pids,
               Awaits(a, p)', HasPid(b, p)', b # a
        PROVE  ReusePids /\ Before(curjob', a, b)
    <2>1. Awaits(a, p) /\ HasPid(b, p) /\ a \in Used /\ b \in Used /\ a \notin S /\ b \notin S
      BY <1>1, <1>3, <1>9
    <2>2. ReusePids /\ Before(curjob, a, b)
      BY <2>1, <1>9 DEF AwaitInv
    <2> QED
      BY <2>1, <2>2, <1>1, WithoutOrder
  <1>10. \A a, b \in Used' : \A p \in Pids :
            Awaits(a, p)' /\ HasPid(b, p)' /\ b # a => ReusePids /\ Before(curjob, a, b)'
    BY <1>9 DEF Before
  <1>11. ~ReusePids => \A j \in Used' : \A p \in Pids :
            HasPid(j, p)' => proc'[p].st # "unborn" /\ (p \in Existing' => owner'[p].job = j)
    BY <1>1, <1>3, <1>6 DEF AwaitInv
  <1>12. pc' # "fork"
    BY DEF Frees
  <1> QED
    BY <1>7, <1>8, <1>10, <1>11, <1>12 DEF AwaitInv

LEMMA FreedState ==
    ASSUME TableInv, StateInv, NEW S, Frees(S)
    PROVE  StateInv'
  <1>1. Used' = Used \ S /\ Used \subseteq Slots
    BY FreedTable
  <1> QED
    BY <1>1 DEF Frees, StateInv, NewState

\* No child has a job that is done.
LEMMA DoneAwaitsNone ==
    ASSUME TableInv, AwaitInv, NEW p \in Existing, NEW j \in Slots, owner[p].job = j
    PROVE  jobtab[j].state # "DONE"
  <1>1. j \in Used /\ p \in Pids
    <2>1. owner[p].job # 0
      BY DEF Slots
    <2> QED
      BY <2>1 DEF AwaitInv, NoStatusLost, OwnersInUse, Existing
  <1>2. Awaits(j, p)
    BY <1>1 DEF AwaitInv, NoStatusLost, ChildrenAwaited, Awaits
  <1> QED
    BY <1>2, StatusTypes DEF Awaits, TableInv, SlotInv

LEMMA FreedDone ==
    ASSUME TableInv, NEW S, FreesDone(S)
    PROVE  /\ AwaitInv => AwaitInv'
           /\ CountInv => CountInv'
           /\ TruthInv => TruthInv'
  <1>1. Frees(S) /\ pc # "fork" /\ owner' = owner /\ Existing' = Existing /\ S \subseteq Slots
    BY DEF FreesDone, Frees, Existing
  <1>2. AwaitInv => AwaitInv'
    <2> SUFFICES ASSUME AwaitInv PROVE AwaitInv'
      OBVIOUS
    <2>1. \A p \in Existing : owner[p].job \notin S
      BY <1>1, DoneAwaitsNone DEF FreesDone
    <2>2. \A p \in Existing : owner'[p] = IF owner[p].job \in S THEN Untracked ELSE owner[p]
      BY <1>1, <2>1
    <2> QED
      BY <1>1, <2>2, FreedAwait
  <1>3. CountInv => CountInv'
    <2>1. Writer = 0 /\ Writer' = 0 /\ jobless' = jobless
      BY <1>1 DEF Frees, Writer, Inside
    <2> QED
      BY <2>1, <1>1 DEF CountInv, Orphans
  <1>4. TruthInv => TruthInv'
    <2>1. Used' = Used \ S /\ Used \subseteq Slots
      BY <1>1, FreedTable
    <2>2. /\ \A j \in Used' : jobtab'[j].ps = jobtab[j].ps
          /\ truth' = truth /\ (\A j : ~Forks(j) /\ ~Forks(j)')
      BY <1>1, <2>1 DEF Frees, Forks
    <2> QED
      BY <2>1, <2>2, <1>1 DEF TruthInv
  <1> QED
    BY <1>2, <1>3, <1>4

LEMMA FreshType == FreshJob(FALSE, FALSE) \in Job
  BY DEF FreshJob, Job

LEMMA ForkFailsFrees ==
    ASSUME TableInv, ForkFails
    PROVE  /\ Frees({cmd.job}) /\ SysFailures
           /\ \A p \in Pids : owner'[p] = IF owner[p].job \in {cmd.job} THEN Untracked ELSE owner[p]
  <1>1. /\ pc = "fork" /\ SysFailures /\ pc' = "end" /\ result' = 2
        /\ jobtab' = [j \in Slots |-> IF j \in {cmd.job} THEN FreshJob(FALSE, FALSE) ELSE jobtab[j]]
        /\ curjob' = Without(curjob, {cmd.job})
        /\ owner' = [p \in Pids |-> IF owner[p].job = cmd.job THEN Untracked ELSE owner[p]]
        /\ UNCHANGED <<proc, njobs, jobless, jobctl, raised, cmd, ret, truth>>
    BY DEF ForkFails, Freed, SetDeleted, Unlinked, Error, Finish, procVars
  <1>2. cmd.job \in Slots
    BY <1>1 DEF TableInv, ForkInv, Used
  <1>3. jobtab \in [Slots -> Job] /\ raised \in BOOLEAN
    BY DEF TableInv, TableTypes, ControlTypes
  <1>4. owner' \in [Pids -> [job : Slots \cup {0}, last : BOOLEAN]]
    <2>1. Untracked \in [job : Slots \cup {0}, last : BOOLEAN]
      BY DEF Untracked, Owned
    <2> QED
      BY <1>1, <2>1 DEF TableInv, TableTypes
  <1>5. jobtab' \in [Slots -> Job]
    BY <1>1, <1>3, FreshType
  <1>6. Frees({cmd.job})
    BY <1>1, <1>2, <1>3, <1>4, <1>5 DEF Frees
  <1> QED
    BY <1>1, <1>6

\* A foreground command or fg frees its job when it is done.
LEMMA WaitForJobFrees ==
    ASSUME TableInv, WaitForJob, pc' = "end", jobtab[cmd.job].state = "DONE",
           jobtab[cmd.job].jobctl => jobctl
    PROVE  FreesDone({cmd.job})
  <1>1. /\ pc = "loop" /\ cmd.op \in {"run", "fg"}
        /\ UNCHANGED <<proc, njobs, jobless, jobctl, ret, owner, truth>>
    BY DEF WaitForJob, At, procVars, hist
  <1>2. /\ result' = GetStatus(cmd.job)
        /\ raised' = (jobtab[cmd.job].jobctl /\ GetStatus(cmd.job) = Killed)
        /\ jobtab' = [j \in Slots |-> IF j \in {cmd.job} THEN FreshJob(FALSE, FALSE) ELSE jobtab[j]]
        /\ curjob' = Without(curjob, {cmd.job})
        /\ cmd' = cmd
    BY DEF WaitForJob, Finish, Freed, SetDeleted, Unlinked, CallDowait
  <1>3. cmd.job \in Slots
    BY <1>1 DEF TableInv, BusyInv, Inside, Used
  <1>4. jobtab \in [Slots -> Job] /\ owner \in [Pids -> [job : Slots \cup {0}, last : BOOLEAN]]
    BY DEF TableInv, TableTypes
  <1>5. jobtab' \in [Slots -> Job]
    BY <1>2, <1>4, FreshType
  <1>6. result' \in Nat \cup {Kept}
    <2>1. jobtab[cmd.job].ps # <<>>
      BY <1>3 DEF TableInv, SlotInv
    <2> QED
      BY <2>1, <1>2, <1>3, GetStatusType
  <1>7. raised' \in BOOLEAN
    BY <1>2
  <1> QED
    BY <1>1, <1>2, <1>3, <1>4, <1>5, <1>6, <1>7 DEF FreesDone, Frees

\* showjob frees the jobs that are done.
LEMMA ShownFrees ==
    ASSUME TableInv, NEW S \in SUBSET Slots,
           jobtab' = ShownTab(S), curjob' = ShownList(S),
           pc = "eval" \/ (pc = "loop" /\ cmd.op # "here"), pc' = "end",
           UNCHANGED <<proc, njobs, jobless, jobctl, cmd, ret, raised, owner, truth>>,
           result' \in Nat \cup {Kept}
    PROVE  FreesDone({j \in S : jobtab[j].state = "DONE"})
  <1> DEFINE D == {j \in S : jobtab[j].state = "DONE"}
  <1>1. /\ jobtab \in [Slots -> Job] /\ owner \in [Pids -> [job : Slots \cup {0}, last : BOOLEAN]]
        /\ raised' \in BOOLEAN
    BY DEF TableInv, TableTypes, ControlTypes
  <1>2. \A j \in Slots : jobtab'[j] = IF j \in D THEN FreshJob(FALSE, FALSE)
                                      ELSE IF j \in S THEN [jobtab[j] EXCEPT !.changed = FALSE]
                                      ELSE jobtab[j]
    BY DEF ShownTab, Freed
  <1>3. \A j \in Slots : [jobtab[j] EXCEPT !.changed = FALSE] \in Job
    BY <1>1 DEF Job
  <1>4. jobtab' \in [Slots -> Job]
    <2>1. \A j \in Slots : jobtab'[j] \in Job
      BY <1>1, <1>2, <1>3, FreshType
    <2>2. jobtab' = [j \in Slots |-> jobtab'[j]]
      BY DEF ShownTab, Freed
    <2> QED
      BY <2>1, <2>2
  <1>5. \A j \in Slots \ D : /\ jobtab'[j].used = jobtab[j].used
                             /\ jobtab'[j].state = jobtab[j].state
                             /\ jobtab'[j].ps = jobtab[j].ps
                             /\ jobtab'[j].jobctl = jobtab[j].jobctl
                             /\ jobtab[j].state = "DONE" => jobtab'[j].changed = jobtab[j].changed
    BY <1>1, <1>2 DEF Job
  <1>6. \A j \in D : jobtab'[j] = FreshJob(FALSE, FALSE)
    BY <1>2
  <1>7. curjob' = Without(curjob, D)
    BY DEF ShownList
  <1>8. D \subseteq Slots /\ \A j \in D : jobtab[j].state = "DONE"
    OBVIOUS
  <1> HIDE DEF D
  <1>9. FreesDone(D)
    BY <1>1, <1>4, <1>5, <1>6, <1>7, <1>8 DEF FreesDone, Frees
  <1> QED
    BY <1>9 DEF D

LEMMA ShowJobsLoopFrees ==
    ASSUME TableInv, ShowJobsLoop, ret <= 0
    PROVE  \E S : FreesDone(S)
  <1> DEFINE S == IF cmd.mode = "pgid" THEN {}
                  ELSE {j \in ToSet(curjob) : cmd.mode = "all" \/ jobtab[j].changed}
  <1>1. /\ pc = "loop" /\ cmd.op = "jobs"
        /\ UNCHANGED <<proc, njobs, jobless, jobctl, raised, ret, owner, truth>>
    BY DEF ShowJobsLoop, At, procVars, hist
  <1>2. ~(ret > 0)
    BY DEF TableInv, ControlTypes
  <1>3. /\ jobtab' = ShownTab(S) /\ curjob' = ShownList(S) /\ UNCHANGED cmd
        /\ Finish(IF cmd.mode = "changed" THEN Kept ELSE 0)
    BY <1>2 DEF ShowJobsLoop
  <1>4. ToSet(curjob) \subseteq Slots
    BY DEF TableInv, ListInv, Used
  <1>5. S \in SUBSET Slots
    BY <1>4
  <1> HIDE DEF S
  <1>6. pc' = "end" /\ result' \in Nat \cup {Kept}
    BY <1>3 DEF Finish
  <1>7. FreesDone({j \in S : jobtab[j].state = "DONE"})
    BY <1>1, <1>3, <1>5, <1>6, ShownFrees
  <1> QED
    BY <1>7

LEMMA ShowJobsLoopCalls ==
    ASSUME TableInv, ShowJobsLoop, ret > 0
    PROVE  Quiet /\ Sound
  <1>1. /\ pc = "loop" /\ CallDowait(FALSE)
        /\ UNCHANGED <<proc, jobtab, njobs, curjob, jobless, jobctl, result, raised, ret, owner, truth>>
    BY DEF ShowJobsLoop, At, procVars, hist
  <1>2. SameJobs /\ Used' = Used
    BY <1>1, StillJobs DEF Used
  <1> QED
    BY <1>1, <1>2, QuietCall

LEMMA ShowJobFrees ==
    ASSUME TableInv, NEW j \in Operands, ShowJob(j)
    PROVE  (Quiet /\ Sound) \/ \E S : FreesDone(S)
  <1>1. /\ pc = "eval"
        /\ UNCHANGED <<proc, njobs, jobless, jobctl, raised, cmd, ret, hist>>
    BY DEF ShowJob, Idle, procVars
  <1>2. CASE j = NoSuchJob
    <2>1. Error /\ UNCHANGED <<jobtab, curjob>>
      BY <1>2 DEF ShowJob
    <2> QED
      BY <1>1, <2>1, QuietError
  <1>3. CASE j # NoSuchJob
    <2>1. jobtab' = ShownTab({j}) /\ curjob' = ShownList({j}) /\ Finish(0)
      BY <1>3 DEF ShowJob
    <2>2. {j} \in SUBSET Slots
      BY <1>3, OperandsUsed DEF Used
    <2>3. pc' = "end" /\ result' \in Nat \cup {Kept} /\ UNCHANGED <<owner, truth>>
      BY <1>1, <2>1 DEF Finish, hist
    <2>4. FreesDone({i \in {j} : jobtab[i].state = "DONE"})
      BY <1>1, <2>1, <2>2, <2>3, ShownFrees
    <2> QED
      BY <2>4
  <1> QED
    BY <1>2, <1>3

-----------------------------------------------------------------------------
(***************************************************************************)
(* The writer of a here document                                           *)
(***************************************************************************)

\* A process a job waits for is a child that was not reaped, of that job.
LEMMA AwaitedChild ==
    ASSUME TableInv, AwaitInv, NEW k \in Used, NEW i \in DOMAIN jobtab[k].ps,
           jobtab[k].ps[i].status \in {Live, Stopped}
    PROVE  /\ jobtab[k].ps[i].pid \in Pids /\ jobtab[k].ps[i].pid \in Existing
           /\ owner[jobtab[k].ps[i].pid].job = k
  <1>1. jobtab[k] \in Job
    BY DEF TableInv, TableTypes, Used
  <1>2. jobtab[k].ps \in Seq(Procs)
    BY <1>1 DEF Job, Procs
  <1>3. jobtab[k].ps[i] \in Procs
    BY <1>2
  <1>4. jobtab[k].ps[i].pid \in Pids
    BY <1>3 DEF Procs
  <1> QED
    BY <1>4 DEF AwaitInv, NoStatusLost, ChildrenAwaited

LEMMA ForkHereStep ==
    ASSUME WaitInv, TableInv, NEW p \in Pids, ForkHere(p)
    PROVE  /\ "here" \in Commands /\ pc = "eval" /\ pc' = "loop" /\ cmd'.op = "here"
           /\ p \notin Existing /\ Existing' = Existing \cup {p} /\ Existing \subseteq Pids
           /\ ~ReusePids => proc[p].st = "unborn"
           /\ proc'[p].st = "running" /\ \A q \in Pids : q # p => proc'[q] = proc[q]
           /\ owner'[p] = Untracked /\ \A q \in Pids : q # p => owner'[q] = owner[q]
           /\ UNCHANGED <<jobtab, njobs, curjob, jobless, jobctl, truth>>
           /\ TableInv'
  <1>1. /\ "here" \in Commands /\ pc = "eval" /\ pc' = "loop" /\ p \in Forkable
        /\ proc' = [proc EXCEPT ![p] = Process("running", FALSE, Live)]
        /\ owner' = [owner EXCEPT ![p] = Untracked]
        /\ cmd' = [NoCommand EXCEPT !.op = "here"]
        /\ UNCHANGED <<jobtab, njobs, curjob, jobless, jobctl, result, raised, ret, truth>>
    BY DEF ForkHere, Idle, jobVars
  <1>2. proc \in [Pids -> ProcState] /\ owner \in [Pids -> [job : Slots \cup {0}, last : BOOLEAN]]
    BY DEF WaitInv, ProcessesTypeOK, TableInv, TableTypes
  <1>3. /\ proc'[p].st = "running" /\ \A q \in Pids : q # p => proc'[q] = proc[q]
        /\ owner'[p] = Untracked /\ \A q \in Pids : q # p => owner'[q] = owner[q]
    BY <1>1, <1>2 DEF Process
  <1>4. p \notin Existing /\ Existing' = Existing \cup {p} /\ Existing \subseteq Pids
    BY <1>1, <1>3 DEF Existing, Forkable
  <1>5. ~ReusePids => proc[p].st = "unborn"
    BY <1>1 DEF Forkable
  <1>6. cmd' \in Cmd /\ cmd'.op = "here"
    <2>1. 0 \in 0 .. MaxPipe
      BY JobsAssumption
    <2> QED
      BY <2>1, <1>1 DEF NoCommand, Cmd, Ops
  <1>7. TableInv'
    <2>1. ControlTypes'
      BY <1>1, <1>6 DEF TableInv, ControlTypes, Inside
    <2>2. TableTypes'
      <3>1. Untracked \in [job : Slots \cup {0}, last : BOOLEAN]
        BY DEF Untracked, Owned
      <3>2. owner' \in [Pids -> [job : Slots \cup {0}, last : BOOLEAN]]
        BY <1>1, <1>2, <3>1
      <3> QED
        BY <1>1, <3>2 DEF TableInv, TableTypes
    <2>3. ProcInv'
      BY <1>3 DEF TableInv, ProcInv
    <2>4. ListInv' /\ SlotInv'
      BY <1>1 DEF TableInv, ListInv, SlotInv, Used, Once
    <2>5. ForkInv' /\ BusyInv'
      BY <1>1, <1>6 DEF ForkInv, BusyInv
    <2> QED
      BY <2>1, <2>2, <2>3, <2>4, <2>5 DEF TableInv
  <1> QED
    BY <1>1, <1>3, <1>4, <1>5, <1>6, <1>7

LEMMA ForkHereAwait ==
    ASSUME WaitInv, TableInv, AwaitInv, NEW p \in Pids, ForkHere(p)
    PROVE  AwaitInv'
  <1>1. /\ p \notin Existing /\ Existing' = Existing \cup {p} /\ Existing \subseteq Pids
        /\ ~ReusePids => proc[p].st = "unborn"
        /\ \A q \in Pids : q # p => proc'[q] = proc[q]
        /\ owner'[p] = Untracked /\ \A q \in Pids : q # p => owner'[q] = owner[q]
        /\ jobtab' = jobtab /\ curjob' = curjob /\ pc' = "loop"
    BY ForkHereStep
  <1>2. Used' = Used /\ 0 \notin Used /\ Untracked.job = 0
    BY <1>1 DEF Used, Slots, Untracked, Owned
  <1>3. \A k : \A q : (Awaits(k, q)' <=> Awaits(k, q)) /\ (HasPid(k, q)' <=> HasPid(k, q))
    BY <1>1 DEF Awaits, HasPid
  <1>4. /\ \A k \in Used, q \in Pids : q \in Existing /\ owner[q].job = k <=> Awaits(k, q)
        /\ \A q \in Existing : owner[q].job \in Used \cup {0}
    BY DEF AwaitInv, NoStatusLost, ChildrenAwaited, OwnersInUse, Awaits
  <1>5. \A k \in Used, q \in Pids : q \in Existing' /\ owner'[q].job = k <=> Awaits(k, q)'
    BY <1>1, <1>2, <1>3, <1>4
  <1>6. NoStatusLost'
    <2>1. ChildrenAwaited'
      BY <1>2, <1>5 DEF ChildrenAwaited, Awaits
    <2>2. \A q \in Existing' : owner'[q].job \in Used' \cup {0}
      BY <1>1, <1>2, <1>4
    <2> QED
      BY <2>1, <2>2 DEF NoStatusLost, OwnersInUse
  <1>7. \A q \in Existing' : owner'[q].job = 0 => owner'[q] = Untracked
    BY <1>1 DEF AwaitInv
  <1>8. ~ReusePids => \A k \in Used' : \A q \in Pids :
            HasPid(k, q)' => proc'[q].st # "unborn" /\ (q \in Existing' => owner'[q].job = k)
    <2> SUFFICES ASSUME ~ReusePids, NEW k \in Used, NEW q \in Pids, HasPid(k, q)
                 PROVE  proc'[q].st # "unborn" /\ (q \in Existing' => owner'[q].job = k)
      BY <1>2, <1>3
    <2>1. proc[q].st # "unborn" /\ (q \in Existing => owner[q].job = k)
      BY DEF AwaitInv
    <2>2. q # p
      BY <2>1, <1>1
    <2> QED
      BY <2>1, <2>2, <1>1
  <1>9. \A a, b \in Used' : \A q \in Pids :
            Awaits(a, q)' /\ HasPid(b, q)' /\ b # a => ReusePids /\ Before(curjob, a, b)'
    BY <1>1, <1>2, <1>3 DEF AwaitInv, Before
  <1> QED
    BY <1>1, <1>6, <1>7, <1>8, <1>9 DEF AwaitInv

LEMMA ForkHereState ==
    ASSUME WaitInv, TableInv, StateInv, NEW p \in Pids, ForkHere(p)
    PROVE  StateInv'
  <1>1. UNCHANGED <<jobtab, jobctl>>
    BY ForkHereStep
  <1> QED
    BY <1>1 DEF StateInv, Used, NewState

\* The writer is not counted yet, and the pids are finitely many.
LEMMA ForkHereCount ==
    ASSUME WaitInv, TableInv, CountInv, NEW p \in Pids, ForkHere(p)
    PROVE  CountInv'
  <1>1. /\ p \notin Existing /\ Existing' = Existing \cup {p} /\ Existing \subseteq Pids
        /\ owner'[p] = Untracked /\ \A q \in Pids : q # p => owner'[q] = owner[q]
        /\ jobless' = jobless /\ pc = "eval" /\ pc' = "loop" /\ cmd'.op = "here"
    BY ForkHereStep
  <1>2. Orphans' = Orphans \cup {p} /\ p \notin Orphans /\ Orphans \subseteq Pids
    BY <1>1 DEF Orphans
  <1>3. IsFiniteSet(Orphans)
    BY <1>2, ProcessesAssumption, FS_Subset
  <1>4. Cardinality(Orphans') = Cardinality(Orphans) + 1
    BY <1>2, <1>3, FS_AddElement
  <1>5. Writer = 0 /\ Writer' = 1
    BY <1>1 DEF Writer, Inside
  <1>6. jobless \in Int
    BY DEF TableInv, ControlTypes
  <1> QED
    BY <1>1, <1>4, <1>5, <1>6 DEF CountInv

LEMMA ForkHereTruth ==
    ASSUME WaitInv, TableInv, AwaitInv, TruthInv, Tracked, NEW p \in Pids, ForkHere(p)
    PROVE  TruthInv'
  <1>1. /\ p \notin Existing /\ "here" \in Commands
        /\ \A q \in Pids : q # p => owner'[q] = owner[q]
        /\ UNCHANGED <<jobtab, truth>> /\ pc = "eval" /\ pc' = "loop"
    BY ForkHereStep
  <1>2. ~ReusePids
    BY <1>1 DEF Tracked
  <1>3. Used' = Used /\ \A k : ~Forks(k) /\ ~Forks(k)'
    BY <1>1 DEF Used, Forks
  <1>4. \A k \in Used : \A i \in DOMAIN jobtab[k].ps :
           jobtab[k].ps[i].status \in {Live, Stopped} =>
              owner'[jobtab[k].ps[i].pid] = owner[jobtab[k].ps[i].pid]
    BY <1>1, AwaitedChild
  <1> QED
    BY <1>1, <1>2, <1>3, <1>4 DEF TruthInv

-----------------------------------------------------------------------------
(***************************************************************************)
(* dowait                                                                  *)
(***************************************************************************)

\* wait3 reports p, and dowait's search finds job j, or 0.
Reaps(j, p) == Wait3Reaps(p) /\ j = JobOf(p)

\* What happens outside the table.
LEMMA ReapedChild ==
    ASSUME WaitInv, TableInv, NEW p \in Pids, NEW j, Reaps(j, p)
    PROVE  /\ pc = "wait3" /\ pc' = "loop" /\ cmd' = cmd /\ ret' = 1
           /\ UNCHANGED <<njobs, jobctl, result, raised>>
           /\ p \in Existing
           /\ Existing \subseteq Pids
           /\ \/ /\ Report(p) \in Finals /\ proc'[p].st = "gone"
                 /\ Existing' = Existing \ {p}
                 /\ owner' = [owner EXCEPT ![p] = Untracked]
                 /\ truth' = [k \in Slots |-> IF owner[p] = Owned(k, TRUE) THEN Report(p)
                                                                          ELSE truth[k]]
              \/ /\ Report(p) = Stopped /\ Stoppable /\ proc'[p].st = "stopped"
                 /\ Existing' = Existing
                 /\ owner' = owner /\ truth' = truth
           /\ \A q \in Pids : q # p => proc'[q] = proc[q]
           /\ Report(p) \in Finals \cup {Stopped}
  <1>1. /\ Wait3Reaps(p) /\ proc \in [Pids -> ProcState] /\ ProcInv
    BY DEF Reaps, WaitInv, ProcessesTypeOK, TableInv
  <1>2. /\ pc = "wait3" /\ pc' = "loop" /\ cmd' = cmd /\ ret' = 1
        /\ UNCHANGED <<njobs, jobctl, result, raised>>
    BY <1>1 DEF Wait3Reaps
  <1>3. proc[p].st \in {"zombie", "stopped"} /\ p \in Existing /\ Existing \subseteq Pids
    BY <1>1 DEF Wait3Reaps, Waitable, Existing
  <1>4. proc' = [proc EXCEPT ![p] = IF proc[p].st = "zombie" THEN Process("gone", FALSE, Live)
                                                            ELSE Process("stopped", FALSE, Live)]
    BY <1>1 DEF Wait3Reaps, Collect
  <1>5. /\ proc'[p] = IF proc[p].st = "zombie" THEN Process("gone", FALSE, Live)
                                               ELSE Process("stopped", FALSE, Live)
        /\ \A q \in Pids : q # p => proc'[q] = proc[q]
    BY <1>1, <1>4
  <1>6. CASE proc[p].st = "zombie"
    <2>1. Report(p) \in Finals /\ proc'[p].st = "gone"
      BY <1>1, <1>5, <1>6 DEF Report, ProcInv, Process
    <2>2. Existing' = Existing \ {p}
      BY <1>5, <2>1 DEF Existing
    <2>3. /\ owner' = [owner EXCEPT ![p] = Untracked]
          /\ truth' = [k \in Slots |-> IF owner[p] = Owned(k, TRUE) THEN Report(p) ELSE truth[k]]
      BY <1>1, <1>6 DEF Wait3Reaps
    <2> QED
      BY <1>2, <1>3, <1>5, <2>1, <2>2, <2>3
  <1>7. CASE proc[p].st # "zombie"
    <2>1. Report(p) = Stopped /\ proc'[p].st = "stopped" /\ Stoppable
      BY <1>1, <1>3, <1>5, <1>7 DEF Report, ProcInv, Process
    <2>2. Existing' = Existing
      <3>1. /\ proc[p].st = "stopped" /\ proc'[p].st = "stopped"
            /\ \A q \in Pids : q # p => proc'[q] = proc[q]
        BY <1>3, <1>5, <1>7, <2>1
      <3>2. \A q \in Pids : proc'[q].st = proc[q].st
        BY <3>1
      <3> QED
        BY <3>2 DEF Existing
    <2>3. owner' = owner /\ truth' = truth
      BY <1>1, <1>7 DEF Wait3Reaps, hist
    <2> QED
      BY <1>2, <1>3, <1>5, <2>1, <2>2, <2>3
  <1> QED
    BY <1>6, <1>7

\* The job that is found.
LEMMA ReapedJob ==
    ASSUME TableInv, NEW p \in Pids, NEW j, Reaps(j, p), j # 0,
           Report(p) \in Finals \cup {Stopped}
    PROVE  /\ j \in Slots /\ j \in Used /\ Used' = Used
           /\ jobtab[j].state # "DONE" /\ HasPid(j, p)
           /\ jobtab' \in [Slots -> Job]
           /\ \A k \in Slots : k # j => jobtab'[k] = jobtab[k]
           /\ jobtab'[j].used = jobtab[j].used /\ jobtab'[j].jobctl = jobtab[j].jobctl
           /\ jobtab'[j].waited = jobtab[j].waited
           /\ DOMAIN jobtab'[j].ps = DOMAIN jobtab[j].ps /\ Len(jobtab'[j].ps) = Len(jobtab[j].ps)
           /\ \A i \in DOMAIN jobtab[j].ps :
                 /\ jobtab'[j].ps[i].pid = jobtab[j].ps[i].pid
                 /\ jobtab'[j].ps[i].status = IF jobtab[j].ps[i].pid = p THEN Report(p)
                                                                     ELSE jobtab[j].ps[i].status
                 /\ jobtab'[j].ps[i].status \in Finals \cup {Live, Stopped}
           /\ jobtab'[j].state = IF NewState(jobtab'[j].ps) = "RUNNING"
                                 THEN jobtab[j].state ELSE NewState(jobtab'[j].ps)
           /\ jobtab'[j].changed = (jobtab[j].changed \/ NewState(jobtab'[j].ps) # "RUNNING")
           /\ curjob' = IF NewState(jobtab'[j].ps) = "STOPPED" /\ jobtab[j].state # "STOPPED"
                        THEN SetStopped(curjob, j) ELSE curjob
           /\ jobless' = jobless
  <1>1. /\ curjob \in Seq(Slots) /\ ToSet(curjob) = Used /\ jobtab \in [Slots -> Job]
    BY DEF TableInv, TableTypes, ListInv
  <1>2. j = JobOf(p) /\ RecordStatus(p, Report(p))
    BY DEF Reaps, Wait3Reaps
  <1>3. j \in Slots /\ j \in Used /\ jobtab[j].state # "DONE" /\ HasPid(j, p)
    <2>1. PICK i \in DOMAIN curjob : JobOf(p) = curjob[i] /\ JobOf(p) \in Slots
                                     /\ jobtab[curjob[i]].state # "DONE" /\ HasPid(curjob[i], p)
      BY <1>1, <1>2, JobOfFound
    <2>2. curjob[i] \in ToSet(curjob)
      BY DEF ToSet
    <2> QED
      BY <2>1, <2>2, <1>1, <1>2
  <1> DEFINE old == jobtab[j].ps
             new == [i \in DOMAIN old |-> IF old[i].pid = p THEN [pid |-> p, status |-> Report(p)]
                                                          ELSE old[i]]
             state == NewState(new)
  <1>4. /\ jobtab' = [jobtab EXCEPT ![j].ps = new,
                                    ![j].changed = @ \/ state # "RUNNING",
                                    ![j].state = IF state = "RUNNING" THEN @ ELSE state]
        /\ curjob' = IF state = "STOPPED" /\ jobtab[j].state # state THEN SetStopped(curjob, j) ELSE curjob
        /\ jobless' = jobless
    BY <1>2 DEF RecordStatus
  <1>5. jobtab[j] \in Job
    BY <1>1, <1>3
  <1>6. old \in Seq(Procs)
    BY <1>5 DEF Job, Procs
  <1>7. PICK n \in Nat : n = Len(old) /\ DOMAIN old = 1 .. n
    BY <1>6, LenProperties
  <1>8. \A i \in 1 .. n : old[i] \in Procs
    BY <1>6, <1>7
  <1>9. \A i \in 1 .. n : /\ new[i] \in Procs /\ new[i].pid = old[i].pid
                          /\ new[i].status = IF old[i].pid = p THEN Report(p) ELSE old[i].status
                          /\ new[i].status \in Finals \cup {Live, Stopped}
    BY <1>7, <1>8 DEF Procs
  <1>10. DOMAIN new = 1 .. n
    BY <1>7
  <1>11. new \in Seq(Procs) /\ Len(new) = n
    <2>1. new = [i \in 1 .. n |-> new[i]]
      BY <1>7
    <2> HIDE DEF new
    <2>2. new \in [1 .. n -> Procs]
      BY <1>9, <2>1
    <2>3. new \in Seq(Procs)
      BY <2>2, SeqDef
    <2> QED
      BY <2>1, <2>3, <1>7, <1>10, LenProperties
  <1>12. state \in {"RUNNING", "STOPPED", "DONE"}
    BY DEF NewState
  <1>13. /\ jobtab'[j].ps = new /\ jobtab'[j].changed = (jobtab[j].changed \/ state # "RUNNING")
         /\ jobtab'[j].state = IF state = "RUNNING" THEN jobtab[j].state ELSE state
         /\ jobtab'[j].used = jobtab[j].used /\ jobtab'[j].jobctl = jobtab[j].jobctl
         /\ jobtab'[j].waited = jobtab[j].waited
         /\ \A k \in Slots : k # j => jobtab'[k] = jobtab[k]
    <2> HIDE DEF new, state
    <2> QED
      BY <1>1, <1>3, <1>4, <1>5 DEF Job
  <1>14. jobtab' \in [Slots -> Job]
    <2> HIDE DEF new, state
    <2>1. /\ jobtab'[j] = [jobtab[j] EXCEPT !.ps = new, !.changed = @ \/ state # "RUNNING",
                                            !.state = IF state = "RUNNING" THEN @ ELSE state]
      BY <1>1, <1>3, <1>4
    <2>2. jobtab'[j] \in Job
      BY <2>1, <1>5, <1>11, <1>12 DEF Job, Procs
    <2>3. jobtab' = [jobtab EXCEPT ![j] = jobtab'[j]]
      BY <2>1, <1>1, <1>3, <1>4
    <2> QED
      BY <2>2, <2>3, <1>1, <1>3
  <1>15. Used' = Used
    BY <1>3, <1>13 DEF Used
  <1> HIDE DEF new, state
  <1>16. state = NewState(jobtab'[j].ps)
    BY <1>13 DEF state
  <1> QED
    BY <1>3, <1>4, <1>7, <1>9, <1>10, <1>11, <1>13, <1>14, <1>15, <1>16

\* What a job waits for afterwards: statuses are final or stops.
LEMMA ReapedStates ==
    ASSUME NEW ps, \A i \in DOMAIN ps : ps[i].status \in Finals \cup {Live, Stopped}
    PROVE  /\ NewState(ps) = "RUNNING" <=> \E i \in DOMAIN ps : ps[i].status = Live
           /\ NewState(ps) = "DONE" => \A i \in DOMAIN ps : ps[i].status \in Finals
           /\ NewState(ps) = "STOPPED" => \E i \in DOMAIN ps : ps[i].status = Stopped
           /\ NewState(ps) \in {"RUNNING", "STOPPED", "DONE"}
  BY DEF NewState

LEMMA ReapTable ==
    ASSUME WaitInv, TableInv, NEW p \in Pids, NEW j, Reaps(j, p)
    PROVE  TableInv'
  <1>1. /\ pc = "wait3" /\ pc' = "loop" /\ cmd' = cmd /\ ret' = 1
        /\ UNCHANGED <<njobs, jobctl, result, raised>>
        /\ \/ /\ Report(p) \in Finals /\ proc'[p].st = "gone"
              /\ owner' = [owner EXCEPT ![p] = Untracked]
              /\ truth' = [k \in Slots |-> IF owner[p] = Owned(k, TRUE) THEN Report(p)
                                                                       ELSE truth[k]]
           \/ /\ Report(p) = Stopped /\ Stoppable /\ proc'[p].st = "stopped"
              /\ owner' = owner /\ truth' = truth
        /\ \A q \in Pids : q # p => proc'[q] = proc[q]
        /\ Report(p) \in Finals \cup {Stopped}
    BY ReapedChild
  <1>2. /\ truth' \in [Slots -> Finals \cup {Live}]
        /\ owner' \in [Pids -> [job : Slots \cup {0}, last : BOOLEAN]]
    <2>1. Untracked \in [job : Slots \cup {0}, last : BOOLEAN]
      BY DEF Untracked, Owned
    <2>2. /\ truth \in [Slots -> Finals \cup {Live}]
          /\ owner \in [Pids -> [job : Slots \cup {0}, last : BOOLEAN]]
      BY DEF TableInv, ControlTypes, TableTypes
    <2>3. \A k \in Slots : truth[k] \in Finals \cup {Live}
      BY <2>2
    <2> QED
      BY <1>1, <2>1, <2>2, <2>3
  <1>3. ProcInv'
    <2>1. /\ proc'[p].st = "zombie" => FALSE
          /\ proc'[p].st = "stopped" => Stoppable
      BY <1>1
    <2>2. \A q \in Pids : q # p => /\ proc'[q].st = "zombie" => proc'[q].status \in Finals
                                   /\ proc'[q].st = "stopped" => Stoppable
      BY <1>1 DEF TableInv, ProcInv
    <2> QED
      BY <2>1, <2>2 DEF ProcInv
  <1>4. ForkInv'
    BY <1>1 DEF ForkInv
  <1>5. CASE j = 0
    <2>1. /\ UNCHANGED <<jobtab, curjob>> /\ jobless' = Untrack(Report(p))
      BY <1>5 DEF Reaps, Wait3Reaps, RecordStatus
    <2>2. jobless' \in Int
      BY <2>1 DEF TableInv, ControlTypes, Untrack
    <2>3. ControlTypes'
      BY <1>1, <1>2, <2>2 DEF TableInv, ControlTypes, Inside
    <2>4. TableTypes' /\ ListInv' /\ SlotInv'
      BY <1>1, <1>2, <2>1 DEF TableInv, TableTypes, ListInv, SlotInv, Used, Once
    <2>5. BusyInv'
      BY <1>1, <2>1 DEF TableInv, BusyInv, Used, Inside
    <2> QED
      BY <1>3, <1>4, <2>3, <2>4, <2>5 DEF TableInv
  <1>6. CASE j # 0
    <2>1. /\ j \in Slots /\ j \in Used /\ Used' = Used
          /\ jobtab[j].state # "DONE" /\ HasPid(j, p)
          /\ jobtab' \in [Slots -> Job]
          /\ \A k \in Slots : k # j => jobtab'[k] = jobtab[k]
          /\ jobtab'[j].used = jobtab[j].used
          /\ DOMAIN jobtab'[j].ps = DOMAIN jobtab[j].ps /\ Len(jobtab'[j].ps) = Len(jobtab[j].ps)
          /\ \A i \in DOMAIN jobtab[j].ps :
                /\ jobtab'[j].ps[i].status = IF jobtab[j].ps[i].pid = p THEN Report(p)
                                                                    ELSE jobtab[j].ps[i].status
                /\ jobtab'[j].ps[i].status \in Finals \cup {Live, Stopped}
          /\ jobtab'[j].state = IF NewState(jobtab'[j].ps) = "RUNNING"
                                THEN jobtab[j].state ELSE NewState(jobtab'[j].ps)
          /\ curjob' = IF NewState(jobtab'[j].ps) = "STOPPED" /\ jobtab[j].state # "STOPPED"
                       THEN SetStopped(curjob, j) ELSE curjob
          /\ jobless' = jobless
      BY <1>1, <1>6, ReapedJob
    <2>2. ControlTypes'
      BY <1>1, <1>2, <2>1 DEF TableInv, ControlTypes, Inside
    <2>3. curjob' \in Seq(Slots) /\ ToSet(curjob') = ToSet(curjob) /\ Once(curjob')
      <3>1. curjob \in Seq(Slots) /\ Once(curjob) /\ j \in ToSet(curjob)
        BY <2>1 DEF TableInv, TableTypes, ListInv
      <3>2. /\ SetStopped(curjob, j) \in Seq(Slots)
            /\ ToSet(SetStopped(curjob, j)) = ToSet(curjob) \cup {j}
            /\ Once(SetStopped(curjob, j))
        BY <2>1, <3>1, Relinked
      <3>3. ToSet(curjob) \cup {j} = ToSet(curjob)
        BY <3>1
      <3> QED
        BY <2>1, <3>1, <3>2, <3>3
    <2>4. TableTypes' /\ ListInv'
      BY <1>1, <1>2, <2>1, <2>3 DEF TableInv, TableTypes, ListInv
    <2>5. SlotInv'
      <3>1. \A k \in Slots : k # j =>
            /\ jobtab'[k].used => k <= njobs'
            /\ ~jobtab'[k].used => jobtab'[k].ps = <<>>
            /\ Len(jobtab'[k].ps) <= MaxPipe
            /\ jobtab'[k].state # "RUNNING" => jobtab'[k].ps # <<>>
            /\ jobtab'[k].state = "DONE" =>
                  \A i \in DOMAIN jobtab'[k].ps : jobtab'[k].ps[i].status \in Finals
            /\ ~Stoppable => /\ jobtab'[k].state # "STOPPED"
                             /\ \A i \in DOMAIN jobtab'[k].ps : jobtab'[k].ps[i].status # Stopped
        BY <1>1, <2>1 DEF TableInv, SlotInv
      <3>2. jobtab'[j].used /\ j <= njobs' /\ Len(jobtab'[j].ps) <= MaxPipe
        BY <1>1, <2>1 DEF TableInv, SlotInv, Used
      <3>3. jobtab'[j].ps # <<>>
        <4>1. DOMAIN jobtab'[j].ps # {} /\ DOMAIN <<>> = {}
          BY <2>1 DEF HasPid
        <4> QED
          BY <4>1
      <3>4. jobtab'[j].state = "DONE" => \A i \in DOMAIN jobtab'[j].ps : jobtab'[j].ps[i].status \in Finals
        <4>1. jobtab'[j].state = "DONE" => NewState(jobtab'[j].ps) = "DONE"
          BY <2>1
        <4> QED
          BY <4>1, <2>1, ReapedStates
      <3>5. ~Stoppable => /\ jobtab'[j].state # "STOPPED"
                          /\ \A i \in DOMAIN jobtab'[j].ps : jobtab'[j].ps[i].status # Stopped
        <4> SUFFICES ASSUME ~Stoppable
                     PROVE  /\ jobtab'[j].state # "STOPPED"
                            /\ \A i \in DOMAIN jobtab'[j].ps : jobtab'[j].ps[i].status # Stopped
          OBVIOUS
        <4>1. Report(p) # Stopped
          BY <1>1, StatusTypes
        <4>2. \A i \in DOMAIN jobtab'[j].ps : jobtab'[j].ps[i].status # Stopped
          BY <2>1, <4>1 DEF TableInv, SlotInv
        <4>3. NewState(jobtab'[j].ps) # "STOPPED"
          BY <2>1, <4>2, ReapedStates
        <4> QED
          BY <2>1, <4>2, <4>3 DEF TableInv, SlotInv
      <3> QED
        BY <3>1, <3>2, <3>3, <3>4, <3>5 DEF SlotInv
    <2>6. BusyInv'
      BY <1>1, <2>1 DEF TableInv, BusyInv, Inside
    <2> QED
      BY <1>3, <1>4, <2>2, <2>4, <2>5, <2>6 DEF TableInv
  <1> QED
    BY <1>5, <1>6

\* dowait finds the job the child was forked for.  A child without a job is
\* mistaken for one of a job's only if its pid was that one's before.
LEMMA ReapsRight ==
    ASSUME WaitInv, TableInv, AwaitInv, NEW p \in Pids, NEW j, Reaps(j, p)
    PROVE  /\ owner[p].job # 0 => j = owner[p].job
           /\ owner[p].job = 0 => ReusePids \/ j = 0
           /\ \A k \in Used : Awaits(k, p) => k = j /\ owner[p].job = k
  <1>1. p \in Existing /\ j = JobOf(p)
    BY ReapedChild DEF Reaps
  <1>2. /\ \A k \in Used : Awaits(k, p) <=> owner[p].job = k
        /\ owner[p].job \in Used \cup {0}
    BY <1>1 DEF AwaitInv, NoStatusLost, ChildrenAwaited, OwnersInUse, Awaits
  <1>3. /\ curjob \in Seq(Slots) /\ ToSet(curjob) = Used /\ Once(curjob)
    BY DEF TableInv, TableTypes, ListInv
  <1>4. Used \subseteq Slots /\ 0 \notin Slots
    BY DEF Used, Slots
  <1>5. CASE owner[p].job # 0
    <2> DEFINE k == owner[p].job
    <2>1. k \in Used /\ k \in Slots /\ Awaits(k, p)
      BY <1>2, <1>4, <1>5
    <2>2. jobtab[k].state # "DONE" /\ HasPid(k, p)
      BY <2>1, StatusTypes DEF Awaits, HasPid, TableInv, SlotInv
    <2>3. PICK i \in DOMAIN curjob :
             /\ j = curjob[i] /\ HasPid(curjob[i], p)
             /\ \A l \in DOMAIN curjob :
                   jobtab[curjob[l]].state # "DONE" /\ HasPid(curjob[l], p) => i <= l
      BY <1>1, <1>3, <2>1, <2>2, JobOfFound
    <2>4. j = k
      <3> SUFFICES ASSUME j # k PROVE FALSE
        OBVIOUS
      <3>1. j \in Used
        BY <2>3, <1>3 DEF ToSet
      <3>2. Before(curjob, k, j)
        BY <2>1, <2>3, <3>1 DEF AwaitInv
      <3>3. PICK a \in DOMAIN curjob, b \in DOMAIN curjob : a < b /\ curjob[a] = k /\ curjob[b] = j
        BY <3>2 DEF Before
      <3>4. b = i
        BY <3>3, <2>3, <1>3 DEF Once
      <3>5. i <= a
        BY <3>3, <2>2, <2>3
      <3>6. DOMAIN curjob \subseteq Nat
        BY <1>3
      <3> QED
        BY <3>3, <3>4, <3>5, <3>6
    <2> QED
      BY <2>4, <1>2, <1>5
  <1>6. CASE owner[p].job = 0
    <2>1. \A k \in Used : ~Awaits(k, p)
      BY <1>2, <1>4, <1>6
    <2>2. ReusePids \/ j = 0
      <3> SUFFICES ASSUME ~ReusePids, j # 0 PROVE FALSE
        OBVIOUS
      <3>1. PICK i \in DOMAIN curjob : j = curjob[i] /\ HasPid(curjob[i], p)
        BY <1>1, <1>3, JobOfFound
      <3>2. j \in Used
        BY <3>1, <1>3 DEF ToSet
      <3> QED
        BY <3>1, <3>2, <1>1, <1>4, <1>6 DEF AwaitInv
    <2> QED
      BY <2>1, <2>2, <1>6
  <1> QED
    BY <1>5, <1>6

\* Who waits for whom after it.
LEMMA ReapedPids ==
    ASSUME WaitInv, TableInv, AwaitInv, Straight, NEW p \in Pids, NEW j, Reaps(j, p)
    PROVE  /\ \A k \in Used : \A q : HasPid(k, q)' <=> HasPid(k, q)
           /\ \A k \in Used : \A q : q # p => (Awaits(k, q)' <=> Awaits(k, q))
           /\ \A k \in Used : Awaits(k, p)' <=> Awaits(k, p) /\ Report(p) = Stopped
           /\ Used' = Used /\ (ReusePids => curjob' = curjob)
  <1>1. /\ \/ Report(p) \in Finals
           \/ Report(p) = Stopped /\ Stoppable
        /\ Report(p) \in Finals \cup {Stopped}
        /\ p \in Existing
    BY ReapedChild
  <1>2. /\ owner[p].job # 0 => j = owner[p].job
        /\ owner[p].job = 0 => ReusePids \/ j = 0
        /\ \A k \in Used : Awaits(k, p) => k = j /\ owner[p].job = k
    BY ReapsRight
  <1>3. Used \subseteq Slots /\ 0 \notin Used
    BY DEF Used, Slots
  <1>4. CASE j = 0
    <2>1. jobtab' = jobtab /\ curjob' = curjob
      BY <1>4 DEF Reaps, Wait3Reaps, RecordStatus
    <2>2. \A k \in Used : ~Awaits(k, p)
      BY <1>2, <1>3, <1>4
    <2> QED
      BY <2>1, <2>2 DEF Awaits, HasPid, Used
  <1>5. CASE j # 0
    <2>1. /\ j \in Used /\ Used' = Used /\ HasPid(j, p)
          /\ \A k \in Slots : k # j => jobtab'[k] = jobtab[k]
          /\ DOMAIN jobtab'[j].ps = DOMAIN jobtab[j].ps
          /\ \A i \in DOMAIN jobtab[j].ps :
                /\ jobtab'[j].ps[i].pid = jobtab[j].ps[i].pid
                /\ jobtab'[j].ps[i].status = IF jobtab[j].ps[i].pid = p THEN Report(p)
                                                                    ELSE jobtab[j].ps[i].status
                /\ jobtab'[j].ps[i].status \in Finals \cup {Live, Stopped}
          /\ curjob' = IF NewState(jobtab'[j].ps) = "STOPPED" /\ jobtab[j].state # "STOPPED"
                       THEN SetStopped(curjob, j) ELSE curjob
      BY <1>1, <1>5, ReapedJob
    <2>2. \A k \in Used : k # j => \A q : /\ HasPid(k, q)' <=> HasPid(k, q)
                                          /\ Awaits(k, q)' <=> Awaits(k, q)
      BY <1>3, <2>1 DEF HasPid, Awaits
    <2>3. \A q : HasPid(j, q)' <=> HasPid(j, q)
      BY <2>1 DEF HasPid
    <2>4. \A q : q # p => (Awaits(j, q)' <=> Awaits(j, q))
      BY <2>1 DEF Awaits
    <2>5. Awaits(j, p)' <=> Report(p) = Stopped
      <3>1. Report(p) \in {Live, Stopped} <=> Report(p) = Stopped
        BY <1>1, StatusTypes
      <3>2. \A i \in DOMAIN jobtab[j].ps :
               jobtab'[j].ps[i].pid = p => jobtab'[j].ps[i].status = Report(p)
        BY <2>1
      <3>3. \E i \in DOMAIN jobtab'[j].ps : jobtab'[j].ps[i].pid = p
        BY <2>1 DEF HasPid
      <3> QED
        BY <2>1, <3>1, <3>2, <3>3 DEF Awaits
    <2>6. Report(p) = Stopped => Awaits(j, p)
      <3> SUFFICES ASSUME Report(p) = Stopped PROVE Awaits(j, p)
        OBVIOUS
      <3>1. ~ReusePids
        BY <1>1, StatusTypes DEF Straight
      <3>2. owner[p].job = j
        BY <1>2, <1>5, <3>1
      <3> QED
        BY <2>1, <3>2, <1>1 DEF AwaitInv, NoStatusLost, ChildrenAwaited, Awaits
    <2>7. ReusePids => curjob' = curjob
      <3> SUFFICES ASSUME ReusePids PROVE curjob' = curjob
        OBVIOUS
      <3>1. ~Stoppable /\ Report(p) # Stopped
        BY <1>1, StatusTypes DEF Straight
      <3>2. \A i \in DOMAIN jobtab'[j].ps : jobtab'[j].ps[i].status # Stopped
        BY <1>3, <2>1, <3>1 DEF TableInv, SlotInv
      <3>3. NewState(jobtab'[j].ps) # "STOPPED"
        BY <2>1, <3>2, ReapedStates
      <3> QED
        BY <2>1, <3>3
    <2>8. \A k \in Used : k # j => ~Awaits(k, p)
      BY <1>2
    <2> QED
      BY <2>1, <2>2, <2>3, <2>4, <2>5, <2>6, <2>7, <2>8
  <1> QED
    BY <1>4, <1>5

LEMMA ReapAwait ==
    ASSUME WaitInv, TableInv, AwaitInv, Straight, NEW p \in Pids, NEW j, Reaps(j, p)
    PROVE  AwaitInv'
  <1>1. /\ \A k \in Used : \A q : HasPid(k, q)' <=> HasPid(k, q)
        /\ \A k \in Used : \A q : q # p => (Awaits(k, q)' <=> Awaits(k, q))
        /\ \A k \in Used : Awaits(k, p)' <=> Awaits(k, p) /\ Report(p) = Stopped
        /\ Used' = Used /\ (ReusePids => curjob' = curjob)
    BY ReapedPids
  <1>2. /\ pc' = "loop"
        /\ \/ /\ Report(p) \in Finals /\ proc'[p].st = "gone"
              /\ Existing' = Existing \ {p}
              /\ owner' = [owner EXCEPT ![p] = Untracked]
           \/ /\ Report(p) = Stopped /\ proc'[p].st = "stopped"
              /\ Existing' = Existing /\ owner' = owner
        /\ \A q \in Pids : q # p => proc'[q] = proc[q]
        /\ p \in Existing /\ Existing \subseteq Pids
    BY ReapedChild
  <1>3. \A q \in Existing' : owner'[q] = owner[q]
    BY <1>2 DEF TableInv, TableTypes
  <1>4. /\ \A k \in Used, q \in Pids : q \in Existing /\ owner[q].job = k <=> Awaits(k, q)
        /\ \A q \in Existing : owner[q].job \in Used \cup {0}
    BY DEF AwaitInv, NoStatusLost, ChildrenAwaited, OwnersInUse, Awaits
  <1>5. \A k \in Used, q \in Pids : q \in Existing' /\ owner'[q].job = k <=> Awaits(k, q)'
    <2>1. CASE Report(p) \in Finals
      <3>1. Report(p) # Stopped /\ Existing' = Existing \ {p}
        BY <1>2, <2>1, StatusTypes
      <3> QED
        BY <3>1, <1>1, <1>3, <1>4
    <2>2. CASE Report(p) = Stopped
      <3>1. Existing' = Existing
        BY <1>2, <2>2, StatusTypes
      <3> QED
        BY <3>1, <2>2, <1>1, <1>3, <1>4
    <2> QED
      BY <1>2, <2>1, <2>2
  <1>6. Existing' \subseteq Existing
    BY <1>2
  <1>7. NoStatusLost'
    <2>1. ChildrenAwaited'
      BY <1>1, <1>5 DEF ChildrenAwaited, Awaits
    <2>2. \A q \in Existing' : owner'[q].job \in Used' \cup {0}
      BY <1>1, <1>3, <1>4, <1>6
    <2> QED
      BY <2>1, <2>2 DEF NoStatusLost, OwnersInUse
  <1>8. \A q \in Existing' : owner'[q].job = 0 => owner'[q] = Untracked
    BY <1>3, <1>6 DEF AwaitInv
  <1>9. ~ReusePids => \A k \in Used' : \A q \in Pids :
            HasPid(k, q)' => proc'[q].st # "unborn" /\ (q \in Existing' => owner'[q].job = k)
    <2>1. proc'[p].st # "unborn"
      BY <1>2
    <2>2. \A q \in Pids : proc[q].st # "unborn" => proc'[q].st # "unborn"
      BY <1>2, <2>1
    <2> QED
      BY <1>1, <1>3, <1>6, <2>2 DEF AwaitInv
  <1>10. ASSUME NEW a \in Used', NEW b \in Used', NEW q \in Pids,
                Awaits(a, q)', HasPid(b, q)', b # a
         PROVE  ReusePids /\ Before(curjob', a, b)
    <2>1. Awaits(a, q) /\ HasPid(b, q) /\ a \in Used /\ b \in Used
      BY <1>1, <1>10
    <2>2. ReusePids /\ Before(curjob, a, b)
      BY <2>1, <1>10 DEF AwaitInv
    <2> QED
      BY <2>2, <1>1
  <1>11. \A a, b \in Used' : \A q \in Pids :
            Awaits(a, q)' /\ HasPid(b, q)' /\ b # a => ReusePids /\ Before(curjob, a, b)'
    BY <1>10 DEF Before
  <1> QED
    BY <1>2, <1>7, <1>8, <1>9, <1>11 DEF AwaitInv

LEMMA ReapState ==
    ASSUME WaitInv, TableInv, StateInv, NEW p \in Pids, NEW j, Reaps(j, p)
    PROVE  StateInv'
  <1>1. Report(p) \in Finals \cup {Stopped} /\ jobctl' = jobctl
    BY ReapedChild
  <1>2. CASE j = 0
    <2>1. jobtab' = jobtab
      BY <1>2 DEF Reaps, Wait3Reaps, RecordStatus
    <2> QED
      BY <1>1, <2>1 DEF StateInv, Used, NewState
  <1>3. CASE j # 0
    <2>1. /\ j \in Used /\ j \in Slots /\ Used' = Used /\ HasPid(j, p)
          /\ jobtab[j].state # "DONE"
          /\ \A k \in Slots : k # j => jobtab'[k] = jobtab[k]
          /\ jobtab'[j].jobctl = jobtab[j].jobctl
          /\ DOMAIN jobtab'[j].ps = DOMAIN jobtab[j].ps
          /\ \A i \in DOMAIN jobtab[j].ps :
                /\ jobtab'[j].ps[i].status = IF jobtab[j].ps[i].pid = p THEN Report(p)
                                                                    ELSE jobtab[j].ps[i].status
                /\ jobtab'[j].ps[i].status \in Finals \cup {Live, Stopped}
          /\ jobtab'[j].state = IF NewState(jobtab'[j].ps) = "RUNNING"
                                THEN jobtab[j].state ELSE NewState(jobtab'[j].ps)
          /\ jobtab'[j].changed = (jobtab[j].changed \/ NewState(jobtab'[j].ps) # "RUNNING")
      BY <1>1, <1>3, ReapedJob
    <2> DEFINE ps == jobtab'[j].ps
    <2>2. /\ NewState(ps) = "RUNNING" <=> \E i \in DOMAIN ps : ps[i].status = Live
          /\ NewState(ps) \in {"RUNNING", "STOPPED", "DONE"}
      BY <2>1, ReapedStates
    <2>3. NewState(ps) = "RUNNING" => jobtab[j].state = "RUNNING"
      <3> SUFFICES ASSUME NewState(ps) = "RUNNING" PROVE jobtab[j].state = "RUNNING"
        OBVIOUS
      <3>1. PICK i \in DOMAIN ps : ps[i].status = Live
        BY <2>2
      <3>2. jobtab[j].ps[i].status = Live /\ i \in DOMAIN jobtab[j].ps
        BY <3>1, <2>1, <1>1, StatusTypes
      <3>3. NewState(jobtab[j].ps) = "RUNNING"
        BY <3>2 DEF NewState
      <3>4. jobtab[j].ps # <<>>
        <4>1. DOMAIN <<>> = {}
          OBVIOUS
        <4> QED
          BY <3>2, <4>1
      <3> QED
        BY <3>3, <3>4, <2>1 DEF StateInv
    <2>4. jobtab'[j].state = NewState(ps)
      BY <2>1, <2>3
    <2>5. jobtab'[j].state = "DONE" => jobtab'[j].changed
      BY <2>1, <2>4
    <2>6. "fg" \in Commands /\ jobtab'[j].jobctl => jobctl'
      BY <1>1, <2>1 DEF StateInv
    <2> HIDE DEF ps
    <2>7. \A k \in Used : k # j => /\ jobtab'[k].ps # <<>> => jobtab'[k].state = NewState(jobtab'[k].ps)
                                   /\ jobtab'[k].state = "DONE" => jobtab'[k].changed
                                   /\ "fg" \in Commands /\ jobtab'[k].jobctl => jobctl'
      BY <1>1, <2>1 DEF StateInv, Used
    <2>8. Used' = Used
      BY <2>1
    <2>9. \A k \in Used' : /\ jobtab'[k].ps # <<>> => jobtab'[k].state = NewState(jobtab'[k].ps)
                           /\ jobtab'[k].state = "DONE" => jobtab'[k].changed
                           /\ "fg" \in Commands /\ jobtab'[k].jobctl => jobctl'
      BY <2>4, <2>5, <2>6, <2>7, <2>8 DEF ps
    <2> QED
      BY <2>9 DEF StateInv, NewState
  <1> QED
    BY <1>2, <1>3

LEMMA ReapCount ==
    ASSUME WaitInv, TableInv, AwaitInv, CountInv, ~ReusePids, NEW p \in Pids, NEW j, Reaps(j, p)
    PROVE  CountInv'
  <1>1. /\ pc = "wait3" /\ pc' = "loop" /\ cmd' = cmd
        /\ \/ /\ Report(p) \in Finals
              /\ Existing' = Existing \ {p}
              /\ owner' = [owner EXCEPT ![p] = Untracked]
           \/ /\ Report(p) = Stopped
              /\ Existing' = Existing /\ owner' = owner
        /\ p \in Existing /\ Existing \subseteq Pids
        /\ Report(p) \in Finals \cup {Stopped}
    BY ReapedChild
  <1>2. \A q \in Existing' : owner'[q] = owner[q]
    BY <1>1 DEF TableInv, TableTypes
  <1>3. Writer' = Writer /\ Writer \in Int /\ jobless \in Int
    BY <1>1 DEF Writer, Inside, TableInv, ControlTypes
  <1>4. (j = 0 <=> owner[p] = Untracked) /\ Orphans \subseteq Pids
    <2>1. owner[p].job # 0 => j = owner[p].job
      BY ReapsRight
    <2>2. owner[p].job = 0 => j = 0
      BY ReapsRight
    <2>3. owner[p].job = 0 <=> owner[p] = Untracked
      BY <1>1 DEF AwaitInv, Untracked, Owned
    <2> QED
      BY <1>1, <2>1, <2>2, <2>3 DEF Orphans
  <1>5. CASE j = 0
    <2>1. jobless' = Untrack(Report(p))
      BY <1>5 DEF Reaps, Wait3Reaps, RecordStatus
    <2>2. CASE Report(p) = Stopped
      <3>1. Orphans' = Orphans /\ jobless' = jobless
        BY <1>1, <2>1, <2>2, StatusTypes DEF Orphans, Untrack
      <3> QED
        BY <3>1, <1>3 DEF CountInv
    <2>3. CASE Report(p) # Stopped
      <3>1. Orphans' = Orphans \ {p} /\ p \in Orphans /\ jobless' = jobless - 1
        BY <1>1, <1>2, <1>4, <1>5, <2>1, <2>3 DEF Orphans, Untrack
      <3>2. IsFiniteSet(Orphans)
        BY <1>4, ProcessesAssumption, FS_Subset
      <3>3. Cardinality(Orphans') = Cardinality(Orphans) - 1
        BY <3>1, <3>2, FS_RemoveElement
      <3> QED
        BY <3>1, <3>3, <1>3 DEF CountInv
    <2> QED
      BY <2>2, <2>3
  <1>6. CASE j # 0
    <2>1. jobless' = jobless
      BY <1>1, <1>6, ReapedJob
    <2>2. Orphans' = Orphans
      BY <1>1, <1>2, <1>4, <1>6 DEF Orphans
    <2> QED
      BY <2>1, <2>2, <1>3 DEF CountInv
  <1> QED
    BY <1>5, <1>6

LEMMA ReapTruth ==
    ASSUME WaitInv, TableInv, AwaitInv, TruthInv, Tracked, NEW p \in Pids, NEW j, Reaps(j, p)
    PROVE  TruthInv'
  <1>1. /\ pc = "wait3" /\ pc' = "loop"
        /\ \/ /\ Report(p) \in Finals
              /\ Existing' = Existing \ {p}
              /\ owner' = [owner EXCEPT ![p] = Untracked]
              /\ truth' = [k \in Slots |-> IF owner[p] = Owned(k, TRUE) THEN Report(p)
                                                                       ELSE truth[k]]
           \/ /\ Report(p) = Stopped /\ Stoppable
              /\ Existing' = Existing /\ owner' = owner /\ truth' = truth
        /\ p \in Existing /\ Existing \subseteq Pids
        /\ Report(p) \in Finals \cup {Stopped}
    BY ReapedChild
  <1>2. \A q \in Existing' : owner'[q] = owner[q]
    BY <1>1 DEF TableInv, TableTypes
  <1>3. ReusePids => \A q \in Existing' : owner'[q] # Untracked
    BY <1>1, <1>2 DEF TruthInv
  <1>4. \A k : ~Forks(k) /\ ~Forks(k)'
    BY <1>1 DEF Forks
  <1>5. /\ owner[p].job # 0 => j = owner[p].job
        /\ owner[p].job = 0 => j = 0
        /\ \A k \in Used : Awaits(k, p) => k = j /\ owner[p].job = k
    <2>1. owner[p].job = 0 => ~ReusePids
      BY <1>1 DEF AwaitInv, TruthInv
    <2> QED
      BY <2>1, ReapsRight
  <1>6. Used \subseteq Slots /\ 0 \notin Slots /\ \A k : \A b \in BOOLEAN : Owned(k, b).job = k
    BY DEF Used, Slots, Owned
  <1>7. \A k \in Slots : k # j => truth'[k] = truth[k]
    <2>1. \A k \in Slots : k # j => owner[p] # Owned(k, TRUE)
      BY <1>5, <1>6
    <2>2. truth \in [Slots -> Finals \cup {Live}]
      BY DEF TableInv, ControlTypes
    <2> QED
      BY <1>1, <2>1, <2>2
  <1>8. Used' = Used /\ \A k \in Used : k # j => jobtab'[k] = jobtab[k]
    <2>1. CASE j = 0
      <3>1. jobtab' = jobtab
        BY <2>1 DEF Reaps, Wait3Reaps, RecordStatus
      <3> QED
        BY <3>1 DEF Used
    <2>2. CASE j # 0
      BY <1>1, <1>6, <2>2, ReapedJob
    <2> QED
      BY <2>1, <2>2
  <1>9. ASSUME NEW k \in Used, k # j
        PROVE  LET ps == jobtab'[k].ps
               IN  /\ \A i, l \in DOMAIN ps : ps[i].pid = ps[l].pid => i = l
                   /\ \A i \in DOMAIN ps : ps[i].status \in {Live, Stopped} =>
                        owner'[ps[i].pid] = Owned(k, ~Forks(k)' /\ i = Len(ps))
                   /\ ps # <<>> /\ ~Forks(k)' /\ ps[Len(ps)].status \in Finals =>
                        truth'[k] = ps[Len(ps)].status
    <2>1. jobtab'[k] = jobtab[k] /\ truth'[k] = truth[k] /\ ~Forks(k) /\ ~Forks(k)'
      BY <1>4, <1>6, <1>7, <1>8, <1>9
    <2> DEFINE ps == jobtab[k].ps
    <2>2. /\ \A i, l \in DOMAIN ps : ps[i].pid = ps[l].pid => i = l
          /\ \A i \in DOMAIN ps : ps[i].status \in {Live, Stopped} =>
               owner[ps[i].pid] = Owned(k, ~Forks(k) /\ i = Len(ps))
          /\ ps # <<>> /\ ~Forks(k) /\ ps[Len(ps)].status \in Finals =>
               truth[k] = ps[Len(ps)].status
      BY DEF TruthInv
    <2>3. \A i \in DOMAIN ps : ps[i].status \in {Live, Stopped} => owner'[ps[i].pid] = owner[ps[i].pid]
      <3> SUFFICES ASSUME NEW i \in DOMAIN ps, ps[i].status \in {Live, Stopped}
                   PROVE  owner'[ps[i].pid] = owner[ps[i].pid]
        OBVIOUS
      <3>1. ps[i].pid \in Existing
        BY AwaitedChild
      <3>2. ps[i].pid # p
        BY <1>5, <1>9 DEF Awaits
      <3> QED
        BY <3>1, <3>2, <1>1, <1>2
    <2> QED
      BY <2>1, <2>2, <2>3
  <1>10. ASSUME j # 0
         PROVE  LET ps == jobtab'[j].ps
                IN  /\ \A i, l \in DOMAIN ps : ps[i].pid = ps[l].pid => i = l
                    /\ \A i \in DOMAIN ps : ps[i].status \in {Live, Stopped} =>
                         owner'[ps[i].pid] = Owned(j, ~Forks(j)' /\ i = Len(ps))
                    /\ ps # <<>> /\ ~Forks(j)' /\ ps[Len(ps)].status \in Finals =>
                         truth'[j] = ps[Len(ps)].status
    <2> DEFINE old == jobtab[j].ps
               ps == jobtab'[j].ps
    <2>1. /\ j \in Slots /\ j \in Used
          /\ DOMAIN ps = DOMAIN old /\ Len(ps) = Len(old)
          /\ \A i \in DOMAIN old :
                /\ ps[i].pid = old[i].pid
                /\ ps[i].status = IF old[i].pid = p THEN Report(p) ELSE old[i].status
                /\ ps[i].status \in Finals \cup {Live, Stopped}
      BY <1>1, <1>10, ReapedJob
    <2>2. owner[p].job = j /\ Awaits(j, p)
      <3>1. owner[p].job = j
        BY <1>5, <1>10
      <3> QED
        BY <3>1, <2>1, <1>1 DEF AwaitInv, NoStatusLost, ChildrenAwaited, Awaits
    <2>3. /\ \A i, l \in DOMAIN old : old[i].pid = old[l].pid => i = l
          /\ \A i \in DOMAIN old : old[i].status \in {Live, Stopped} =>
               owner[old[i].pid] = Owned(j, ~Forks(j) /\ i = Len(old))
          /\ old # <<>> /\ ~Forks(j) /\ old[Len(old)].status \in Finals =>
               truth[j] = old[Len(old)].status
      BY <2>1 DEF TruthInv
    <2>4. PICK at \in DOMAIN old : old[at].pid = p /\ old[at].status \in {Live, Stopped}
      BY <2>2 DEF Awaits
    <2>5. \A i \in DOMAIN old : ps[i].status \in {Live, Stopped} =>
             old[i].status \in {Live, Stopped} /\ owner'[old[i].pid] = owner[old[i].pid]
      <3> SUFFICES ASSUME NEW i \in DOMAIN old, ps[i].status \in {Live, Stopped}
                   PROVE  old[i].status \in {Live, Stopped} /\ owner'[old[i].pid] = owner[old[i].pid]
        OBVIOUS
      <3>1. CASE old[i].pid = p
        <4>1. i = at
          BY <2>3, <2>4, <3>1
        <4>2. Report(p) = Stopped
          BY <1>1, <2>1, <3>1, StatusTypes
        <4>3. owner' = owner
          BY <1>1, <4>2, StatusTypes
        <4> QED
          BY <2>4, <4>1, <4>3
      <3>2. CASE old[i].pid # p
        <4>1. ps[i].status = old[i].status
          BY <2>1, <3>2
        <4>2. old[i].pid \in Existing
          BY <2>1, <4>1, AwaitedChild
        <4> QED
          BY <4>1, <4>2, <3>2, <1>1, <1>2
      <3> QED
        BY <3>1, <3>2
    <2>6. \A i \in DOMAIN ps : ps[i].status \in {Live, Stopped} =>
             owner'[ps[i].pid] = Owned(j, ~Forks(j)' /\ i = Len(ps))
      <3> SUFFICES ASSUME NEW i \in DOMAIN ps, ps[i].status \in {Live, Stopped}
                   PROVE  owner'[ps[i].pid] = Owned(j, ~Forks(j)' /\ i = Len(ps))
        OBVIOUS
      <3>1. owner'[ps[i].pid] = owner[old[i].pid] /\ old[i].status \in {Live, Stopped}
        BY <2>1, <2>5
      <3>2. owner[old[i].pid] = Owned(j, ~Forks(j) /\ i = Len(old))
        BY <2>1, <2>3, <3>1
      <3> QED
        BY <3>1, <3>2, <2>1, <1>4
    <2>7. ps # <<>> /\ ps[Len(ps)].status \in Finals => truth'[j] = ps[Len(ps)].status
      <3> SUFFICES ASSUME ps # <<>>, ps[Len(ps)].status \in Finals
                   PROVE  truth'[j] = ps[Len(ps)].status
        OBVIOUS
      <3>1. Len(ps) \in DOMAIN old /\ old # <<>>
        <4>1. jobtab[j] \in Job
          BY <2>1 DEF TableInv, TableTypes
        <4>2. old \in Seq(Procs)
          BY <4>1 DEF Job, Procs
        <4>3. PICK n \in Nat : n = Len(old) /\ DOMAIN old = 1 .. n
          BY <4>2, LenProperties
        <4>4. DOMAIN old # {} /\ DOMAIN <<>> = {}
          BY <2>4
        <4>5. old # <<>> /\ n # 0
          BY <4>3, <4>4
        <4>6. n \in 1 .. n
          BY <4>5
        <4> QED
          BY <2>1, <4>3, <4>5, <4>6
      <3>2. CASE old[Len(ps)].pid = p
        <4>1. at = Len(old)
          BY <2>1, <2>3, <2>4, <3>1, <3>2
        <4>2. owner[p] = Owned(j, TRUE)
          BY <2>3, <2>4, <4>1, <1>4
        <4>3. ps[Len(ps)].status = Report(p)
          BY <2>1, <3>1, <3>2
        <4>4. Report(p) # Stopped
          BY <4>3, StatusTypes
        <4>5. truth' = [k \in Slots |-> IF owner[p] = Owned(k, TRUE) THEN Report(p) ELSE truth[k]]
          BY <1>1, <4>4
        <4> QED
          BY <2>1, <4>2, <4>3, <4>5
      <3>3. CASE old[Len(ps)].pid # p
        <4>1. ps[Len(ps)].status = old[Len(old)].status
          BY <2>1, <3>1, <3>3
        <4>2. truth[j] = old[Len(old)].status
          BY <2>3, <3>1, <4>1, <1>4
        <4>3. at # Len(old)
          BY <2>1, <2>4, <3>3
        <4>4. owner[p] = Owned(j, FALSE)
          BY <2>3, <2>4, <4>3
        <4>5. owner[p] # Owned(j, TRUE)
          BY <4>4 DEF Owned
        <4>6. truth'[j] = truth[j]
          BY <1>1, <2>1, <4>5 DEF TableInv, ControlTypes
        <4> QED
          BY <4>1, <4>2, <4>6
      <3> QED
        BY <3>2, <3>3
    <2>8. \A i, l \in DOMAIN ps : ps[i].pid = ps[l].pid => i = l
      BY <2>1, <2>3
    <2> QED
      BY <2>6, <2>7, <2>8
  <1>11. ASSUME NEW k \in Used'
         PROVE  LET ps == jobtab'[k].ps
                IN  /\ \A i, l \in DOMAIN ps : ps[i].pid = ps[l].pid => i = l
                    /\ \A i \in DOMAIN ps : ps[i].status \in {Live, Stopped} =>
                         owner'[ps[i].pid] = Owned(k, ~Forks(k)' /\ i = Len(ps))
                    /\ ps # <<>> /\ ~Forks(k)' /\ ps[Len(ps)].status \in Finals =>
                         truth'[k] = ps[Len(ps)].status
    <2>1. CASE k = j
      <3>1. j # 0
        BY <1>6, <1>8, <1>11, <2>1
      <3> QED
        BY <2>1, <3>1, <1>10
    <2>2. CASE k # j
      BY <2>2, <1>8, <1>9
    <2> QED
      BY <2>1, <2>2
  <1> QED
    BY <1>3, <1>11 DEF TruthInv

-----------------------------------------------------------------------------
(***************************************************************************)
(* fg and bg                                                               *)
(***************************************************************************)

\* What they do to a job in use: bg puts it behind the stopped ones, and if
\* it is not done it runs, with its stopped processes, unless fg lacks the
\* terminal.
Resumes(j) ==
    /\ j \in Used /\ jobtab[j].jobctl
    /\ curjob' = curjob \/ ("bg" \in Commands /\ curjob' = SetRunning(curjob, jobtab, j))
    /\ jobtab' \in [Slots -> Job]
    /\ \A k \in Slots : k # j => jobtab'[k] = jobtab[k]
    /\ jobtab'[j].used = jobtab[j].used /\ jobtab'[j].changed = jobtab[j].changed
    /\ jobtab'[j].jobctl = jobtab[j].jobctl
    /\ DOMAIN jobtab'[j].ps = DOMAIN jobtab[j].ps /\ Len(jobtab'[j].ps) = Len(jobtab[j].ps)
    /\ \A i \in DOMAIN jobtab[j].ps :
          /\ jobtab'[j].ps[i].pid = jobtab[j].ps[i].pid
          /\ \/ jobtab'[j].ps[i].status = jobtab[j].ps[i].status
             \/ jobtab[j].ps[i].status = Stopped /\ jobtab'[j].ps[i].status = Live
    /\ \/ jobtab'[j] = jobtab[j]
       \/ /\ jobtab[j].state # "DONE" /\ jobtab'[j].state = "RUNNING" /\ jobtab[j].ps # <<>>
          /\ \/ "fg" \in Commands /\ ~jobctl
             \/ \A i \in DOMAIN jobtab'[j].ps : jobtab'[j].ps[i].status # Stopped
    /\ pc = "eval" /\ pc' \in {"loop", "end"}
    /\ Writer' = Writer
    /\ UNCHANGED <<njobs, jobless, jobctl, owner, truth>>
    /\ SameProcs /\ Sound

LEMMA ContinuedChildren ==
    ASSUME WaitInv, TableInv, NEW j, Continue(j)
    PROVE  SameProcs /\ ProcInv'
  <1> DEFINE stopped == {p \in Pids : owner[p].job = j /\ proc[p].st = "stopped"}
  <1>1. proc' = [p \in Pids |-> IF p \in stopped THEN Process("running", FALSE, Live) ELSE proc[p]]
    BY DEF Continue
  <1>2. \A p \in stopped : proc[p].st = "stopped" /\ proc'[p].st = "running"
    BY <1>1 DEF Process
  <1>3. \A p \in Pids \ stopped : proc'[p] = proc[p]
    BY <1>1
  <1> HIDE DEF stopped
  <1>4. \A p \in Pids : /\ proc'[p].st \in {"running", "stopped", "zombie"}
                              <=> proc[p].st \in {"running", "stopped", "zombie"}
                        /\ proc'[p].st = "unborn" <=> proc[p].st = "unborn"
    BY <1>2, <1>3
  <1>5. Existing' = Existing
    BY <1>4 DEF Existing
  <1>6. ProcInv'
    BY <1>2, <1>3 DEF TableInv, ProcInv
  <1> QED
    BY <1>4, <1>5, <1>6 DEF SameProcs

\* The processes of a job whose stops are cleared.
LEMMA ClearedStops ==
    ASSUME NEW s \in Seq(Procs)
    PROVE  LET t == [i \in DOMAIN s |-> IF s[i].status = Stopped THEN [s[i] EXCEPT !.status = Live]
                                                              ELSE s[i]]
           IN  /\ t \in Seq(Procs) /\ DOMAIN t = DOMAIN s /\ Len(t) = Len(s)
               /\ \A i \in DOMAIN s :
                     /\ t[i].pid = s[i].pid /\ t[i].status # Stopped
                     /\ \/ t[i].status = s[i].status
                        \/ s[i].status = Stopped /\ t[i].status = Live
  <1> DEFINE t == [i \in DOMAIN s |-> IF s[i].status = Stopped THEN [s[i] EXCEPT !.status = Live]
                                                           ELSE s[i]]
  <1>1. PICK n \in Nat : n = Len(s) /\ DOMAIN s = 1 .. n
    BY LenProperties
  <1>2. \A i \in 1 .. n : s[i] \in Procs
    BY <1>1
  <1>3. \A i \in 1 .. n : /\ t[i] \in Procs /\ t[i].pid = s[i].pid /\ t[i].status # Stopped
                          /\ \/ t[i].status = s[i].status
                             \/ s[i].status = Stopped /\ t[i].status = Live
    BY <1>1, <1>2, StatusTypes DEF Procs
  <1>4. t = [i \in 1 .. n |-> t[i]] /\ DOMAIN t = 1 .. n
    BY <1>1
  <1> HIDE DEF t
  <1>5. t \in [1 .. n -> Procs]
    BY <1>3, <1>4
  <1>6. t \in Seq(Procs)
    BY <1>5, SeqDef
  <1>7. Len(t) = n
    BY <1>1, <1>4, <1>6, LenProperties
  <1> QED
    BY <1>1, <1>3, <1>4, <1>6, <1>7 DEF t

LEMMA FgBgStep ==
    ASSUME WaitInv, TableInv, NEW op \in {"fg", "bg"}, NEW j \in Operands, FgBg(op, j)
    PROVE  (Quiet /\ Sound) \/ Resumes(j)
  <1>1. /\ pc = "eval" /\ op \in Commands
        /\ UNCHANGED <<masked, njobs, jobless, jobctl, raised, ret, owner, truth, hist>>
    BY DEF FgBg, Idle, hist
  <1>2. CASE j = NoSuchJob \/ (j # NoSuchJob /\ ~jobtab[j].jobctl)
    <2>1. Error /\ UNCHANGED <<jobtab, curjob, proc, cmd>>
      BY <1>2 DEF FgBg
    <2> QED
      BY <1>1, <2>1, QuietError
  <1>3. CASE ~(j = NoSuchJob \/ (j # NoSuchJob /\ ~jobtab[j].jobctl))
    <2>1. j \in Used /\ j \in Slots /\ jobtab[j].jobctl
      BY <1>3, OperandsUsed DEF Used
    <2>2. /\ jobtab[j].ps # <<>>
          /\ curjob' = IF op = "bg" THEN SetRunning(curjob, jobtab, j) ELSE curjob
          /\ IF jobtab[j].state # "DONE"
             THEN Restart(j, op)
             ELSE /\ IF op = "fg" THEN Start("fg", j) /\ UNCHANGED result
                                  ELSE Finish(0) /\ UNCHANGED cmd
                  /\ UNCHANGED <<jobtab, proc>>
      BY <1>3 DEF FgBg
    <2>3. curjob' = curjob \/ ("bg" \in Commands /\ curjob' = SetRunning(curjob, jobtab, j))
      BY <1>1, <2>2
    <2>4. jobtab[j] \in Job /\ jobtab \in [Slots -> Job] /\ jobtab[j].ps \in Seq(Procs)
      <3>1. jobtab \in [Slots -> Job]
        BY DEF TableInv, TableTypes
      <3>2. jobtab[j] \in Job
        BY <2>1, <3>1
      <3> QED
        BY <3>1, <3>2 DEF Job, Procs
    <2>5. \/ /\ pc' = "loop" /\ cmd' = [NoCommand EXCEPT !.op = "fg", !.job = j] /\ result' = result
          \/ /\ pc' = "end" /\ cmd' = cmd /\ result' \in {0, 2}
      BY <2>2 DEF Restart, Start, Finish, Error
    <2>6. \/ jobtab' = jobtab
          \/ /\ jobtab[j].state # "DONE" /\ "fg" \in Commands /\ ~jobctl
             /\ jobtab' = [jobtab EXCEPT ![j].state = "RUNNING"]
          \/ /\ jobtab[j].state # "DONE"
             /\ jobtab' = [[jobtab EXCEPT ![j].state = "RUNNING"] EXCEPT ![j].ps =
                              [i \in DOMAIN @ |-> IF @[i].status = Stopped
                                                  THEN [@[i] EXCEPT !.status = Live] ELSE @[i]]]
      BY <1>1, <2>2 DEF Restart
    <2>7. SameProcs /\ ProcInv'
      <3>1. UNCHANGED proc \/ Continue(j)
        BY <2>2 DEF Restart
      <3> QED
        BY <3>1, StillProcs, ContinuedChildren
    <2>8. /\ cmd' \in Cmd
          /\ pc' = "loop" => cmd'.op = "fg" /\ cmd'.job = j
      <3>1. "fg" \in Ops /\ j \in Slots \cup {0}
        BY <2>1 DEF Ops
      <3>2. CASE pc' = "loop"
        <4>1. cmd' = [NoCommand EXCEPT !.op = "fg", !.job = j]
          BY <2>5, <3>2
        <4>2. /\ [NoCommand EXCEPT !.op = "fg", !.job = j] \in Cmd
              /\ [NoCommand EXCEPT !.op = "fg", !.job = j].op = "fg"
              /\ [NoCommand EXCEPT !.op = "fg", !.job = j].job = j
          BY <3>1, StartTypes
        <4> QED
          BY <4>1, <4>2
      <3>3. CASE pc' # "loop"
        BY <2>5, <3>3 DEF TableInv, ControlTypes
      <3> QED
        BY <3>2, <3>3
    <2>9. /\ jobtab' \in [Slots -> Job]
          /\ \A k \in Slots : k # j => jobtab'[k] = jobtab[k]
          /\ jobtab'[j].used = jobtab[j].used /\ jobtab'[j].changed = jobtab[j].changed
          /\ jobtab'[j].jobctl = jobtab[j].jobctl
          /\ DOMAIN jobtab'[j].ps = DOMAIN jobtab[j].ps /\ Len(jobtab'[j].ps) = Len(jobtab[j].ps)
          /\ \A i \in DOMAIN jobtab[j].ps :
                /\ jobtab'[j].ps[i].pid = jobtab[j].ps[i].pid
                /\ \/ jobtab'[j].ps[i].status = jobtab[j].ps[i].status
                   \/ jobtab[j].ps[i].status = Stopped /\ jobtab'[j].ps[i].status = Live
          /\ \/ jobtab'[j] = jobtab[j]
             \/ /\ jobtab[j].state # "DONE" /\ jobtab'[j].state = "RUNNING"
                /\ \/ "fg" \in Commands /\ ~jobctl
                   \/ \A i \in DOMAIN jobtab'[j].ps : jobtab'[j].ps[i].status # Stopped
      <3>1. CASE jobtab' = jobtab
        BY <2>4, <3>1
      <3>2. CASE /\ jobtab[j].state # "DONE" /\ "fg" \in Commands /\ ~jobctl
                 /\ jobtab' = [jobtab EXCEPT ![j].state = "RUNNING"]
        <4>1. /\ jobtab'[j] = [jobtab[j] EXCEPT !.state = "RUNNING"]
              /\ \A k \in Slots : k # j => jobtab'[k] = jobtab[k]
          BY <2>1, <2>4, <3>2
        <4>2. jobtab'[j] \in Job /\ jobtab'[j].state = "RUNNING" /\ jobtab'[j].ps = jobtab[j].ps
              /\ jobtab'[j].used = jobtab[j].used /\ jobtab'[j].changed = jobtab[j].changed
              /\ jobtab'[j].jobctl = jobtab[j].jobctl
          BY <2>4, <4>1 DEF Job
        <4>3. jobtab' \in [Slots -> Job]
          BY <2>1, <2>4, <3>2, <4>1, <4>2
        <4> QED
          BY <3>2, <4>1, <4>2, <4>3
      <3>3. CASE /\ jobtab[j].state # "DONE"
                 /\ jobtab' = [[jobtab EXCEPT ![j].state = "RUNNING"] EXCEPT ![j].ps =
                              [i \in DOMAIN @ |-> IF @[i].status = Stopped
                                                  THEN [@[i] EXCEPT !.status = Live] ELSE @[i]]]
        <4> DEFINE s == jobtab[j].ps
                   t == [i \in DOMAIN s |-> IF s[i].status = Stopped
                                            THEN [s[i] EXCEPT !.status = Live] ELSE s[i]]
        <4>1. /\ t \in Seq(Procs) /\ DOMAIN t = DOMAIN s /\ Len(t) = Len(s)
              /\ \A i \in DOMAIN s :
                     /\ t[i].pid = s[i].pid /\ t[i].status # Stopped
                     /\ \/ t[i].status = s[i].status
                        \/ s[i].status = Stopped /\ t[i].status = Live
          BY <2>4, ClearedStops
        <4>2. [jobtab EXCEPT ![j].state = "RUNNING"][j].ps = s
          BY <2>1, <2>4 DEF Job
        <4>3. jobtab' = [[jobtab EXCEPT ![j].state = "RUNNING"] EXCEPT ![j].ps = t]
          BY <3>3, <4>2
        <4> HIDE DEF t
        <4>4. /\ jobtab'[j] = [[jobtab[j] EXCEPT !.state = "RUNNING"] EXCEPT !.ps = t]
              /\ \A k \in Slots : k # j => jobtab'[k] = jobtab[k]
          BY <2>1, <2>4, <4>3
        <4>5. jobtab'[j] \in Job /\ jobtab'[j].state = "RUNNING" /\ jobtab'[j].ps = t
              /\ jobtab'[j].used = jobtab[j].used /\ jobtab'[j].changed = jobtab[j].changed
              /\ jobtab'[j].jobctl = jobtab[j].jobctl
          BY <2>4, <4>1, <4>4 DEF Job, Procs
        <4>6. jobtab' \in [Slots -> Job]
          <5>1. jobtab' = [jobtab EXCEPT ![j] = jobtab'[j]]
            BY <2>1, <2>4, <4>3, <4>4
          <5> QED
            BY <5>1, <2>1, <2>4, <4>5
        <4> QED
          BY <3>3, <4>1, <4>4, <4>5, <4>6
      <3> QED
        BY <2>6, <3>1, <3>2, <3>3
    <2>10. Used' = Used
      BY <2>1, <2>9 DEF Used
    <2>11. pc' \in {"loop", "end"} /\ result' \in Nat \cup {Kept}
      BY <2>5 DEF TableInv, ControlTypes
    <2>12. Sound
      <3>1. ControlTypes'
        BY <1>1, <2>8, <2>11 DEF TableInv, ControlTypes, Inside
      <3>2. BusyInv'
        BY <2>1, <2>8, <2>10, <2>11 DEF BusyInv, Inside
      <3> QED
        BY <3>1, <3>2, <2>7 DEF Sound
    <2>13. Writer' = Writer
      <3>1. Writer = 0
        BY <1>1 DEF Writer, Inside
      <3>2. Writer' = 0
        BY <2>8, <2>11 DEF Writer, Inside
      <3> QED
        BY <3>1, <3>2
    <2>14. Resumes(j)
      BY <1>1, <2>1, <2>2, <2>3, <2>7, <2>9, <2>11, <2>12, <2>13 DEF Resumes
    <2> QED
      BY <2>14
  <1> QED
    BY <1>2, <1>3

LEMMA ResumedPids ==
    ASSUME TableInv, NEW j, Resumes(j)
    PROVE  /\ j \in Slots /\ Used' = Used /\ Used \subseteq Slots
           /\ \A k \in Slots : \A q : /\ HasPid(k, q)' <=> HasPid(k, q)
                                      /\ Awaits(k, q)' <=> Awaits(k, q)
           /\ \A i \in DOMAIN jobtab[j].ps :
                 /\ jobtab'[j].ps[i].status \in {Live, Stopped}
                       <=> jobtab[j].ps[i].status \in {Live, Stopped}
                 /\ jobtab'[j].ps[i].status \in Finals
                       => jobtab'[j].ps[i].status = jobtab[j].ps[i].status
  <1>1. /\ j \in Slots /\ Used' = Used /\ Used \subseteq Slots
    BY DEF Resumes, Used
  <1>2. /\ DOMAIN jobtab'[j].ps = DOMAIN jobtab[j].ps
        /\ \A i \in DOMAIN jobtab[j].ps :
              /\ jobtab'[j].ps[i].pid = jobtab[j].ps[i].pid
              /\ \/ jobtab'[j].ps[i].status = jobtab[j].ps[i].status
                 \/ jobtab[j].ps[i].status = Stopped /\ jobtab'[j].ps[i].status = Live
        /\ \A k \in Slots : k # j => jobtab'[k] = jobtab[k]
    BY DEF Resumes
  <1>3. \A i \in DOMAIN jobtab[j].ps :
           jobtab'[j].ps[i].status \in {Live, Stopped} <=> jobtab[j].ps[i].status \in {Live, Stopped}
    BY <1>2
  <1>4. \A q : HasPid(j, q)' <=> HasPid(j, q)
    BY <1>2 DEF HasPid
  <1>5. \A q : Awaits(j, q)' <=> Awaits(j, q)
    BY <1>2, <1>3 DEF Awaits
  <1>6. \A k \in Slots : k # j => \A q : /\ HasPid(k, q)' <=> HasPid(k, q)
                                         /\ Awaits(k, q)' <=> Awaits(k, q)
    BY <1>2 DEF HasPid, Awaits
  <1>7. \A i \in DOMAIN jobtab[j].ps : jobtab'[j].ps[i].status \in Finals
                       => jobtab'[j].ps[i].status = jobtab[j].ps[i].status
    BY <1>2, StatusTypes
  <1> QED
    BY <1>1, <1>3, <1>4, <1>5, <1>6, <1>7

LEMMA ResumedTable ==
    ASSUME TableInv, NEW j, Resumes(j)
    PROVE  TableInv'
  <1>1. /\ j \in Slots /\ j \in Used /\ Used' = Used
        /\ \A i \in DOMAIN jobtab[j].ps :
              jobtab'[j].ps[i].status \in Finals => jobtab'[j].ps[i].status = jobtab[j].ps[i].status
    BY ResumedPids DEF Resumes
  <1>2. curjob' \in Seq(Slots) /\ ToSet(curjob') = ToSet(curjob) /\ Once(curjob')
    <2>1. curjob \in Seq(Slots) /\ Once(curjob) /\ j \in ToSet(curjob)
      BY <1>1 DEF TableInv, TableTypes, ListInv
    <2>2. /\ SetRunning(curjob, jobtab, j) \in Seq(Slots)
          /\ ToSet(SetRunning(curjob, jobtab, j)) = ToSet(curjob) \cup {j}
          /\ Once(SetRunning(curjob, jobtab, j))
      BY <1>1, <2>1, Relinked
    <2>3. ToSet(curjob) \cup {j} = ToSet(curjob)
      BY <2>1
    <2> QED
      BY <2>1, <2>2, <2>3 DEF Resumes
  <1>3. ControlTypes' /\ ProcInv' /\ BusyInv'
    BY DEF Resumes, Sound
  <1>4. TableTypes' /\ ListInv'
    BY <1>1, <1>2 DEF Resumes, TableInv, TableTypes, ListInv
  <1>5. ForkInv'
    BY DEF Resumes, ForkInv
  <1>6. SlotInv'
    <2>1. \A k \in Slots : k # j =>
            /\ jobtab'[k].used => k <= njobs'
            /\ ~jobtab'[k].used => jobtab'[k].ps = <<>>
            /\ Len(jobtab'[k].ps) <= MaxPipe
            /\ jobtab'[k].state # "RUNNING" => jobtab'[k].ps # <<>>
            /\ jobtab'[k].state = "DONE" =>
                  \A i \in DOMAIN jobtab'[k].ps : jobtab'[k].ps[i].status \in Finals
            /\ ~Stoppable => /\ jobtab'[k].state # "STOPPED"
                             /\ \A i \in DOMAIN jobtab'[k].ps : jobtab'[k].ps[i].status # Stopped
      BY DEF Resumes, TableInv, SlotInv
    <2>2. jobtab'[j].used /\ j <= njobs' /\ Len(jobtab'[j].ps) <= MaxPipe
      BY <1>1 DEF Resumes, TableInv, SlotInv, Used
    <2>3. jobtab'[j] = jobtab[j] \/ jobtab'[j].state = "RUNNING"
      BY DEF Resumes
    <2>4. /\ jobtab'[j].state # "RUNNING" => jobtab'[j].ps # <<>>
          /\ jobtab'[j].state = "DONE" =>
                  \A i \in DOMAIN jobtab'[j].ps : jobtab'[j].ps[i].status \in Finals
          /\ ~Stoppable => jobtab'[j].state # "STOPPED"
      BY <1>1, <2>3 DEF TableInv, SlotInv
    <2>5. ~Stoppable => \A i \in DOMAIN jobtab'[j].ps : jobtab'[j].ps[i].status # Stopped
      BY <1>1 DEF Resumes, TableInv, SlotInv
    <2> QED
      BY <2>1, <2>2, <2>4, <2>5 DEF SlotInv
  <1> QED
    BY <1>3, <1>4, <1>5, <1>6 DEF TableInv

LEMMA ResumedAwait ==
    ASSUME TableInv, AwaitInv, Straight, NEW j, Resumes(j)
    PROVE  AwaitInv'
  <1>1. /\ Used' = Used /\ Used \subseteq Slots
        /\ \A k \in Slots : \A q : /\ HasPid(k, q)' <=> HasPid(k, q)
                                   /\ Awaits(k, q)' <=> Awaits(k, q)
    BY ResumedPids
  <1>2. /\ Existing' = Existing /\ owner' = owner /\ pc' # "fork"
        /\ \A p \in Pids : proc'[p].st = "unborn" <=> proc[p].st = "unborn"
    BY DEF Resumes, SameProcs
  <1>3. ReusePids => curjob' = curjob
    BY DEF Resumes, Straight
  <1>4. NoStatusLost'
    <2>1. \A k \in Used, q \in Pids : q \in Existing /\ owner[q].job = k <=> Awaits(k, q)
      BY DEF AwaitInv, NoStatusLost, ChildrenAwaited, Awaits
    <2>2. \A k \in Used', q \in Pids : q \in Existing' /\ owner'[q].job = k <=> Awaits(k, q)'
      BY <1>1, <1>2, <2>1
    <2>3. ChildrenAwaited'
      BY <2>2 DEF ChildrenAwaited, Awaits
    <2> QED
      BY <2>3, <1>1, <1>2 DEF AwaitInv, NoStatusLost, OwnersInUse
  <1>5. \A a, b \in Used' : \A q \in Pids :
            Awaits(a, q)' /\ HasPid(b, q)' /\ b # a => ReusePids /\ Before(curjob, a, b)'
    BY <1>1, <1>3 DEF AwaitInv, Before
  <1>6. ~ReusePids => \A k \in Used' : \A q \in Pids :
            HasPid(k, q)' => proc'[q].st # "unborn" /\ (q \in Existing' => owner'[q].job = k)
    BY <1>1, <1>2 DEF AwaitInv
  <1>7. \A q \in Existing' : owner'[q].job = 0 => owner'[q] = Untracked
    BY <1>2 DEF AwaitInv
  <1> QED
    BY <1>2, <1>4, <1>5, <1>6, <1>7 DEF AwaitInv

LEMMA ResumedState ==
    ASSUME TableInv, StateInv, NEW j, Resumes(j)
    PROVE  StateInv'
  <1>1. /\ j \in Slots /\ j \in Used /\ Used' = Used /\ jobctl' = jobctl
        /\ \A k \in Used : k # j => jobtab'[k] = jobtab[k]
        /\ jobtab'[j].jobctl = jobtab[j].jobctl /\ jobtab[j].jobctl
    BY ResumedPids DEF Resumes, Used
  <1>2. /\ jobtab'[j].ps # <<>> => jobtab'[j].state = NewState(jobtab'[j].ps)
        /\ jobtab'[j].state = "DONE" => jobtab'[j].changed
    <2>1. CASE jobtab'[j] = jobtab[j]
      BY <1>1, <2>1 DEF StateInv
    <2>2. CASE /\ jobtab[j].state # "DONE" /\ jobtab'[j].state = "RUNNING" /\ jobtab[j].ps # <<>>
               /\ \/ "fg" \in Commands /\ ~jobctl
                  \/ \A i \in DOMAIN jobtab'[j].ps : jobtab'[j].ps[i].status # Stopped
      <3>1. \A i \in DOMAIN jobtab'[j].ps : jobtab'[j].ps[i].status # Stopped
        BY <1>1, <2>2 DEF StateInv
      <3>2. NewState(jobtab[j].ps) # "DONE"
        BY <1>1, <2>2 DEF StateInv
      <3>3. PICK i \in DOMAIN jobtab[j].ps : jobtab[j].ps[i].status \in {Live, Stopped}
        BY <3>2 DEF NewState
      <3>4. i \in DOMAIN jobtab'[j].ps /\ jobtab'[j].ps[i].status = Live
        BY <3>1, <3>3 DEF Resumes
      <3>5. NewState(jobtab'[j].ps) = "RUNNING"
        BY <3>4 DEF NewState
      <3> QED
        BY <2>2, <3>5
    <2> QED
      BY <2>1, <2>2 DEF Resumes
  <1>3. \A k \in Used' : /\ jobtab'[k].ps # <<>> => jobtab'[k].state = NewState(jobtab'[k].ps)
                         /\ jobtab'[k].state = "DONE" => jobtab'[k].changed
                         /\ "fg" \in Commands /\ jobtab'[k].jobctl => jobctl'
    BY <1>1, <1>2 DEF StateInv
  <1> QED
    BY <1>3 DEF StateInv, NewState

LEMMA ResumedCount ==
    ASSUME CountInv, NEW j, Resumes(j)
    PROVE  CountInv'
  BY DEF CountInv, Resumes, SameProcs, Orphans

LEMMA ResumedTruth ==
    ASSUME TableInv, TruthInv, NEW j, Resumes(j)
    PROVE  TruthInv'
  <1>1. /\ j \in Used /\ Used' = Used /\ Existing' = Existing /\ owner' = owner /\ truth' = truth
        /\ \A k \in Used : k # j => jobtab'[k] = jobtab[k]
        /\ \A i \in DOMAIN jobtab[j].ps :
                 /\ jobtab'[j].ps[i].status \in {Live, Stopped}
                       <=> jobtab[j].ps[i].status \in {Live, Stopped}
                 /\ jobtab'[j].ps[i].status \in Finals
                       => jobtab'[j].ps[i].status = jobtab[j].ps[i].status
    BY ResumedPids DEF Resumes, SameProcs, Used
  <1>2. \A k : ~Forks(k) /\ ~Forks(k)'
    BY DEF Resumes, Forks
  <1> DEFINE old == jobtab[j].ps
             ps == jobtab'[j].ps
  <1>3. /\ DOMAIN ps = DOMAIN old /\ Len(ps) = Len(old)
        /\ \A i \in DOMAIN old : ps[i].pid = old[i].pid
    BY DEF Resumes
  <1>4. /\ \A i, l \in DOMAIN old : old[i].pid = old[l].pid => i = l
        /\ \A i \in DOMAIN old : old[i].status \in {Live, Stopped} =>
             owner[old[i].pid] = Owned(j, ~Forks(j) /\ i = Len(old))
        /\ old # <<>> /\ ~Forks(j) /\ old[Len(old)].status \in Finals =>
             truth[j] = old[Len(old)].status
    BY <1>1 DEF TruthInv
  <1>5. \A i, l \in DOMAIN ps : ps[i].pid = ps[l].pid => i = l
    BY <1>3, <1>4
  <1>6. \A i \in DOMAIN ps : ps[i].status \in {Live, Stopped} =>
             owner'[ps[i].pid] = Owned(j, ~Forks(j)' /\ i = Len(ps))
    <2> SUFFICES ASSUME NEW i \in DOMAIN ps, ps[i].status \in {Live, Stopped}
                 PROVE  owner'[ps[i].pid] = Owned(j, ~Forks(j)' /\ i = Len(ps))
      OBVIOUS
    <2>1. owner[old[i].pid] = Owned(j, ~Forks(j) /\ i = Len(old))
      BY <1>1, <1>3, <1>4
    <2> QED
      BY <2>1, <1>1, <1>2, <1>3
  <1>7. ps # <<>> /\ ps[Len(ps)].status \in Finals => truth'[j] = ps[Len(ps)].status
    <2> SUFFICES ASSUME ps # <<>>, ps[Len(ps)].status \in Finals
                 PROVE  truth'[j] = ps[Len(ps)].status
      OBVIOUS
    <2>1. old \in Seq(Procs) /\ ps \in Seq(Procs)
      <3>1. jobtab[j] \in Job /\ jobtab'[j] \in Job
        BY <1>1 DEF TableInv, TableTypes, Resumes, Used
      <3> QED
        BY <3>1 DEF Job, Procs
    <2>2. PICK n \in Nat : n = Len(ps) /\ n # 0 /\ DOMAIN ps = 1 .. n
      BY <2>1, LenProperties, EmptySeq
    <2>3. n \in 1 .. n
      BY <2>2
    <2>4. Len(ps) \in DOMAIN old /\ old # <<>>
      <3>1. Len(old) = n
        BY <1>3, <2>2
      <3>2. old # <<>>
        BY <3>1, <2>1, <2>2, EmptySeq
      <3> QED
        BY <2>2, <2>3, <3>2, <1>3
    <2>5. ps[Len(ps)].status = old[Len(old)].status
      BY <1>1, <1>3, <2>4
    <2> QED
      BY <2>4, <2>5, <1>1, <1>2, <1>4
  <1>8. ASSUME NEW k \in Used, k # j
        PROVE  /\ \A i, l \in DOMAIN jobtab'[k].ps : jobtab'[k].ps[i].pid = jobtab'[k].ps[l].pid => i = l
               /\ \A i \in DOMAIN jobtab'[k].ps : jobtab'[k].ps[i].status \in {Live, Stopped} =>
                    owner'[jobtab'[k].ps[i].pid] = Owned(k, ~Forks(k)' /\ i = Len(jobtab'[k].ps))
               /\ jobtab'[k].ps # <<>> /\ ~Forks(k)' /\ jobtab'[k].ps[Len(jobtab'[k].ps)].status \in Finals =>
                    truth'[k] = jobtab'[k].ps[Len(jobtab'[k].ps)].status
    <2>1. jobtab'[k] = jobtab[k] /\ ~Forks(k) /\ ~Forks(k)'
      BY <1>1, <1>2, <1>8
    <2>2. /\ \A i, l \in DOMAIN jobtab[k].ps : jobtab[k].ps[i].pid = jobtab[k].ps[l].pid => i = l
          /\ \A i \in DOMAIN jobtab[k].ps : jobtab[k].ps[i].status \in {Live, Stopped} =>
               owner[jobtab[k].ps[i].pid] = Owned(k, ~Forks(k) /\ i = Len(jobtab[k].ps))
          /\ jobtab[k].ps # <<>> /\ ~Forks(k) /\ jobtab[k].ps[Len(jobtab[k].ps)].status \in Finals =>
               truth[k] = jobtab[k].ps[Len(jobtab[k].ps)].status
      BY DEF TruthInv
    <2> QED
      BY <2>1, <2>2, <1>1
  <1> QED
    BY <1>1, <1>5, <1>6, <1>7, <1>8 DEF TruthInv

-----------------------------------------------------------------------------
(***************************************************************************)
(* The invariant holds                                                     *)
(***************************************************************************)

\* Where the conditions of the parts meet.
LEMMA Conditions ==
    /\ ~ReusePids => Straight
    /\ Tracked => Straight /\ ~SysFailures
  BY DEF Straight, Tracked

LEMMA InitJobs == Init => JobsInv
  <1> SUFFICES ASSUME Init PROVE JobsInv
    OBVIOUS
  <1>1. WaitInv
    BY InitWait
  <1>2. /\ proc = [p \in Pids |-> Process("unborn", FALSE, Live)]
        /\ jobtab = [j \in Slots |-> FreshJob(FALSE, FALSE)]
        /\ njobs = 0 /\ curjob = <<>> /\ jobless = 0 /\ jobctl \in JobControl
        /\ result = Kept /\ raised = FALSE /\ pc = "eval" /\ cmd = NoCommand /\ ret = 1
        /\ owner = [p \in Pids |-> Untracked] /\ truth = [j \in Slots |-> Live]
    BY DEF Init, ProcessesInit
  <1>3. \A p \in Pids : proc[p].st = "unborn"
    BY <1>2 DEF Process
  <1>4. Existing = {} /\ Used = {}
    BY <1>2, <1>3 DEF Existing, Used, FreshJob
  <1>5. \A j \in Slots : jobtab[j] = FreshJob(FALSE, FALSE)
    BY <1>2
  <1>6. ToSet(curjob) = {} /\ Once(curjob) /\ curjob \in Seq(Slots)
    BY <1>2 DEF ToSet, Once
  <1>7. ControlTypes
    <2>1. NoCommand \in Cmd
      BY JobsAssumption DEF Cmd, NoCommand, Ops
    <2>2. truth \in [Slots -> Finals \cup {Live}]
      BY <1>2
    <2>3. jobless \in Int /\ result \in Nat \cup {Kept}
      BY <1>2
    <2>4. raised \in BOOLEAN
      BY <1>2
    <2>5. ret \in {-1, 0, 1}
      BY <1>2
    <2> QED
      BY <1>2, <2>1, <2>2, <2>3, <2>4, <2>5 DEF ControlTypes
  <1>8. TableTypes
    <2>1. Untracked \in [job : Slots \cup {0}, last : BOOLEAN]
      BY DEF Untracked, Owned
    <2>2. njobs \in 0 .. MaxJobs
      BY <1>2, JobsAssumption
    <2> QED
      BY <1>2, <1>6, <2>1, <2>2, FreshType DEF TableTypes
  <1>9. ProcInv
    BY <1>3 DEF ProcInv
  <1>10. ListInv
    BY <1>4, <1>6 DEF ListInv
  <1>11. SlotInv
    <2>1. Len(<<>>) <= MaxPipe /\ DOMAIN <<>> = {}
      BY JobsAssumption
    <2> QED
      BY <1>5, <2>1 DEF SlotInv, FreshJob
  <1>12. ForkInv /\ BusyInv
    BY <1>2 DEF ForkInv, BusyInv, Inside
  <1>13. AwaitInv
    BY <1>2, <1>3, <1>4 DEF AwaitInv, NoStatusLost, ChildrenAwaited, OwnersInUse
  <1>14. StateInv
    BY <1>4 DEF StateInv
  <1>15. CountInv
    <2>1. Orphans = {} /\ Writer = 0
      BY <1>2, <1>4 DEF Orphans, Writer, Inside
    <2>2. Cardinality({}) = 0
      BY FS_EmptySet
    <2> QED
      BY <1>2, <2>1, <2>2 DEF CountInv
  <1>16. TruthInv
    BY <1>4 DEF TruthInv
  <1> QED
    BY <1>1, <1>7, <1>8, <1>9, <1>10, <1>11, <1>12, <1>13, <1>14, <1>15, <1>16 DEF JobsInv, TableInv

LEMMA QuietKeeps ==
    ASSUME JobsInv, WaitInv', Quiet, Sound
    PROVE  JobsInv'
  <1>1. TableInv'
    BY QuietTable DEF JobsInv
  <1>2. (Straight => AwaitInv)'
    BY QuietAwait DEF JobsInv
  <1>3. (Steady => StateInv)'
    BY QuietState DEF JobsInv
  <1>4. (~ReusePids /\ ~SysFailures => CountInv)'
    BY QuietCount DEF JobsInv
  <1>5. (Tracked => TruthInv)'
    BY QuietTruth, Conditions DEF JobsInv
  <1> QED
    BY <1>1, <1>2, <1>3, <1>4, <1>5 DEF JobsInv

LEMMA MakeJobKeeps ==
    ASSUME JobsInv, WaitInv', NEW n \in 1 .. MaxPipe, NEW bg \in BOOLEAN, MakeJob(n, bg)
    PROVE  JobsInv'
  <1>1. TableInv' /\ \E j : Makes(j)
    BY MakeJobTable DEF JobsInv
  <1>2. PICK j : Makes(j)
    BY <1>1
  <1>3. (Straight => AwaitInv)'
    BY <1>2, MakeJobAwait DEF JobsInv
  <1>4. (Steady => StateInv)'
    BY <1>2, MakeJobState DEF JobsInv
  <1>5. (~ReusePids /\ ~SysFailures => CountInv)'
    BY <1>2, MakeJobCount DEF JobsInv
  <1>6. (Tracked => TruthInv)'
    BY <1>2, MakeJobTruth DEF JobsInv
  <1> QED
    BY <1>1, <1>3, <1>4, <1>5, <1>6 DEF JobsInv

LEMMA ForkedKeeps ==
    ASSUME JobsInv, WaitInv', NEW p \in Pids, Fork(p)
    PROVE  JobsInv'
  <1>1. \E j : Forked(j, p)
    BY ForkedStep
  <1>2. PICK j : Forked(j, p)
    BY <1>1
  <1>3. TableInv'
    BY <1>2, ForkTable DEF JobsInv
  <1>4. (Straight => AwaitInv)'
    BY <1>2, ForkAwait DEF JobsInv
  <1>5. (Steady => StateInv)'
    BY <1>2, ForkState DEF JobsInv
  <1>6. (~ReusePids /\ ~SysFailures => CountInv)'
    BY <1>2, ForkCount DEF JobsInv
  <1>7. (Tracked => TruthInv)'
    BY <1>2, ForkTruth, Conditions DEF JobsInv
  <1> QED
    BY <1>3, <1>4, <1>5, <1>6, <1>7 DEF JobsInv

LEMMA ForkFailsKeeps ==
    ASSUME JobsInv, WaitInv', ForkFails
    PROVE  JobsInv'
  <1>1. SysFailures /\ \E S : /\ Frees(S)
                              /\ \A p \in Pids : owner'[p] = IF owner[p].job \in S THEN Untracked ELSE owner[p]
    BY ForkFailsFrees DEF JobsInv
  <1>2. PICK S : /\ Frees(S)
                 /\ \A p \in Pids : owner'[p] = IF owner[p].job \in S THEN Untracked ELSE owner[p]
    BY <1>1
  <1>3. TableInv'
    BY <1>2, FreedTable DEF JobsInv
  <1>4. (Straight => AwaitInv)'
    <2>1. Existing \subseteq Pids
      BY DEF Existing
    <2> QED
      BY <1>2, <2>1, FreedAwait DEF JobsInv
  <1>5. (Steady => StateInv)'
    BY <1>2, FreedState DEF JobsInv
  <1>6. (~ReusePids /\ ~SysFailures => CountInv)' /\ (Tracked => TruthInv)'
    BY <1>1, Conditions
  <1> QED
    BY <1>3, <1>4, <1>5, <1>6 DEF JobsInv

LEMMA ForkHereKeeps ==
    ASSUME JobsInv, WaitInv', NEW p \in Pids, ForkHere(p)
    PROVE  JobsInv'
  <1>1. TableInv'
    BY ForkHereStep DEF JobsInv
  <1>2. (Straight => AwaitInv)'
    BY ForkHereAwait DEF JobsInv
  <1>3. (Steady => StateInv)'
    BY ForkHereState DEF JobsInv
  <1>4. (~ReusePids /\ ~SysFailures => CountInv)'
    BY ForkHereCount DEF JobsInv
  <1>5. (Tracked => TruthInv)'
    BY ForkHereTruth, Conditions DEF JobsInv
  <1> QED
    BY <1>1, <1>2, <1>3, <1>4, <1>5 DEF JobsInv

LEMMA FreesDoneKeeps ==
    ASSUME JobsInv, WaitInv', NEW S, FreesDone(S)
    PROVE  JobsInv'
  <1>1. Frees(S)
    BY DEF FreesDone
  <1>2. TableInv' /\ (Steady => StateInv)'
    BY <1>1, FreedTable, FreedState DEF JobsInv
  <1>3. (Straight => AwaitInv)' /\ (~ReusePids /\ ~SysFailures => CountInv)' /\ (Tracked => TruthInv)'
    BY FreedDone DEF JobsInv
  <1> QED
    BY <1>2, <1>3 DEF JobsInv

LEMMA ReapKeeps ==
    ASSUME JobsInv, WaitInv', NEW p \in Pids, Wait3Reaps(p)
    PROVE  JobsInv'
  <1>1. \E j : Reaps(j, p)
    BY DEF Reaps
  <1>2. PICK j : Reaps(j, p)
    BY <1>1
  <1>3. TableInv'
    BY <1>2, ReapTable DEF JobsInv
  <1>4. (Straight => AwaitInv)'
    BY <1>2, ReapAwait DEF JobsInv
  <1>5. (Steady => StateInv)'
    BY <1>2, ReapState DEF JobsInv
  <1>6. (~ReusePids /\ ~SysFailures => CountInv)'
    BY <1>2, ReapCount, Conditions DEF JobsInv
  <1>7. (Tracked => TruthInv)'
    BY <1>2, ReapTruth, Conditions DEF JobsInv
  <1> QED
    BY <1>3, <1>4, <1>5, <1>6, <1>7 DEF JobsInv

LEMMA ResumeKeeps ==
    ASSUME JobsInv, WaitInv', NEW j, Resumes(j)
    PROVE  JobsInv'
  <1>1. TableInv'
    BY ResumedTable DEF JobsInv
  <1>2. (Straight => AwaitInv)'
    BY ResumedAwait DEF JobsInv
  <1>3. (Steady => StateInv)'
    BY ResumedState DEF JobsInv
  <1>4. (~ReusePids /\ ~SysFailures => CountInv)'
    BY ResumedCount DEF JobsInv
  <1>5. (Tracked => TruthInv)'
    BY ResumedTruth DEF JobsInv
  <1> QED
    BY <1>1, <1>2, <1>3, <1>4, <1>5 DEF JobsInv

\* Every step is one of these kinds.
LEMMA StepKinds ==
    ASSUME WaitInv, TableInv, [Next]_vars
    PROVE  \/ Quiet /\ Sound
           \/ \E n \in 1 .. MaxPipe, bg \in BOOLEAN : MakeJob(n, bg)
           \/ \E p \in Pids : Fork(p)
           \/ ForkFails
           \/ \E p \in Pids : ForkHere(p)
           \/ \E S : FreesDone(S)
           \/ \E p \in Pids : Wait3Reaps(p)
           \/ \E j : Resumes(j)
  <1>1. CASE Waitproc
    BY <1>1, QuietWaitproc DEF Waitproc
  <1>2. CASE WaitForJob
    <2>1. CASE pc' = "end" /\ jobtab[cmd.job].state = "DONE" /\ (jobtab[cmd.job].jobctl => jobctl)
      BY <1>2, <2>1, WaitForJobFrees
    <2>2. CASE ~(pc' = "end" /\ jobtab[cmd.job].state = "DONE" /\ (jobtab[cmd.job].jobctl => jobctl))
      BY <1>2, <2>2, QuietWaitForJob
    <2> QED
      BY <2>1, <2>2
  <1>3. CASE ShowJobsLoop
    <2>1. ret > 0 \/ ret <= 0
      BY DEF TableInv, ControlTypes
    <2> QED
      BY <1>3, <2>1, ShowJobsLoopCalls, ShowJobsLoopFrees
  <1>4. CASE Shell
    BY <1>1, <1>2, <1>3, <1>4, QuietEndCommand, QuietPipeFails, QuietHereLoop, QuietWaitAllLoop,
       QuietWaitPidLoop DEF Shell
  <1>5. CASE Command
    BY <1>5, QuietSetJobctl, QuietCommand, QuietWaitPid, ShowJobFrees, FgBgStep DEF Command
  <1>6. CASE Environment /\ UNCHANGED <<jobVars, ctlVars, hist>>
    BY <1>6, QuietEnvironment
  <1>7. CASE UNCHANGED vars
    BY <1>7, QuietStutter
  <1> QED
    BY <1>4, <1>5, <1>6, <1>7 DEF Next

-----------------------------------------------------------------------------
(***************************************************************************)
(* The theorems                                                            *)
(***************************************************************************)

\* The job table, the list of jobs, the processes of each job, the children
\* and the count of children without a job agree after every step of the
\* shell, of a child and of a sender of signals: makejob, forkshell, dowait,
\* waitforjob, freejob, showjobs, restartjob and the failures of fork and pipe.
THEOREM JobsInvariant == Spec => []JobsInv
  <1>1. JobsInv /\ [Next]_vars => JobsInv'
    <2> SUFFICES ASSUME JobsInv, [Next]_vars PROVE JobsInv'
      OBVIOUS
    <2>1. WaitInv /\ TableInv /\ WaitInv'
      BY NextWait DEF JobsInv
    <2> QED
      BY <2>1, StepKinds, QuietKeeps, MakeJobKeeps, ForkedKeeps, ForkFailsKeeps, ForkHereKeeps,
         FreesDoneKeeps, ReapKeeps, ResumeKeeps
  <1> QED
    BY <1>1, InitJobs, PTL DEF Spec

\* A list without repetitions is as long as its set of elements.
LEMMA OnceLength ==
    ASSUME NEW T, NEW s \in Seq(T), Once(s)
    PROVE  IsFiniteSet(ToSet(s)) /\ Cardinality(ToSet(s)) = Len(s)
  <1>1. PICK n \in Nat : n = Len(s) /\ DOMAIN s = 1 .. n
    BY LenProperties
  <1>2. s \in Bijection(1 .. n, ToSet(s))
    <2>1. s \in [1 .. n -> ToSet(s)]
      BY <1>1 DEF ToSet
    <2>2. IsInjective(s)
      BY <1>1 DEF Once, IsInjective
    <2>3. \A e \in ToSet(s) : \E i \in 1 .. n : s[i] = e
      BY <1>1 DEF ToSet
    <2> QED
      BY <2>1, <2>2, <2>3 DEF Bijection, Injection, Surjection
  <1>3. ExistsBijection(1 .. n, ToSet(s))
    BY <1>2 DEF ExistsBijection
  <1> QED
    BY <1>1, <1>3, FS_CountingElements, FS_NatBijection

\* Every variable of the job table and of dowait's callers keeps its type; no
\* job has more processes than its pipeline, and the list never outgrows the
\* table.
THEOREM TypeCorrect == Spec => []TypeOK
  <1>1. JobsInv => TypeOK
    <2> SUFFICES ASSUME JobsInv PROVE TypeOK
      OBVIOUS
    <2>1. WaitInv /\ ControlTypes /\ TableTypes /\ SlotInv /\ ListInv
      BY DEF JobsInv, TableInv
    <2>2. ASSUME NEW j \in Slots
          PROVE  jobtab[j].ps \in BoundedSeq(Procs, MaxPipe)
      <3>1. jobtab[j] \in Job
        BY <2>1 DEF TableTypes
      <3>2. jobtab[j].ps \in Seq(Procs)
        BY <3>1 DEF Job, Procs
      <3>3. PICK n \in Nat : n = Len(jobtab[j].ps) /\ jobtab[j].ps \in [1 .. n -> Procs]
        BY <3>2, LenProperties
      <3>4. n \in 0 .. MaxPipe
        BY <3>3, <2>1, JobsAssumption DEF SlotInv
      <3> QED
        BY <3>3, <3>4 DEF BoundedSeq, SeqOf
    <2>3. jobtab \in [Slots -> [used : BOOLEAN, state : {"RUNNING", "STOPPED", "DONE"},
                            ps : BoundedSeq(Procs, MaxPipe),
                            waited : BOOLEAN, changed : BOOLEAN, jobctl : BOOLEAN]]
      BY <2>1, <2>2 DEF TableTypes, Job
    <2>4. curjob \in BoundedSeq(Slots, MaxJobs)
      <3>1. curjob \in Seq(Slots) /\ Once(curjob) /\ ToSet(curjob) \subseteq Slots
        BY <2>1 DEF TableTypes, ListInv, Used
      <3>2. PICK n \in Nat : n = Len(curjob) /\ curjob \in [1 .. n -> Slots]
        BY <3>1, LenProperties
      <3>3. Cardinality(ToSet(curjob)) = n
        BY <3>1, <3>2, OnceLength
      <3>4. IsFiniteSet(Slots) /\ Cardinality(Slots) = MaxJobs
        BY JobsAssumption, FS_Interval DEF Slots
      <3>5. n <= MaxJobs
        BY <3>1, <3>3, <3>4, FS_Subset
      <3>6. n \in 0 .. MaxJobs
        BY <3>2, <3>5, JobsAssumption
      <3> QED
        BY <3>2, <3>6 DEF BoundedSeq, SeqOf
    <2>5. jobctl \in BOOLEAN
      BY <2>1, JobsAssumption DEF ControlTypes
    <2> QED
      BY <2>1, <2>3, <2>4, <2>5 DEF TypeOK, WaitInv, ControlTypes, TableTypes, Procs
  <1> QED
    BY <1>1, JobsInvariant, PTL

\* The list has exactly the jobs in use, each once, and a job's state is the
\* one its processes add up to, however stops, exits, fg, bg, wait and jobs
\* interleave; fg must not meet a job of set -m after set +m (restartjob stores
\* the new state before xtcsetpgrp fails, see the README).
THEOREM TableStaysConsistent ==
    ASSUME Steady
    PROVE  Spec => []JobTableConsistent
  <1>1. JobsInv => JobTableConsistent
    <2> SUFFICES ASSUME JobsInv PROVE JobTableConsistent
      OBVIOUS
    <2>1. ToSet(curjob) = Used /\ Once(curjob) /\ curjob \in Seq(Slots)
      BY DEF JobsInv, TableInv, ListInv, TableTypes
    <2>2. Cardinality(Used) = Len(curjob)
      BY <2>1, OnceLength
    <2> QED
      BY <2>1, <2>2 DEF JobsInv, StateInv, JobTableConsistent
  <1> QED
    BY <1>1, JobsInvariant, PTL

\* Between commands jobless is the number of children without a job that were
\* not reaped: forkparent counts one after dowait's poll, and dowait counts it
\* off.  A reused pid, or a fork that fails after others of its pipeline did
\* not, leaves a child without a job that nobody counted.
THEOREM JoblessCounts ==
    ASSUME ~ReusePids, ~SysFailures
    PROVE  Spec => []JoblessExact
  <1>1. JobsInv => JoblessExact
    <2> SUFFICES ASSUME JobsInv, pc = "eval"
                 PROVE  jobless = Cardinality(Orphans)
      BY DEF JoblessExact, Orphans
    <2>1. Writer = 0 /\ jobless \in Int
      BY DEF Writer, Inside, JobsInv, TableInv, ControlTypes
    <2>2. jobless + Writer = Cardinality(Orphans)
      BY DEF JobsInv, CountInv
    <2>3. jobless + 0 = jobless
      BY <2>1
    <2> QED
      BY <2>1, <2>2, <2>3
  <1> QED
    BY <1>1, JobsInvariant, PTL

\* Every child that was not reaped is awaited in the job it was forked for, and
\* in no other: dowait credits a status to the right job, though the kernel
\* hands out pids again, if then no stop and no bg brings an older job of the
\* same pid to the front of the list.
THEOREM StatusNeverLost ==
    ASSUME Straight
    PROVE  Spec => []NoStatusLost
  <1>1. JobsInv => NoStatusLost
    BY DEF JobsInv, AwaitInv
  <1> QED
    BY <1>1, JobsInvariant, PTL

\* The loops around dowait are left by a step of their own only.
LEMMA LoopSteps ==
    ASSUME Next, pc = "loop", pc' = "end"
    PROVE  WaitForJob \/ HereLoop \/ WaitAllLoop \/ WaitPidLoop \/ ShowJobsLoop
  <1>1. ~Command
    BY DEF Command, SetJobctl, MakeJob, ForkHere, WaitAll, WaitPid, WaitJob, ShowJobs, ShowJob,
           FgBg, Idle
  <1>2. ~UNCHANGED <<jobVars, ctlVars, hist>>
    BY DEF ctlVars
  <1>3. ~Waitproc
    BY DEF Waitproc, ClearFlag, Wait3Reaps, Wait3Empty, MaskSignals, Suspend, Wake, UnmaskSignals
  <1>4. ~EndCommand /\ ~ForkFails /\ ~PipeFails /\ \A p \in Pids : ~Fork(p)
    BY DEF EndCommand, ForkFails, PipeFails, Fork
  <1> QED
    BY <1>1, <1>2, <1>3, <1>4 DEF Next, Shell

\* wait without an operand returns 0 only when every child of a job was reaped,
\* but for jobs known to be stopped: its loop looks for a running job again
\* after every dowait.  (Straight: as for StatusNeverLost.)
THEOREM WaitWaitsForAll ==
    ASSUME Straight
    PROVE  Spec => WaitAllWaits
  <1>1. JobsInv /\ [Next]_vars =>
        [At("wait") /\ pc' = "end" /\ result' = 0 =>
           \A p \in Existing : owner[p] # Untracked => jobtab[owner[p].job].state = "STOPPED"]_vars
    <2> SUFFICES ASSUME JobsInv, Next, At("wait"), pc' = "end", result' = 0,
                        NEW p \in Existing, owner[p] # Untracked
                 PROVE  jobtab[owner[p].job].state = "STOPPED"
      BY DEF WaitAllWaits
    <2>1. WaitInv /\ TableInv /\ AwaitInv
      BY DEF JobsInv
    <2>2. WaitAllLoop
      BY LoopSteps DEF At, WaitForJob, HereLoop, WaitPidLoop, ShowJobsLoop
    <2>3. FirstRunning = 0
      <3>1. pendingsigs \in Nat
        BY <2>1, ProcessesAssumption DEF WaitInv, ProcessesTypeOK
      <3>2. 128 + pendingsigs # 0
        BY <3>1
      <3>3. ~SigOut
        BY <3>2 DEF SigOut, Finish
      <3> QED
        BY <2>2, <3>3 DEF WaitAllLoop, CallDowait
    <2> DEFINE j == owner[p].job
    <2>4. j \in Used /\ j \in Slots
      <3>1. j # 0
        BY <2>1 DEF AwaitInv
      <3> QED
        BY <2>1, <3>1 DEF AwaitInv, NoStatusLost, OwnersInUse, Used
    <2>5. jobtab[j].state # "RUNNING"
      <3>1. curjob \in Seq(Slots) /\ j \in ToSet(curjob)
        BY <2>1, <2>4 DEF TableInv, TableTypes, ListInv
      <3>2. 0 \notin 1 .. Len(curjob)
        BY <3>1, LenProperties
      <3> QED
        BY <2>3, <3>1, <3>2, FirstRunningFound
    <2>6. jobtab[j].state # "DONE"
      BY <2>1, <2>4, DoneAwaitsNone
    <2>7. jobtab[j].state \in {"RUNNING", "STOPPED", "DONE"}
      BY <2>1, <2>4 DEF TableInv, TableTypes, Job
    <2> QED
      BY <2>5, <2>6, <2>7
  <1> QED
    BY <1>1, JobsInvariant, PTL DEF Spec, WaitAllWaits

\* What a foreground command, fg or wait reports of a job that is done is what
\* the last process of its pipeline ended with, in whatever order the processes
\* ended and were reaped, if no fork or pipe fails, and if where the kernel hands
\* out pids again there are no stops, no bg and no here documents.
THEOREM StatusIsTheLast ==
    ASSUME Tracked
    PROVE  Spec => StatusIsLastProcess
  <1>1. JobsInv /\ [Next]_vars =>
        [\A j \in Used :
          /\ cmd.job = j /\ (At("run") \/ At("fg") \/ At("waitpid"))
          /\ pc' = "end" /\ jobtab[j].state = "DONE"
          /\ jobtab[j].jobctl => jobctl
          => result' = truth[j]]_vars
    <2> SUFFICES ASSUME JobsInv, Next, NEW j \in Used, cmd.job = j,
                        At("run") \/ At("fg") \/ At("waitpid"),
                        pc' = "end", jobtab[j].state = "DONE", jobtab[j].jobctl => jobctl
                 PROVE  result' = truth[j]
      OBVIOUS
    <2>1. TableInv /\ TruthInv /\ j \in Slots
      BY DEF JobsInv, Used
    <2>2. WaitForJob \/ WaitPidLoop
      BY LoopSteps DEF At, HereLoop, WaitAllLoop, ShowJobsLoop
    <2>3. result' = GetStatus(j)
      BY <2>2 DEF WaitForJob, WaitPidLoop, Finish, Error, CallDowait
    <2>4. jobtab[j].ps # <<>> /\ jobtab[j].ps \in Seq(Procs)
      BY <2>1 DEF TableInv, TableTypes, SlotInv, Job, Procs
    <2>5. PICK n \in Nat : n = Len(jobtab[j].ps) /\ n # 0 /\ DOMAIN jobtab[j].ps = 1 .. n
      BY <2>4, EmptySeq, LenProperties
    <2>6. n \in DOMAIN jobtab[j].ps
      BY <2>5
    <2>7. jobtab[j].ps[n].status \in Finals
      BY <2>1, <2>6 DEF TableInv, SlotInv
    <2>8. ~Forks(j)
      BY DEF Forks, At
    <2>9. truth[j] = jobtab[j].ps[n].status
      BY <2>1, <2>4, <2>5, <2>7, <2>8 DEF TruthInv
    <2> QED
      BY <2>3, <2>5, <2>9 DEF GetStatus, LastPs
  <1> QED
    BY <1>1, JobsInvariant, PTL DEF Spec, StatusIsLastProcess

\* A job keeps its slot and its processes.
Stays(j) == jobtab'[j].used /\ ~(Len(jobtab'[j].ps) < Len(jobtab[j].ps))

\* A reason for a job to leave the table.
Asked(j) ==
    \/ At("jobs")
    \/ pc = "eval" /\ pc' = "end" /\ jobtab[j].state = "DONE"
    \/ j = cmd.job /\ (At("run") \/ At("fg") \/ pc = "fork")

LEMMA SameStays ==
    ASSUME TableInv, NEW j \in Used, jobtab'[j].used = jobtab[j].used,
           Len(jobtab'[j].ps) = Len(jobtab[j].ps)
    PROVE  Stays(j)
  <1>1. jobtab[j].used /\ jobtab[j].ps \in Seq(Procs)
    BY DEF Used, TableInv, TableTypes, Job, Procs
  <1>2. PICK n \in Nat : n = Len(jobtab[j].ps)
    BY <1>1, LenProperties
  <1> QED
    BY <1>1, <1>2 DEF Stays

LEMMA QuietStays ==
    ASSUME TableInv, NEW j \in Used, Quiet
    PROVE  Stays(j)
  BY SameStays DEF Quiet, SameJobs, Used

\* fork adds a process to the job, and leaves the others alone.
LEMMA ForkStays ==
    ASSUME WaitInv, TableInv, NEW j \in Used, NEW p \in Pids, Fork(p)
    PROVE  Stays(j) \/ Asked(j)
  <1>1. CASE j = cmd.job
    BY <1>1 DEF Fork, Asked
  <1>2. CASE j # cmd.job
    <2>1. jobtab'[j] = jobtab[j]
      <3>1. \A k \in Slots : k # cmd.job => jobtab'[k] = jobtab[k]
        BY ForkedStep, ForkedJob
      <3> QED
        BY <1>2, <3>1 DEF Used
    <2> QED
      BY <2>1, SameStays
  <1> QED
    BY <1>1, <1>2

\* A job that was not waited for loses no slot to a new one.
LEMMA MakeJobStays ==
    ASSUME TableInv, NEW j \in Used, ~jobtab[j].waited,
           NEW n \in 1 .. MaxPipe, NEW bg \in BOOLEAN, MakeJob(n, bg)
    PROVE  Stays(j)
  <1>1. Makes(MakeJobSlot)
    BY MakeJobTable
  <1>2. j # MakeJobSlot /\ j \in Slots
    BY <1>1 DEF Makes, Used
  <1>3. jobtab'[j] = jobtab[j]
    BY <1>1, <1>2, MadeJob
  <1> QED
    BY <1>3, SameStays

\* dowait changes neither.
LEMMA ReapStays ==
    ASSUME WaitInv, TableInv, NEW j \in Used, NEW p \in Pids, Wait3Reaps(p)
    PROVE  Stays(j)
  <1>1. PICK k : k = JobOf(p)
    OBVIOUS
  <1>2. Reaps(k, p)
    BY <1>1 DEF Reaps
  <1>3. CASE k = 0
    <2>1. jobtab' = jobtab
      BY <1>1, <1>3 DEF Wait3Reaps, RecordStatus
    <2> QED
      BY <2>1, SameStays
  <1>4. CASE k # 0
    <2>1. Report(p) \in Finals \cup {Stopped}
      BY <1>2, ReapedChild
    <2>2. /\ \A i \in Slots : i # k => jobtab'[i] = jobtab[i]
          /\ jobtab'[k].used = jobtab[k].used /\ Len(jobtab'[k].ps) = Len(jobtab[k].ps)
      BY <1>2, <1>4, <2>1, ReapedJob
    <2>3. jobtab'[j].used = jobtab[j].used /\ Len(jobtab'[j].ps) = Len(jobtab[j].ps)
      BY <2>2 DEF Used
    <2> QED
      BY <2>3, SameStays
  <1> QED
    BY <1>3, <1>4

\* Nor do fg and bg.
LEMMA ResumeStays ==
    ASSUME TableInv, NEW j \in Used, NEW k, Resumes(k)
    PROVE  Stays(j)
  <1>1. jobtab'[j].used = jobtab[j].used /\ Len(jobtab'[j].ps) = Len(jobtab[j].ps)
    BY DEF Resumes, Used
  <1> QED
    BY <1>1, SameStays

\* Other jobs stay when one is freed.
LEMMA FreeStays ==
    ASSUME TableInv, NEW j \in Used, NEW S, Frees(S), j \notin S
    PROVE  Stays(j)
  <1>1. j \in Slots \ S
    BY DEF Used
  <1> QED
    BY <1>1, SameStays DEF Frees

\* jobs %job frees it if it is done.
LEMMA ShowJobStays ==
    ASSUME TableInv, NEW j \in Used, NEW k \in Operands, ShowJob(k)
    PROVE  Stays(j) \/ Asked(j)
  <1>1. CASE k = NoSuchJob
    <2>1. jobtab' = jobtab
      BY <1>1 DEF ShowJob
    <2> QED
      BY <2>1, SameStays
  <1>2. CASE k # NoSuchJob
    <2>1. pc = "eval" /\ pc' = "end" /\ jobtab' = ShownTab({k})
      BY <1>2 DEF ShowJob, Idle, Finish
    <2>2. CASE jobtab[j].state = "DONE"
      BY <2>1, <2>2 DEF Asked
    <2>3. CASE jobtab[j].state # "DONE"
      <3>1. j \in Slots /\ jobtab \in [Slots -> Job]
        BY DEF Used, TableInv, TableTypes
      <3>2. jobtab'[j] = IF j \in {k} THEN [jobtab[j] EXCEPT !.changed = FALSE] ELSE jobtab[j]
        BY <2>1, <2>3, <3>1 DEF ShownTab, Freed
      <3>3. jobtab'[j].used = jobtab[j].used /\ jobtab'[j].ps = jobtab[j].ps
        BY <3>1, <3>2 DEF Job
      <3> QED
        BY <3>3, SameStays
    <2> QED
      BY <2>2, <2>3
  <1> QED
    BY <1>1, <1>2

LEMMA StaysOrAsked ==
    ASSUME WaitInv, TableInv, Next, NEW j \in Used, ~jobtab[j].waited
    PROVE  Stays(j) \/ Asked(j)
  <1>1. CASE Waitproc
    BY <1>1, QuietWaitproc, QuietStays, ReapStays DEF Waitproc
  <1>2. CASE WaitForJob
    <2>1. CASE j = cmd.job
      BY <1>2, <2>1 DEF WaitForJob, Asked
    <2>2. CASE j # cmd.job
      <3>1. (Quiet /\ Sound) \/ FreesDone({cmd.job})
        BY <1>2, WaitForJobFrees, QuietWaitForJob
      <3> QED
        BY <2>2, <3>1, QuietStays, FreeStays DEF FreesDone
    <2> QED
      BY <2>1, <2>2
  <1>3. CASE ShowJobsLoop
    BY <1>3 DEF ShowJobsLoop, Asked
  <1>4. CASE ForkFails
    <2>1. CASE j = cmd.job
      BY <1>4, <2>1 DEF ForkFails, Asked
    <2>2. CASE j # cmd.job
      BY <1>4, <2>2, ForkFailsFrees, FreeStays
    <2> QED
      BY <2>1, <2>2
  <1>5. CASE Shell
    BY <1>1, <1>2, <1>3, <1>4, <1>5, ForkStays, QuietStays, QuietEndCommand, QuietPipeFails,
       QuietHereLoop, QuietWaitAllLoop, QuietWaitPidLoop DEF Shell
  <1>6. ASSUME NEW p \in Pids, ForkHere(p)
        PROVE  Stays(j)
    BY <1>6, ForkHereStep, SameStays
  <1>7. CASE Command
    BY <1>6, <1>7, MakeJobStays, QuietSetJobctl, QuietCommand, QuietWaitPid, ShowJobStays,
       FgBgStep, QuietStays, ResumeStays DEF Command
  <1>8. CASE Environment /\ UNCHANGED <<jobVars, ctlVars, hist>>
    BY <1>8, QuietEnvironment, QuietStays
  <1> QED
    BY <1>5, <1>7, <1>8 DEF Next

\* A job nobody waited for leaves the table only when it is shown to the user
\* as done, or by the foreground command it is the job of, or when fork fails:
\* makejob, freejob, dowait, fg and bg keep every other one.
THEOREM UnaskedStay == Spec => UnaskedKept
  <1>1. JobsInv /\ [Next]_vars =>
        [\A j \in Used :
          ~jobtab[j].waited /\ (~jobtab'[j].used \/ Len(jobtab'[j].ps) < Len(jobtab[j].ps))
          => \/ At("jobs")
             \/ pc = "eval" /\ pc' = "end" /\ jobtab[j].state = "DONE"
             \/ j = cmd.job /\ (At("run") \/ At("fg") \/ pc = "fork")]_vars
    BY StaysOrAsked DEF JobsInv, Stays, Asked
  <1> QED
    BY <1>1, JobsInvariant, PTL DEF Spec, UnaskedKept
=============================================================================
