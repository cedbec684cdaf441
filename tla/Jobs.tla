-------------------------------- MODULE Jobs --------------------------------
(***************************************************************************)
(* Job control of mkdash (mkdash/jobs.c): the job table, the list of jobs  *)
(* that starts at curjob, forkshell, dowait/waitproc and the builtins      *)
(* wait, jobs, fg, bg and set -m, interleaved with the children and the    *)
(* signals of Processes.                                                   *)
(*                                                                         *)
(* pc is where the shell is: "eval" between commands, "fork" inside        *)
(* evalpipe or evalsubshell, "loop" at the head of a loop around dowait,   *)
(* "clear".."suspend" inside waitproc, "end" after a command.              *)
(***************************************************************************)
EXTENDS Processes, Lists, Sequences, SequencesExt

CONSTANTS
    MaxJobs,      \* bound: slots the job table may grow to
    GrowBy,       \* slots growjobtab adds (4 in the code)
    MaxPipe,      \* bound: processes of one pipeline
    JobControl,   \* the values set -m / set +m may give jobctl
    SysFailures,  \* may fork and pipe fail?
    Commands      \* the commands the shell is given

ASSUME JobsAssumption ==
    /\ MaxJobs \in Nat \ {0} /\ GrowBy \in Nat \ {0} /\ MaxPipe \in Nat \ {0}
    /\ JobControl \subseteq BOOLEAN /\ JobControl # {}
    /\ SysFailures \in BOOLEAN
    /\ Commands \subseteq {"run", "here", "wait", "waitpid", "waitjob",
                           "jobs", "showjob", "fg", "bg", "set"}

VARIABLES
    jobtab,      \* slot -> job; a slot above njobs is not allocated
    njobs,       \* allocated slots
    curjob,      \* the list curjob, prev_job, ... as a sequence of slots
    jobless,     \* presumed living untracked children
    jobctl,      \* set -m is in force
    result,      \* what the command stores in $?, or Kept
    raised,      \* waitforjob sent the shell a SIGINT not yet acted upon
    pc,          \* control
    cmd,         \* the command being run and its locals
    ret,         \* what the last dowait returned, as its sign
    owner,       \* history: the job a child not yet reaped was forked for
    truth        \* history: what the last process of a slot's job ended with

jobVars == <<jobtab, njobs, curjob, jobless, jobctl>>
ctlVars == <<result, raised, pc, cmd, ret>>
hist    == <<owner, truth>>
vars    == <<procVars, jobVars, ctlVars, hist>>

Slots == 1 .. MaxJobs
Kept  == -1

\* owner: the slot of a child's job, and whether it is the last of its pipeline.
Owned(j, last) == [job |-> j, last |-> last]
Untracked      == Owned(0, FALSE)
Job   == [used : BOOLEAN, state : {"RUNNING", "STOPPED", "DONE"},
          ps : Seq([pid : Pids, status : Finals \cup {Live, Stopped}]),
          waited : BOOLEAN, changed : BOOLEAN, jobctl : BOOLEAN]
FreshJob(on, ctl) == [used |-> on, state |-> "RUNNING", ps |-> <<>>,
                      waited |-> FALSE, changed |-> FALSE, jobctl |-> ctl]

\* op: the command; job: its job; left: processes still to fork; bg: with &;
\* block: waitproc's block flag; mode: of showjobs.
NoCommand == [op |-> "none", job |-> 0, left |-> 0, bg |-> FALSE,
              block |-> FALSE, mode |-> "all"]

Init ==
    /\ ProcessesInit
    /\ jobtab = [j \in Slots |-> FreshJob(FALSE, FALSE)]
    /\ njobs = 0
    /\ curjob = <<>>
    /\ jobless = 0
    /\ jobctl \in JobControl
    /\ result = Kept
    /\ raised = FALSE
    /\ pc = "eval"
    /\ cmd = NoCommand
    /\ ret = 1
    /\ owner = [p \in Pids |-> Untracked]
    /\ truth = [j \in Slots |-> Live]

(***************************************************************************)
(* The job list                                                            *)
(***************************************************************************)

Unlinked(list, j) == Without(list, {j})

\* Number of jobs before the first one of the list that is not stopped.
StoppedPrefix(list, tab) ==
    LET first == SelectInSeq(list, LAMBDA k : tab[k].state # "STOPPED")
    IN  IF first = 0 THEN Len(list) ELSE first - 1

\* set_curjob(jp, CUR_RUNNING), CUR_STOPPED and CUR_DELETE.
SetRunning(list, tab, j) ==
    LET rest == Unlinked(list, j)
    IN  InsertAt(rest, StoppedPrefix(rest, tab) + 1, j)
\* Mutant of SetStopped: the job is not taken off the list first.
SetStoppedTwice(list, j) == <<j>> \o list
SetStopped(list, j) == <<j>> \o Unlinked(list, j)
SetDeleted(list, j) == Unlinked(list, j)

\* freejob on a set of slots.  (The code leaves the other fields of a free
\* slot as they are and clears them all when makejob takes it.)
Freed(tab, S) == [j \in Slots |-> IF j \in S THEN FreshJob(FALSE, FALSE) ELSE tab[j]]

LastPs(j) == jobtab[j].ps[Len(jobtab[j].ps)]
\* Mutant of GetStatus: the first process instead of the last.
GetStatusOfFirst(j) == jobtab[j].ps[1].status
\* getstatus decodes the status of the job's last process.
GetStatus(j) == LastPs(j).status

\* getjob("%num"): a number below njobs names a slot, any other one is tried
\* as the text of a command, which no command here starts with.
NoSuchJob == 0
GetJobNumber(num) ==
    IF num < njobs /\ jobtab[num].used THEN num ELSE NoSuchJob

\* stoppedjobs, job_warning being 0.
StoppedJobs == curjob # <<>> /\ jobtab[Head(curjob)].state = "STOPPED"

(***************************************************************************)
(* Starting and ending a command                                           *)
(***************************************************************************)

Idle(c) == pc = "eval" /\ c \in Commands

Finish(status) ==
    /\ pc' = "end"
    /\ result' = status

\* sh_error: exit status 2, back to the command loop.
Error == Finish(2)

\* The end of evaltree: pending traps run (Trap models dotrap); a SIGINT the
\* shell sent itself throws EXINT back to the command loop.
EndCommand ==
    /\ pc = "end"
    /\ pc' = "eval"
    /\ pendingsigs' = 0
    /\ raised' = FALSE
    /\ result' = Kept
    /\ cmd' = NoCommand
    /\ ret' = 1
    /\ truth' = [j \in Slots |-> IF jobtab[j].used THEN truth[j] ELSE Live]
    /\ UNCHANGED <<proc, masked, sigpend, gotsigchld, jobVars, owner>>

\* set -m and set +m.
SetJobctl ==
    /\ Idle("set")
    /\ jobctl' \in JobControl \ {jobctl}
    /\ UNCHANGED <<procVars, jobtab, njobs, curjob, jobless, 
                   ctlVars, hist>>

(***************************************************************************)
(* Running a command, a pipeline or a subshell                             *)
(***************************************************************************)

\* Mutant of Reusable: forgets to look at waited.
ReusableUnwaited(j) ==
    \/ ~jobtab[j].used
    \/ jobtab[j].state = "DONE" /\ ~jobctl
\* The slot makejob takes: the first unused one, or without job control the
\* first whose job is done and waited for, or a new one.
Reusable(j) ==
    \/ ~jobtab[j].used
    \/ jobtab[j].state = "DONE" /\ jobtab[j].waited /\ ~jobctl
MakeJobSlot ==
    IF \E j \in 1 .. njobs : Reusable(j)
    THEN CHOOSE j \in 1 .. njobs :
            Reusable(j) /\ \A k \in 1 .. j - 1 : ~Reusable(k)
    ELSE njobs + 1

MakeJob(n, bg) ==
    LET j == MakeJobSlot IN
    /\ Idle("run")
    /\ j <= njobs \/ njobs + GrowBy <= MaxJobs   \* bound
    /\ n <= Cardinality(Forkable)                \* bound
    /\ njobs' = IF j <= njobs THEN njobs ELSE njobs + GrowBy
    /\ jobtab' = [jobtab EXCEPT ![j] = FreshJob(TRUE, jobctl)]
    /\ curjob' = SetStopped(curjob, j)
    /\ pc' = "fork"
    /\ cmd' = [NoCommand EXCEPT !.op = "run", !.job = j, !.left = n, !.bg = bg]
    /\ truth' = [truth EXCEPT ![j] = Live]
    /\ UNCHANGED <<procVars, jobless, jobctl, result, raised, ret, owner>>

\* forkshell and forkparent.  A pipeline in the background keeps $?.
Fork(p) ==
    LET j == cmd.job IN
    /\ pc = "fork"
    /\ p \in Forkable
    /\ proc' = [proc EXCEPT ![p] = Process("running", FALSE, Live)]
    /\ owner' = [owner EXCEPT ![p] = Owned(j, cmd.left = 1)]
    /\ jobtab' = [jobtab EXCEPT
                    ![j].ps = Append(@, [pid |-> p, status |-> Live])]
    /\ curjob' = IF cmd.bg THEN SetRunning(curjob, jobtab, j) ELSE curjob
    /\ cmd' = [cmd EXCEPT !.left = @ - 1]
    /\ pc' = IF cmd.left > 1 THEN "fork" ELSE IF cmd.bg THEN "end" ELSE "loop"
    /\ result' = IF cmd.bg /\ cmd.left = 1 /\ jobtab[j].ps = <<>> THEN 0 ELSE Kept
    /\ UNCHANGED <<masked, sigpend, gotsigchld, pendingsigs, njobs, jobless,
                   jobctl, raised, ret, truth>>

\* fork fails: the job is freed, with the processes it already has.
ForkFails ==
    /\ pc = "fork" /\ SysFailures
    /\ jobtab' = Freed(jobtab, {cmd.job})
    /\ curjob' = SetDeleted(curjob, cmd.job)
    /\ owner' = [p \in Pids |-> IF owner[p].job = cmd.job THEN Untracked
                                                         ELSE owner[p]]
    /\ Error
    /\ UNCHANGED <<procVars, njobs, jobless, jobctl, raised, cmd, ret, truth>>

\* pipe fails before a process that is not the last: the job stays.
PipeFails ==
    /\ pc = "fork" /\ SysFailures
    /\ cmd.left > 1
    /\ Error
    /\ UNCHANGED <<procVars, jobVars, raised, cmd, ret, hist>>

\* openhere: a child without a job writes the document.
ForkHere(p) ==
    /\ Idle("here")
    /\ p \in Forkable
    /\ proc' = [proc EXCEPT ![p] = Process("running", FALSE, Live)]
    /\ owner' = [owner EXCEPT ![p] = Untracked]
    /\ pc' = "loop"
    /\ cmd' = [NoCommand EXCEPT !.op = "here"]
    /\ UNCHANGED <<masked, sigpend, gotsigchld, pendingsigs, jobVars,
                   result, raised, ret, truth>>

(***************************************************************************)
(* waitproc and dowait                                                     *)
(***************************************************************************)

\* DOWAIT_BLOCK waits inside wait3; DOWAIT_WAITCMD polls and sleeps in
\* sigsuspend; DOWAIT_NORMAL only polls.
InKernel == cmd.op \in {"run", "fg"}

CallDowait(block) ==
    /\ pc' = "clear"
    /\ cmd' = [cmd EXCEPT !.block = block]

\* gotsigchld = 0
ClearFlag ==
    /\ pc = "clear"
    /\ gotsigchld' = FALSE
    /\ pc' = "wait3"
    /\ UNCHANGED <<proc, masked, sigpend, pendingsigs, jobVars, result,
                   raised, cmd, ret, hist>>

NewState(ps) ==
    LET has(c) == \E i \in DOMAIN ps : ps[i].status = c
    IN  IF has(Live) THEN "RUNNING" ELSE IF has(Stopped) THEN "STOPPED" ELSE "DONE"

HasPid(j, p) == \E i \in DOMAIN jobtab[j].ps : jobtab[j].ps[i].pid = p

\* Mutant of JobOf: the list is searched from its end.
JobOfOldest(p) ==
    LET i == SelectLastInSeq(curjob, LAMBDA k : jobtab[k].state # "DONE" /\ HasPid(k, p))
    IN  IF i = 0 THEN 0 ELSE curjob[i]
\* The first job of the list that is not done and has the process, or 0.
JobOf(p) ==
    LET i == SelectInSeq(curjob, LAMBDA k : jobtab[k].state # "DONE" /\ HasPid(k, p))
    IN  IF i = 0 THEN 0 ELSE curjob[i]

\* Mutant of Untrack: a stop counts as an end.
UntrackStopped(c) == jobless - 1
\* jobless after status c of a child no job has.
Untrack(c) == IF c = Stopped THEN jobless ELSE jobless - 1

\* What dowait makes of status c of process p.
RecordStatus(p, c) ==
    LET j     == JobOf(p)
        ps    == [i \in DOMAIN jobtab[j].ps |->
                    IF jobtab[j].ps[i].pid = p THEN [pid |-> p, status |-> c]
                                               ELSE jobtab[j].ps[i]]
        state == NewState(ps)
    IN  IF j = 0
        THEN /\ jobless' = Untrack(c)
             /\ UNCHANGED <<jobtab, curjob>>
        ELSE /\ jobtab' = [jobtab EXCEPT
                    ![j].ps = ps,
                    ![j].changed = @ \/ state # "RUNNING",
                    ![j].state = IF state = "RUNNING" THEN @ ELSE state]
             /\ curjob' = IF state = "STOPPED" /\ jobtab[j].state # state
                          THEN SetStopped(curjob, j) ELSE curjob
             /\ UNCHANGED jobless

\* wait3 reports a child and dowait records it.
Wait3Reaps(p) ==
    /\ pc = "wait3"
    /\ Waitable(p, jobctl)
    /\ Collect(p)
    /\ IF proc[p].st = "zombie"
       THEN /\ owner' = [owner EXCEPT ![p] = Untracked]
            /\ truth' = [j \in Slots |-> IF owner[p] = Owned(j, TRUE) THEN Report(p)
                                                                    ELSE truth[j]]
       ELSE UNCHANGED hist
    /\ RecordStatus(p, Report(p))
    /\ pc' = "loop"
    /\ ret' = 1
    /\ UNCHANGED <<masked, sigpend, gotsigchld, pendingsigs, njobs, 
                   jobctl, result, raised, cmd>>

\* Mutant of Wait3Empty: sleeps although there is no child left.
Wait3EmptySleeps ==
    /\ pc = "wait3"
    /\ ~ \E p \in Pids : Waitable(p, jobctl)
    /\ pc' = IF cmd.block THEN "mask" ELSE "loop"
    /\ ret' = IF cmd.block THEN ret ELSE 0
    /\ UNCHANGED <<procVars, jobVars, result, raised, cmd, hist>>
\* wait3 fails with ECHILD, or has nothing to report and must not wait.
\* (In the kernel it waits on; EINTR makes waitforjob just call it again.)
Wait3Empty ==
    /\ pc = "wait3"
    /\ ~ \E p \in Pids : Waitable(p, jobctl)
    /\ \/ /\ Existing = {}
          /\ pc' = "loop" /\ ret' = -1
       \/ /\ Existing # {} /\ ~InKernel
          /\ IF cmd.block THEN pc' = "mask" /\ ret' = ret
                          ELSE pc' = "loop" /\ ret' = 0
    /\ UNCHANGED <<procVars, jobVars, result, raised, cmd, hist>>

\* Mutant of MaskSignals: signals stay unblocked up to sigsuspend.
MaskNoSignals ==
    /\ pc = "mask"
    /\ cmd' = [cmd EXCEPT !.block = FALSE]
    /\ pc' = "test"
    /\ UNCHANGED <<procVars, jobVars, result, raised, ret, hist>>
\* block = 0; sigprocmask(SIG_SETMASK, all)
MaskSignals ==
    /\ pc = "mask"
    /\ masked' = TRUE
    /\ cmd' = [cmd EXCEPT !.block = FALSE]
    /\ pc' = "test"
    /\ UNCHANGED <<proc, sigpend, gotsigchld, pendingsigs, jobVars, result,
                   raised, ret, hist>>

\* while (!gotsigchld && !pendingsigs) sigsuspend(...)
Suspend ==
    /\ pc = "test"
    /\ ~gotsigchld /\ pendingsigs = 0
    /\ pc' = "suspend"
    /\ UNCHANGED <<procVars, jobVars, result, raised, cmd, ret, hist>>

\* sigsuspend returns once the handlers of the pending signals have run.
Wake ==
    /\ pc = "suspend"
    /\ sigpend # {}
    /\ Onsig(sigpend)
    /\ sigpend' = {}
    /\ pc' = "test"
    /\ UNCHANGED <<proc, masked, jobVars, result, raised, cmd, ret, hist>>

\* sigclearmask; while (gotsigchld)
UnmaskSignals ==
    /\ pc = "test"
    /\ gotsigchld \/ pendingsigs # 0
    /\ masked' = FALSE
    /\ Onsig(sigpend)
    /\ sigpend' = {}
    /\ IF gotsigchld' THEN pc' = "clear" /\ ret' = ret
                      ELSE pc' = "loop" /\ ret' = 0
    /\ UNCHANGED <<proc, jobVars, result, raised, cmd, hist>>

Waitproc ==
    \/ ClearFlag
    \/ \E p \in Pids : Wait3Reaps(p)
    \/ Wait3Empty
    \/ MaskSignals
    \/ Suspend
    \/ Wake
    \/ UnmaskSignals

(***************************************************************************)
(* The callers of dowait                                                   *)
(***************************************************************************)

At(op) == pc = "loop" /\ cmd.op = op

\* waitforjob, for a command in the foreground and for fg.
WaitForJob ==
    LET j == cmd.job
        job == jobtab[j]
    IN
    /\ At("run") \/ At("fg")
    /\ IF job.state = "RUNNING"
       THEN /\ CallDowait(TRUE)
            /\ UNCHANGED <<jobtab, curjob, result, raised>>
       ELSE IF job.jobctl /\ ~jobctl  \* xtcsetpgrp fails: no terminal
       THEN /\ Error
            /\ UNCHANGED <<jobtab, curjob, raised, cmd>>
       ELSE /\ Finish(GetStatus(j))
            /\ raised' = (job.jobctl /\ GetStatus(j) = Killed)
            /\ IF job.state = "DONE"
               THEN jobtab' = Freed(jobtab, {j}) /\ curjob' = SetDeleted(curjob, j)
               ELSE UNCHANGED <<jobtab, curjob>>
            /\ UNCHANGED cmd
    /\ UNCHANGED <<procVars, njobs, jobless, jobctl, ret, hist>>

\* forkparent for a child without a job: poll while untracked children are
\* presumed alive, then count the new one.
HereLoop ==
    /\ At("here")
    /\ IF jobless # 0 /\ ret > 0
       THEN /\ CallDowait(FALSE)
            /\ UNCHANGED <<jobless, result>>
       ELSE /\ jobless' = jobless + 1
            /\ Finish(0)
            /\ UNCHANGED cmd
    /\ UNCHANGED <<procVars, jobtab, njobs, curjob, jobctl, raised,
                   ret, hist>>

Start(op, j) ==
    /\ pc' = "loop"
    /\ cmd' = [NoCommand EXCEPT !.op = op, !.job = j]

\* wait without an operand.
WaitAll ==
    /\ Idle("wait")
    /\ Start("wait", 0)
    /\ UNCHANGED <<procVars, jobVars, result, raised, ret, hist>>

SigOut == Finish(128 + pendingsigs)

\* Mutant of FirstRunning: looks at the current job only.
CurrentRunning ==
    IF curjob # <<>> /\ jobtab[Head(curjob)].state = "RUNNING" THEN 1 ELSE 0
FirstRunning == SelectInSeq(curjob, LAMBDA k : jobtab[k].state = "RUNNING")

WaitAllLoop ==
    LET running == FirstRunning
        seen    == IF running = 0 THEN ToSet(curjob)
                                  ELSE ToSet(SubSeq(curjob, 1, running - 1))
        marked  == [j \in Slots |->
                      IF j \in seen THEN [jobtab[j] EXCEPT !.waited = TRUE]
                                    ELSE jobtab[j]]
    IN
    /\ At("wait")
    /\ IF ret <= 0
       THEN SigOut /\ UNCHANGED <<jobtab, cmd>>
       ELSE /\ jobtab' = marked
            /\ IF running = 0
               THEN Finish(0) /\ UNCHANGED cmd
               ELSE CallDowait(TRUE) /\ UNCHANGED result
    /\ UNCHANGED <<procVars, njobs, curjob, jobless, jobctl, raised,
                   ret, hist>>

\* wait pid: the first job of the list whose last process has that pid.
WaitPid(p) ==
    LET i == SelectInSeq(curjob, LAMBDA k :
                /\ jobtab[k].ps # <<>>
                /\ LastPs(k).pid = p)
    IN
    /\ Idle("waitpid")
    /\ IF i = 0 THEN Finish(127) /\ UNCHANGED cmd
                ELSE Start("waitpid", curjob[i]) /\ UNCHANGED result
    /\ UNCHANGED <<procVars, jobVars, raised, ret, hist>>

\* The job a % operand of a builtin names: by number, current or previous.
Operands ==
    {GetJobNumber(num) : num \in 1 .. njobs} \cup
    {IF i <= Len(curjob) THEN curjob[i] ELSE NoSuchJob : i \in {1, 2}}

WaitJob(j) ==
    /\ Idle("waitjob")
    /\ IF j = NoSuchJob THEN Error /\ UNCHANGED cmd
                        ELSE Start("waitpid", j) /\ UNCHANGED result
    /\ UNCHANGED <<procVars, jobVars, raised, ret, hist>>

WaitPidLoop ==
    LET j == cmd.job IN
    /\ At("waitpid")
    /\ IF jobtab[j].state = "RUNNING"
       THEN /\ IF ret <= 0 THEN SigOut /\ UNCHANGED cmd
                           ELSE CallDowait(TRUE) /\ UNCHANGED result
            /\ UNCHANGED jobtab
       ELSE /\ jobtab' = [jobtab EXCEPT ![j].waited = TRUE]
            /\ Finish(GetStatus(j))
            /\ UNCHANGED cmd
    /\ UNCHANGED <<procVars, njobs, curjob, jobless, jobctl, raised,
                   ret, hist>>

(***************************************************************************)
(* jobs, fg and bg                                                         *)
(***************************************************************************)

\* showjobs: from jobs, jobs -p ("pgid") or the prompt ("changed").
ShowJobs(mode) ==
    /\ Idle("jobs")
    /\ pc' = "loop"
    /\ cmd' = [NoCommand EXCEPT !.op = "jobs", !.mode = mode]
    /\ UNCHANGED <<procVars, jobVars, result, raised, ret, hist>>

\* The table and the list after showjob on the jobs of S.
ShownTab(S) ==
    Freed([j \in Slots |-> IF j \in S THEN [jobtab[j] EXCEPT !.changed = FALSE]
                                      ELSE jobtab[j]],
          {j \in S : jobtab[j].state = "DONE"})
ShownList(S) == Without(curjob, {j \in S : jobtab[j].state = "DONE"})

ShowJobsLoop ==
    LET shown == IF cmd.mode = "pgid" THEN {}
                 ELSE {j \in ToSet(curjob) : cmd.mode = "all" \/ jobtab[j].changed}
    IN
    /\ At("jobs")
    /\ IF ret > 0
       THEN /\ CallDowait(FALSE)
            /\ UNCHANGED <<jobtab, curjob, result>>
       ELSE /\ jobtab' = ShownTab(shown)
            /\ curjob' = ShownList(shown)
            /\ Finish(IF cmd.mode = "changed" THEN Kept ELSE 0)
            /\ UNCHANGED cmd
    /\ UNCHANGED <<procVars, njobs, jobless, jobctl, raised, ret, hist>>

\* jobs %job
ShowJob(j) ==
    /\ Idle("showjob")
    /\ IF j = NoSuchJob
       THEN Error /\ UNCHANGED <<jobtab, curjob>>
       ELSE /\ jobtab' = ShownTab({j})
            /\ curjob' = ShownList({j})
            /\ Finish(0)
    /\ UNCHANGED <<procVars, njobs, jobless, jobctl, raised, cmd, ret,
                   hist>>

\* killpg(pgid, SIGCONT) on the processes of job j.
Continue(j) ==
    LET stopped == {p \in Pids : owner[p].job = j /\ proc[p].st = "stopped"}
    IN  /\ proc' = [p \in Pids |-> IF p \in stopped
                                   THEN Process("running", FALSE, Live)
                                   ELSE proc[p]]
        /\ IF stopped = {} THEN UNCHANGED <<sigpend, gotsigchld, pendingsigs>>
                          ELSE Post(SIGCHLD)

\* Mutant of Restart: stopped processes keep their status.
RestartKeepsStops(j, op) ==
    /\ jobtab' = [jobtab EXCEPT ![j].state = "RUNNING"]
    /\ Continue(j)
    /\ IF op = "fg" THEN Start("fg", j) /\ UNCHANGED result
                    ELSE Finish(0) /\ UNCHANGED cmd
\* restartjob on a job that is not done: the new state is stored first, then
\* fg takes the terminal, which fails without job control.
Restart(j, op) ==
    LET running == [jobtab EXCEPT ![j].state = "RUNNING"]
        cleared == [running EXCEPT ![j].ps = [i \in DOMAIN @ |->
                        IF @[i].status = Stopped THEN [@[i] EXCEPT !.status = Live]
                                                 ELSE @[i]]]
    IN  IF op = "fg" /\ ~jobctl
        THEN /\ jobtab' = running
             /\ Error
             /\ UNCHANGED <<proc, sigpend, gotsigchld, pendingsigs, cmd>>
        ELSE /\ jobtab' = cleared
             /\ Continue(j)
             /\ IF op = "fg" THEN Start("fg", j) /\ UNCHANGED result
                             ELSE Finish(0) /\ UNCHANGED cmd

\* fgcmd, which bg is an alias of.  (A job that lost its processes to a pipe
\* failure is left out: restartjob runs off its process array.)
FgBg(op, j) ==
    /\ Idle(op)
    /\ IF j = NoSuchJob \/ (j # NoSuchJob /\ ~jobtab[j].jobctl)
       THEN /\ Error
            /\ UNCHANGED <<jobtab, curjob, proc, sigpend, gotsigchld, pendingsigs, cmd>>
       ELSE /\ jobtab[j].ps # <<>>
            /\ curjob' = IF op = "bg" THEN SetRunning(curjob, jobtab, j) ELSE curjob
            /\ IF jobtab[j].state # "DONE"
               THEN Restart(j, op)
               ELSE /\ IF op = "fg" THEN Start("fg", j) /\ UNCHANGED result
                                    ELSE Finish(0) /\ UNCHANGED cmd
                    /\ UNCHANGED <<jobtab, proc, sigpend, gotsigchld, pendingsigs>>
    /\ UNCHANGED <<masked, njobs, jobless, jobctl, raised, ret, hist>>

(***************************************************************************)
(* The specification                                                       *)
(***************************************************************************)

Shell ==
    \/ EndCommand
    \/ \E p \in Pids : Fork(p)
    \/ ForkFails
    \/ PipeFails
    \/ Waitproc
    \/ WaitForJob
    \/ HereLoop
    \/ WaitAllLoop
    \/ WaitPidLoop
    \/ ShowJobsLoop

\* The script or the user gives the next command.
Command ==
    \/ SetJobctl
    \/ \E n \in 1 .. MaxPipe, bg \in BOOLEAN : MakeJob(n, bg)
    \/ \E p \in Pids : ForkHere(p)
    \/ WaitAll
    \/ \E p \in Pids : WaitPid(p)
    \/ \E j \in Operands : WaitJob(j)
    \/ \E mode \in {"all", "changed", "pgid"} : ShowJobs(mode)
    \/ \E j \in Operands : ShowJob(j)
    \/ \E op \in {"fg", "bg"}, j \in Operands : FgBg(op, j)

Next ==
    \/ Shell
    \/ Command
    \/ Environment /\ UNCHANGED <<jobVars, ctlVars, hist>>

Spec == Init /\ [][Next]_vars

\* Every child ends some day, and the shell runs when it can.
FairSpec ==
    /\ Spec
    /\ WF_vars(Shell)
    /\ \A p \in Pids : WF_vars(\E c \in Finals : ProcExit(p, c) /\ UNCHANGED <<jobVars, ctlVars, hist>>)

(***************************************************************************)
(* Properties                                                              *)
(***************************************************************************)

Used == {j \in Slots : jobtab[j].used}

\* Every variable has its type.
TypeOK ==
    /\ ProcessesTypeOK
    /\ jobtab \in [Slots -> [used : BOOLEAN, state : {"RUNNING", "STOPPED", "DONE"},
                            ps : BoundedSeq([pid : Pids, status : Finals \cup {Live, Stopped}],
                                            MaxPipe),
                            waited : BOOLEAN, changed : BOOLEAN, jobctl : BOOLEAN]]
    /\ njobs \in 0 .. MaxJobs
    /\ curjob \in BoundedSeq(Slots, MaxJobs)
    /\ jobless \in Int
    /\ jobctl \in BOOLEAN
    /\ result \in Nat \cup {Kept}
    /\ raised \in BOOLEAN
    /\ ret \in {-1, 0, 1}
    /\ owner \in [Pids -> [job : Slots \cup {0}, last : BOOLEAN]]
    /\ truth \in [Slots -> Finals \cup {Live}]

\* The list reached from curjob holds exactly the jobs in use, each once, and
\* a job's state is the one its processes add up to: what the macros
\* JOBRUNNING, JOBSTOPPED and JOBDONE of jobs.h say, after any interleaving
\* of stops, exits, fg, bg and freed slots (set_curjob, dowait, restartjob).
\* A finished job is always marked for the next prompt.
JobTableConsistent ==
    /\ ToSet(curjob) = Used
    /\ Cardinality(Used) = Len(curjob)
    /\ \A j \in Used : jobtab[j].ps # <<>> =>
            /\ jobtab[j].state = NewState(jobtab[j].ps)
            /\ jobtab[j].state = "DONE" => jobtab[j].changed

\* No status is lost or credited to another job: a child that was not reaped
\* yet is awaited in exactly the job it was forked for, and a job awaits only
\* such children, even when the kernel reuses pids (dowait's search order,
\* makejob's reuse of slots).
ChildrenAwaited ==
    \A j \in Used, p \in Pids :
        (p \in Existing /\ owner[p].job = j) <=>
            \E i \in DOMAIN jobtab[j].ps :
                jobtab[j].ps[i].pid = p /\ jobtab[j].ps[i].status \in {Live, Stopped}
OwnersInUse == \A p \in Existing : owner[p].job \in Used \cup {0}
NoStatusLost == ChildrenAwaited /\ OwnersInUse

\* wait never sleeps in sigsuspend while there is something to wake up for
\* (the race between wait3, the SIGCHLD handler and sigsuspend in waitproc).
NoLostWakeup ==
    pc = "suspend" /\ sigpend = {} =>
        /\ pendingsigs = 0
        /\ \A p \in Pids : ~Waitable(p, jobctl)

\* The status a foreground command, fg or wait reports for a finished job is
\* the one its last process ended with, in whatever order the processes of
\* the pipeline ended and were reaped (dowait, waitforjob, getstatus).
StatusIsLastProcess ==
    [][ \A j \in Used :
          /\ cmd.job = j /\ (At("run") \/ At("fg") \/ At("waitpid"))
          /\ pc' = "end" /\ jobtab[j].state = "DONE"
          /\ jobtab[j].jobctl => jobctl
          => result' = truth[j] ]_vars

\* The comment on jobless: between commands it is the number of untracked
\* children that were not reaped (forkparent, dowait).
JoblessExact ==
    pc = "eval" => jobless = Cardinality({p \in Existing : owner[p] = Untracked})

\* When wait returns 0, every child the shell has a job for was reaped, or its
\* job is one the shell knows to be stopped (waitcmd).
WaitAllWaits ==
    [][ At("wait") /\ pc' = "end" /\ result' = 0 =>
          \A p \in Existing : owner[p] # Untracked => jobtab[owner[p].job].state = "STOPPED" ]_vars

\* A job nobody waited for leaves the table only when it is shown to the user,
\* or by the foreground command it is the job of, or when fork fails.
UnaskedKept ==
    [][ \A j \in Used :
          ~jobtab[j].waited /\ (~jobtab'[j].used \/ Len(jobtab'[j].ps) < Len(jobtab[j].ps))
          => \/ At("jobs")
             \/ pc = "eval" /\ pc' = "end" /\ jobtab[j].state = "DONE"
             \/ j = cmd.job /\ (At("run") \/ At("fg") \/ pc = "fork") ]_vars

\* Every command returns, provided children end (waitproc, waitcmd, waitforjob).
CommandEnds == pc # "eval" ~> pc = "eval"

\* jobs.c, stoppedjobs: "return 1 if there are stopped jobs, otherwise 0".
StoppedJobsTold ==
    pc = "eval" => (StoppedJobs <=> \E j \in Used : jobtab[j].state = "STOPPED")

=============================================================================
