----------------------------- MODULE JobsProofs -----------------------------
(***************************************************************************)
(* Proofs about Jobs, for every set of pids, traps and commands and every  *)
(* bound: the kernel's side keeps its type, and the shell never sleeps in  *)
(* sigsuspend on a child it could reap.                                    *)
(***************************************************************************)
EXTENDS Jobs, TLAPS

\* Where SIGCHLD must not get lost: after the poll that found nothing.
Polled == pc \in {"mask", "test", "suspend"}

\* Signals are blocked exactly between sigprocmask and sigclearmask.
MaskInv ==
    /\ masked <=> pc \in {"test", "suspend"}
    /\ ~masked => sigpend = {}

\* A child that became waitable since the poll left a trace: the flag, or a
\* SIGCHLD that sigsuspend will let in.
TraceInv ==
    Polled /\ (\E p \in Pids : Waitable(p, jobctl))
        => gotsigchld \/ SIGCHLD \in sigpend

\* sigsuspend is entered with nothing to do, and nothing is delivered inside.
SuspendInv == pc = "suspend" => ~gotsigchld /\ pendingsigs = 0

WaitInv == ProcessesTypeOK /\ MaskInv /\ TraceInv /\ SuspendInv

\* The system calls of the shell give every child a proper state.
LEMMA ProcessInState ==
    ASSUME NEW s \in {"unborn", "running", "stopped", "zombie", "gone"},
           NEW f \in BOOLEAN, NEW c \in Finals \cup {Live}
    PROVE  Process(s, f, c) \in ProcState
  BY DEF Process, ProcState

\* Posting SIGCHLD keeps the types, and records it.
LEMMA PostSigchld ==
    ASSUME ProcessesTypeOK, MaskInv, SuspendInv, Post(SIGCHLD), UNCHANGED <<pc, masked>>
    PROVE  /\ gotsigchld' \in BOOLEAN
           /\ sigpend' \subseteq Traps \cup {SIGCHLD}
           /\ pendingsigs' = pendingsigs
           /\ gotsigchld' \/ SIGCHLD \in sigpend'
           /\ ~masked => sigpend' = sigpend
           /\ masked => gotsigchld' = gotsigchld
  BY ProcessesAssumption DEF ProcessesTypeOK, Post, Onsig, SIGCHLD

\* The invariant of waitproc holds when the shell starts.
THEOREM InitWait == Init => WaitInv
  <1> SUFFICES ASSUME Init PROVE WaitInv
    OBVIOUS
  <1>1. ProcessesTypeOK
    BY ProcessInState DEF Init, ProcessesInit, ProcessesTypeOK
  <1>2. MaskInv /\ TraceInv /\ SuspendInv
    BY DEF Init, ProcessesInit, MaskInv, TraceInv, SuspendInv, Polled
  <1> QED
    BY <1>1, <1>2 DEF WaitInv

\* Outside waitproc only the types are at stake.
LEMMA CalmStep ==
    ASSUME WaitInv, ProcessesTypeOK', masked' = masked, sigpend' = sigpend,
           pc \notin {"mask", "test", "suspend"},
           pc' \notin {"mask", "test", "suspend"}
    PROVE  WaitInv'
  BY DEF WaitInv, MaskInv, TraceInv, SuspendInv, Polled

\* The same for the many steps that leave the kernel and the flags alone.
LEMMA StillStep ==
    ASSUME WaitInv, UNCHANGED procVars,
           pc \notin {"mask", "test", "suspend"},
           pc' \notin {"mask", "test", "suspend"}
    PROVE  WaitInv'
  <1>1. ProcessesTypeOK'
    BY DEF WaitInv, ProcessesTypeOK, procVars
  <1> QED
    BY <1>1, CalmStep DEF procVars

(***************************************************************************)
(* Commands                                                                *)
(***************************************************************************)

LEMMA ForkKeeps ==
    ASSUME WaitInv, NEW p \in Pids, Fork(p) \/ ForkHere(p)
    PROVE  WaitInv'
  <1>1. Process("running", FALSE, Live) \in ProcState
    BY ProcessInState
  <1>2. proc' = [proc EXCEPT ![p] = Process("running", FALSE, Live)]
    BY DEF Fork, ForkHere
  <1>3. UNCHANGED <<masked, sigpend, gotsigchld, pendingsigs>>
    BY DEF Fork, ForkHere
  <1>4. ProcessesTypeOK'
    BY <1>1, <1>2, <1>3 DEF WaitInv, ProcessesTypeOK
  <1>5. /\ pc \in {"eval", "fork"}
        /\ pc' \in {"fork", "end", "loop"}
    BY DEF Fork, ForkHere, Idle
  <1> QED
    BY <1>3, <1>4, <1>5, CalmStep

\* fg and bg continue stopped children; the SIGCHLDs that causes are handled
\* at once, since no signal is blocked between commands.
LEMMA FgBgKeeps ==
    ASSUME WaitInv, NEW op, NEW j, FgBg(op, j)
    PROVE  WaitInv'
  <1>1. pc = "eval" /\ masked' = masked /\ ~masked
    BY DEF FgBg, Idle, WaitInv, MaskInv
  <1>2. pc' \in {"end", "loop"}
    BY DEF FgBg, Restart, Start, Finish, Error
  <1>3. \/ UNCHANGED <<proc, sigpend, gotsigchld, pendingsigs>>
        \/ Continue(j)
    BY DEF FgBg, Restart
  <1>4. CASE UNCHANGED <<proc, sigpend, gotsigchld, pendingsigs>>
    BY <1>1, <1>2, <1>4, StillStep DEF procVars
  <1>5. CASE Continue(j)
    <2>1. Process("running", FALSE, Live) \in ProcState
      BY ProcessInState
    <2>2. proc' \in [Pids -> ProcState]
      BY <1>5, <2>1 DEF Continue, WaitInv, ProcessesTypeOK
    <2>3. \/ UNCHANGED <<sigpend, gotsigchld, pendingsigs>>
          \/ Post(SIGCHLD)
      BY <1>5 DEF Continue
    <2>4. /\ gotsigchld' \in BOOLEAN /\ pendingsigs' \in Traps \cup {0}
          /\ sigpend' = sigpend
      <3>1. CASE UNCHANGED <<sigpend, gotsigchld, pendingsigs>>
        BY <3>1 DEF WaitInv, ProcessesTypeOK
      <3>2. CASE Post(SIGCHLD)
        BY <3>2, <1>1, ProcessesAssumption
           DEF Post, Onsig, SIGCHLD, WaitInv, ProcessesTypeOK
      <3> QED
        BY <2>3, <3>1, <3>2
    <2>5. ProcessesTypeOK'
      BY <1>1, <2>2, <2>4 DEF WaitInv, ProcessesTypeOK
    <2> QED
      BY <1>1, <1>2, <2>4, <2>5, CalmStep
  <1> QED
    BY <1>3, <1>4, <1>5

LEMMA CommandKeeps ==
    ASSUME WaitInv, Command
    PROVE  WaitInv'
  <1>1. CASE SetJobctl
    BY <1>1, StillStep DEF SetJobctl, Idle, ctlVars
  <1>2. ASSUME NEW n \in 1 .. MaxPipe, NEW bg \in BOOLEAN, MakeJob(n, bg)
        PROVE  WaitInv'
    BY <1>2, StillStep DEF MakeJob, Idle
  <1>3. ASSUME NEW p \in Pids, ForkHere(p)
        PROVE  WaitInv'
    BY <1>3, ForkKeeps
  <1>4. CASE WaitAll
    BY <1>4, StillStep DEF WaitAll, Idle, Start
  <1>5. ASSUME NEW p \in Pids, WaitPid(p)
        PROVE  WaitInv'
    BY <1>5, StillStep DEF WaitPid, Idle, Start, Finish
  <1>6. ASSUME NEW j \in Operands, WaitJob(j)
        PROVE  WaitInv'
    BY <1>6, StillStep DEF WaitJob, Idle, Start, Finish, Error
  <1>7. ASSUME NEW mode \in {"all", "changed", "pgid"}, ShowJobs(mode)
        PROVE  WaitInv'
    BY <1>7, StillStep DEF ShowJobs, Idle
  <1>8. ASSUME NEW j \in Operands, ShowJob(j)
        PROVE  WaitInv'
    BY <1>8, StillStep DEF ShowJob, Idle, Finish, Error
  <1>9. ASSUME NEW op \in {"fg", "bg"}, NEW j \in Operands, FgBg(op, j)
        PROVE  WaitInv'
    BY <1>9, FgBgKeeps
  <1> QED
    BY <1>1, <1>2, <1>3, <1>4, <1>5, <1>6, <1>7, <1>8, <1>9 DEF Command

(***************************************************************************)
(* The shell                                                               *)
(***************************************************************************)

\* What onsig does to a set of signals of the right type.
LEMMA OnsigKeeps ==
    ASSUME NEW S, S \subseteq Traps \cup {SIGCHLD}, ProcessesTypeOK, Onsig(S)
    PROVE  /\ gotsigchld' \in BOOLEAN
           /\ pendingsigs' \in Traps \cup {0}
           /\ gotsigchld' <=> gotsigchld \/ SIGCHLD \in S
  BY DEF Onsig, ProcessesTypeOK

LEMMA WaitprocKeeps ==
    ASSUME WaitInv, Waitproc
    PROVE  WaitInv'
  <1> USE DEF WaitInv
  <1>1. CASE ClearFlag
    <2>1. ProcessesTypeOK'
      BY <1>1 DEF ClearFlag, ProcessesTypeOK
    <2> QED
      BY <1>1, <2>1, CalmStep DEF ClearFlag
  <1>2. ASSUME NEW p \in Pids, Wait3Reaps(p)
        PROVE  WaitInv'
    <2>1. proc[p] \in ProcState /\ proc[p].fresh \in BOOLEAN
      BY DEF ProcessesTypeOK, ProcState
    <2>2. /\ Process("gone", FALSE, Live) \in ProcState
          /\ Process("stopped", FALSE, Live) \in ProcState
      BY ProcessInState
    <2>3. proc' \in [Pids -> ProcState]
      BY <1>2, <2>2 DEF Wait3Reaps, Collect, ProcessesTypeOK
    <2>4. /\ UNCHANGED <<masked, sigpend, gotsigchld, pendingsigs>>
          /\ pc = "wait3" /\ pc' = "loop"
      BY <1>2 DEF Wait3Reaps
    <2>5. ProcessesTypeOK'
      BY <2>3, <2>4 DEF ProcessesTypeOK
    <2> QED
      BY <2>4, <2>5, CalmStep
  <1>3. CASE Wait3Empty
    <2>1. /\ pc = "wait3" /\ pc' \in {"loop", "mask"}
          /\ UNCHANGED <<proc, masked, sigpend, gotsigchld, pendingsigs, jobctl>>
          /\ ~ \E p \in Pids : Waitable(p, jobctl)
      BY <1>3 DEF Wait3Empty, procVars, jobVars
    <2>2. ProcessesTypeOK'
      BY <2>1 DEF ProcessesTypeOK
    <2>3. ~ (\E p \in Pids : Waitable(p, jobctl))'
      BY <2>1 DEF Waitable
    <2> QED
      BY <2>1, <2>2, <2>3 DEF MaskInv, TraceInv, SuspendInv, Polled
  <1>4. CASE MaskSignals
    <2>1. /\ pc = "mask" /\ pc' = "test" /\ masked' = TRUE
          /\ UNCHANGED <<proc, sigpend, gotsigchld, pendingsigs, jobctl>>
      BY <1>4 DEF MaskSignals, jobVars
    <2>2. ProcessesTypeOK'
      BY <2>1 DEF ProcessesTypeOK
    <2>3. (\E p \in Pids : Waitable(p, jobctl))' => \E p \in Pids : Waitable(p, jobctl)
      BY <2>1 DEF Waitable
    <2> QED
      BY <2>1, <2>2, <2>3 DEF MaskInv, TraceInv, SuspendInv, Polled
  <1>5. CASE Suspend
    <2>1. /\ pc = "test" /\ pc' = "suspend"
          /\ ~gotsigchld /\ pendingsigs = 0
          /\ UNCHANGED <<proc, masked, sigpend, gotsigchld, pendingsigs, jobctl>>
      BY <1>5 DEF Suspend, procVars, jobVars
    <2>2. ProcessesTypeOK'
      BY <2>1 DEF ProcessesTypeOK
    <2>3. (\E p \in Pids : Waitable(p, jobctl))' => \E p \in Pids : Waitable(p, jobctl)
      BY <2>1 DEF Waitable
    <2> QED
      BY <2>1, <2>2, <2>3 DEF MaskInv, TraceInv, SuspendInv, Polled
  <1>6. CASE Wake
    <2>1. /\ pc = "suspend" /\ pc' = "test" /\ sigpend' = {} /\ Onsig(sigpend)
          /\ UNCHANGED <<proc, masked, jobctl>>
      BY <1>6 DEF Wake, jobVars
    <2>2. /\ gotsigchld' \in BOOLEAN
          /\ pendingsigs' \in Traps \cup {0}
          /\ gotsigchld' <=> gotsigchld \/ SIGCHLD \in sigpend
      BY <2>1, OnsigKeeps DEF ProcessesTypeOK
    <2>3. ProcessesTypeOK'
      BY <2>1, <2>2 DEF ProcessesTypeOK
    <2>4. (\E p \in Pids : Waitable(p, jobctl))' => \E p \in Pids : Waitable(p, jobctl)
      BY <2>1 DEF Waitable
    <2> QED
      BY <2>1, <2>2, <2>3, <2>4 DEF MaskInv, TraceInv, SuspendInv, Polled
  <1>7. CASE UnmaskSignals
    <2>1. /\ pc = "test" /\ pc' \in {"clear", "loop"}
          /\ masked' = FALSE /\ sigpend' = {} /\ Onsig(sigpend)
          /\ UNCHANGED proc
      BY <1>7 DEF UnmaskSignals
    <2>2. gotsigchld' \in BOOLEAN /\ pendingsigs' \in Traps \cup {0}
      BY <2>1, OnsigKeeps DEF ProcessesTypeOK
    <2>3. ProcessesTypeOK'
      BY <2>1, <2>2 DEF ProcessesTypeOK
    <2> QED
      BY <2>1, <2>3 DEF MaskInv, TraceInv, SuspendInv, Polled
  <1> QED
    BY <1>1, <1>2, <1>3, <1>4, <1>5, <1>6, <1>7 DEF Waitproc

LEMMA ShellKeeps ==
    ASSUME WaitInv, Shell
    PROVE  WaitInv'
  <1>1. CASE EndCommand
    <2>1. ProcessesTypeOK'
      BY <1>1 DEF EndCommand, WaitInv, ProcessesTypeOK
    <2> QED
      BY <1>1, <2>1, CalmStep DEF EndCommand
  <1>2. ASSUME NEW p \in Pids, Fork(p)
        PROVE  WaitInv'
    BY <1>2, ForkKeeps
  <1>3. CASE ForkFails
    BY <1>3, StillStep DEF ForkFails, Error, Finish
  <1>4. CASE PipeFails
    BY <1>4, StillStep DEF PipeFails, Error, Finish
  <1>5. CASE Waitproc
    BY <1>5, WaitprocKeeps
  <1>6. CASE WaitForJob
    <2>1. pc = "loop" /\ pc' \in {"clear", "end"} /\ UNCHANGED procVars
      BY <1>6 DEF WaitForJob, At, CallDowait, Error, Finish
    <2> QED
      BY <2>1, StillStep
  <1>7. CASE HereLoop
    <2>1. pc = "loop" /\ pc' \in {"clear", "end"} /\ UNCHANGED procVars
      BY <1>7 DEF HereLoop, At, CallDowait, Finish
    <2> QED
      BY <2>1, StillStep
  <1>8. CASE WaitAllLoop
    <2>1. pc = "loop" /\ pc' \in {"clear", "end"} /\ UNCHANGED procVars
      BY <1>8 DEF WaitAllLoop, At, CallDowait, Finish, SigOut
    <2> QED
      BY <2>1, StillStep
  <1>9. CASE WaitPidLoop
    <2>1. pc = "loop" /\ pc' \in {"clear", "end"} /\ UNCHANGED procVars
      BY <1>9 DEF WaitPidLoop, At, CallDowait, Finish, SigOut
    <2> QED
      BY <2>1, StillStep
  <1>10. CASE ShowJobsLoop
    <2>1. pc = "loop" /\ pc' \in {"clear", "end"} /\ UNCHANGED procVars
      BY <1>10 DEF ShowJobsLoop, At, CallDowait, Finish
    <2> QED
      BY <2>1, StillStep
  <1> QED
    BY <1>1, <1>2, <1>3, <1>4, <1>5, <1>6, <1>7, <1>8, <1>9, <1>10 DEF Shell

(***************************************************************************)
(* The environment                                                         *)
(***************************************************************************)

\* A step of a child, which the kernel announces by SIGCHLD.
LEMMA ChildStep ==
    ASSUME WaitInv, proc' \in [Pids -> ProcState], Post(SIGCHLD),
           UNCHANGED <<masked, pc>>
    PROVE  WaitInv'
  <1>1. /\ gotsigchld' \in BOOLEAN
        /\ sigpend' \subseteq Traps \cup {SIGCHLD}
        /\ pendingsigs' = pendingsigs
        /\ gotsigchld' \/ SIGCHLD \in sigpend'
        /\ ~masked => sigpend' = sigpend
        /\ masked => gotsigchld' = gotsigchld
    BY PostSigchld DEF WaitInv
  <1>2. ProcessesTypeOK'
    BY <1>1 DEF WaitInv, ProcessesTypeOK
  <1> QED
    BY <1>1, <1>2 DEF WaitInv, MaskInv, TraceInv, SuspendInv, Polled

LEMMA EnvironmentKeeps ==
    ASSUME WaitInv, Environment, UNCHANGED <<jobVars, ctlVars, hist>>
    PROVE  WaitInv'
  <1> USE DEF WaitInv
  <1>1. UNCHANGED <<pc, jobctl>>
    BY DEF jobVars, ctlVars
  <1>2. ASSUME NEW p \in Pids, NEW c \in Finals, ProcExit(p, c)
        PROVE  WaitInv'
    <2>1. proc' \in [Pids -> ProcState]
      BY <1>2, ProcessInState DEF ProcExit, ProcessesTypeOK
    <2> QED
      BY <1>1, <1>2, <2>1, ChildStep DEF ProcExit
  <1>3. ASSUME NEW p \in Pids, ProcStop(p)
        PROVE  WaitInv'
    <2>1. proc' \in [Pids -> ProcState]
      BY <1>3, ProcessInState DEF ProcStop, ProcessesTypeOK
    <2> QED
      BY <1>1, <1>3, <2>1, ChildStep DEF ProcStop
  <1>4. ASSUME NEW p \in Pids, ProcCont(p)
        PROVE  WaitInv'
    <2>1. proc' \in [Pids -> ProcState]
      BY <1>4, ProcessInState DEF ProcCont, ProcessesTypeOK
    <2> QED
      BY <1>1, <1>4, <2>1, ChildStep DEF ProcCont
  <1>5. ASSUME NEW s \in Traps, SendTrapped(s)
        PROVE  WaitInv'
    <2>1. UNCHANGED <<proc, masked>>
      BY <1>5 DEF SendTrapped
    <2>2. CASE masked
      <3>1. sigpend' = sigpend \cup {s} /\ UNCHANGED <<gotsigchld, pendingsigs>>
        BY <1>5, <2>2 DEF SendTrapped, Post
      <3>2. ProcessesTypeOK'
        BY <2>1, <3>1 DEF ProcessesTypeOK
      <3>3. (\E p \in Pids : Waitable(p, jobctl))' => \E p \in Pids : Waitable(p, jobctl)
        BY <1>1, <2>1 DEF Waitable
      <3> QED
        BY <1>1, <2>1, <2>2, <3>1, <3>2, <3>3 DEF MaskInv, TraceInv, SuspendInv, Polled
    <2>3. CASE ~masked
      <3>1. Onsig({s}) /\ sigpend' = sigpend
        BY <1>5, <2>3 DEF SendTrapped, Post
      <3>2. /\ gotsigchld' \in BOOLEAN
            /\ pendingsigs' \in Traps \cup {0}
            /\ gotsigchld => gotsigchld'
        BY <3>1, OnsigKeeps
      <3>3. ProcessesTypeOK'
        BY <2>1, <3>1, <3>2 DEF ProcessesTypeOK
      <3>4. (\E p \in Pids : Waitable(p, jobctl))' => \E p \in Pids : Waitable(p, jobctl)
        BY <1>1, <2>1 DEF Waitable
      <3> QED
        BY <1>1, <2>1, <2>3, <3>1, <3>2, <3>3, <3>4
           DEF MaskInv, TraceInv, SuspendInv, Polled
    <2> QED
      BY <2>2, <2>3
  <1> QED
    BY <1>2, <1>3, <1>4, <1>5 DEF Environment

(***************************************************************************)
(* The theorems                                                            *)
(***************************************************************************)

\* Every step of the shell, of a child and of a sender of signals keeps the
\* invariant of waitproc: the flags, the blocked signals and the place in its
\* loop agree (jobs.c:1085-1154, trap.c:286-303).
THEOREM NextWait == WaitInv /\ [Next]_vars => WaitInv'
  <1> SUFFICES ASSUME WaitInv, [Next]_vars PROVE WaitInv'
    OBVIOUS
  <1>1. CASE Shell
    BY <1>1, ShellKeeps
  <1>2. CASE Command
    BY <1>2, CommandKeeps
  <1>3. CASE Environment /\ UNCHANGED <<jobVars, ctlVars, hist>>
    BY <1>3, EnvironmentKeeps
  <1>4. CASE UNCHANGED vars
    <2>1. UNCHANGED <<proc, masked, sigpend, gotsigchld, pendingsigs, pc, jobctl>>
      BY <1>4 DEF vars, procVars, jobVars, ctlVars
    <2>2. ProcessesTypeOK'
      BY <2>1 DEF WaitInv, ProcessesTypeOK
    <2>3. (\E p \in Pids : Waitable(p, jobctl))' => \E p \in Pids : Waitable(p, jobctl)
      BY <2>1 DEF Waitable
    <2> QED
      BY <2>1, <2>2, <2>3 DEF WaitInv, MaskInv, TraceInv, SuspendInv, Polled
  <1> QED
    BY <1>1, <1>2, <1>3, <1>4 DEF Next

\* The kernel's state, the blocked signals and the handler's flags always have
\* their types (Processes: onsig, waitproc).
THEOREM ProcessesTypeCorrect == Spec => []ProcessesTypeOK
  <1>1. WaitInv => ProcessesTypeOK
    BY DEF WaitInv
  <1> QED
    BY <1>1, InitWait, NextWait, PTL DEF Spec

\* waitproc never loses a wakeup: whenever the shell sleeps in sigsuspend with
\* no signal on its way, no trapped signal is pending and no child is waitable.
THEOREM WaitNeverLosesWakeup == Spec => []NoLostWakeup
  <1>1. WaitInv => NoLostWakeup
    BY DEF WaitInv, TraceInv, SuspendInv, Polled, NoLostWakeup
  <1> QED
    BY <1>1, InitWait, NextWait, PTL DEF Spec

=============================================================================
