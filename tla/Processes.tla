------------------------------ MODULE Processes ------------------------------
(***************************************************************************)
(* What the shell in mkdash/ sees of the kernel: its child processes, the  *)
(* signals the kernel posts to it, and its signal handler onsig.           *)
(*                                                                         *)
(* The kernel is not code of the repository; it is modelled from how       *)
(* waitproc (jobs.c) and onsig (trap.c) use it.  A wait status is          *)
(* abstracted to the shell exit status getstatus decodes it to: an exit    *)
(* code, 130 for death by SIGINT, 148 for a stop; Live is procstat's -1.   *)
(***************************************************************************)
EXTENDS Integers, FiniteSets

CONSTANTS
    Pids,        \* process ids the kernel may hand out
    ExitCodes,   \* exit codes of children (never 130 nor 148)
    Traps,       \* signal numbers with a non-empty trap
    ReusePids,   \* may the kernel reuse the pid of a reaped child?
    Stoppable    \* may children be stopped and continued?

SIGCHLD == 17
Live    == -1
Killed  == 130
Stopped == 148

ASSUME ProcessesAssumption ==
    /\ IsFiniteSet(Pids) /\ 0 \notin Pids
    /\ ExitCodes \subseteq 0 .. 125
    /\ Traps \subseteq (1 .. 64) \ {SIGCHLD}
    /\ ReusePids \in BOOLEAN /\ Stoppable \in BOOLEAN

VARIABLES
    proc,        \* kernel: state of every pid
    masked,      \* kernel: are all signals of the shell blocked?
    sigpend,     \* kernel: signals posted while blocked
    gotsigchld,  \* trap.c: a SIGCHLD was handled since the flag was cleared
    pendingsigs  \* trap.c: last trapped signal not yet acted upon, or 0

procVars == <<proc, masked, sigpend, gotsigchld, pendingsigs>>

Finals == ExitCodes \cup {Killed}

\* A process is unborn, running, stopped (fresh: the stop was not reported
\* to wait3 yet), a zombie holding its status, or gone (reaped).
ProcState == [st : {"unborn", "running", "stopped", "zombie", "gone"},
              fresh : BOOLEAN, status : Finals \cup {Live}]

Process(s, f, c) == [st |-> s, fresh |-> f, status |-> c]

ProcessesTypeOK ==
    /\ proc \in [Pids -> ProcState]
    /\ masked \in BOOLEAN
    /\ sigpend \subseteq Traps \cup {SIGCHLD}
    /\ gotsigchld \in BOOLEAN
    /\ pendingsigs \in Traps \cup {0}

ProcessesInit ==
    /\ proc = [p \in Pids |-> Process("unborn", FALSE, Live)]
    /\ masked = FALSE
    /\ sigpend = {}
    /\ gotsigchld = FALSE
    /\ pendingsigs = 0

Existing == {p \in Pids : proc[p].st \in {"running", "stopped", "zombie"}}
Forkable == {p \in Pids : \/ proc[p].st = "unborn"
                          \/ ReusePids /\ proc[p].st = "gone"}

(***************************************************************************)
(* Signals                                                                 *)
(***************************************************************************)

\* onsig for every signal of S: SIGCHLD raises gotsigchld, a trapped signal
\* becomes the pending one (of several, the one handled last).
Onsig(S) ==
    /\ gotsigchld' = (gotsigchld \/ SIGCHLD \in S)
    /\ IF S \cap Traps = {} THEN UNCHANGED pendingsigs
                            ELSE pendingsigs' \in S \cap Traps

\* The kernel posts s: the handler runs at once unless signals are blocked.
Post(s) ==
    IF masked THEN /\ sigpend' = sigpend \cup {s}
                   /\ UNCHANGED <<gotsigchld, pendingsigs>>
              ELSE /\ Onsig({s})
                   /\ UNCHANGED sigpend

(***************************************************************************)
(* Steps of the environment                                                *)
(***************************************************************************)

ProcExit(p, c) ==
    /\ proc[p].st \in {"running", "stopped"}
    /\ proc' = [proc EXCEPT ![p] = Process("zombie", FALSE, c)]
    /\ Post(SIGCHLD)
    /\ UNCHANGED masked

ProcStop(p) ==
    /\ Stoppable
    /\ proc[p].st = "running"
    /\ proc' = [proc EXCEPT ![p] = Process("stopped", TRUE, Live)]
    /\ Post(SIGCHLD)
    /\ UNCHANGED masked

\* A SIGCONT that does not come from fg or bg.
ProcCont(p) ==
    /\ proc[p].st = "stopped"
    /\ proc' = [proc EXCEPT ![p] = Process("running", FALSE, Live)]
    /\ Post(SIGCHLD)
    /\ UNCHANGED masked

\* Somebody sends the shell a trapped signal.
SendTrapped(s) ==
    /\ s # pendingsigs /\ s \notin sigpend
    /\ Post(s)
    /\ UNCHANGED <<proc, masked>>

Environment ==
    \/ \E p \in Pids, c \in Finals : ProcExit(p, c)
    \/ \E p \in Pids : ProcStop(p)
    \/ \E p \in Pids : ProcCont(p)
    \/ \E s \in Traps : SendTrapped(s)

(***************************************************************************)
(* System calls of the shell                                               *)
(***************************************************************************)

\* wait3 finds something to report about p (untraced: WUNTRACED was given).
Waitable(p, untraced) ==
    \/ proc[p].st = "zombie"
    \/ untraced /\ proc[p].st = "stopped" /\ proc[p].fresh

\* The status wait3 reports for a waitable p, and what the report leaves.
Report(p) == IF proc[p].st = "zombie" THEN proc[p].status ELSE Stopped
Collect(p) ==
    proc' = [proc EXCEPT ![p] =
        IF @.st = "zombie" THEN Process("gone", FALSE, Live)
                           ELSE Process("stopped", FALSE, Live)]

=============================================================================
