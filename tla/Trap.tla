-------------------------------- MODULE Trap --------------------------------
(***************************************************************************)
(* Signals, traps and exceptions of mkdash: setsignal, onsig, trapcmd,     *)
(* clear_traps, dotrap and exitshell (mkdash/trap.c), INTOFF/INTON and     *)
(* exraise (error.h, error.c), and as much of the evaluator (eval.c,       *)
(* main.c, forkchild of jobs.c) as decides when a trap runs.               *)
(*                                                                         *)
(* The C stack is the variable stack, innermost frame last: "top" is       *)
(* cmdloop, "fun" a function body, "sub" the commands of a forked          *)
(* subshell, "scan" dotrap's loop over gotsig, "act" the commands of a     *)
(* trap, "exit" those of the EXIT trap.  pc is "run" before a command,     *)
(* "out" at the label of that name in evaltree, "after" past it, "setsig"  *)
(* inside trapcmd, the forking command at forkshell, "wait" in waitforjob, *)
(* "exec" when the process has been given to a program and "dead" when it  *)
(* is gone.  A fork is followed into the parent or into the child.         *)
(*                                                                         *)
(* SIGCHLD is modelled by Processes; monitor mode, which changes           *)
(* SIGTSTP and SIGTTOU only, is off.                                       *)
(***************************************************************************)
EXTENDS Integers, Sequences, SequencesExt, FiniteSetsExt

CONSTANTS
    Sigs,            \* the signals considered
    Statuses,        \* exit statuses of programs
    Interactive,     \* the values iflag may have at start
    IgnoredAtEntry,  \* signals the shell may be started with ignored
    ListLength,      \* bound: commands of a function body, a subshell or a trap
    MaxDepth,        \* bound: frames on the stack when a call, a fork or a signal adds to it
    MaxSubshell,     \* bound: nesting of subshells
    Commands         \* the commands scripts may use

SIGINT  == 2
SIGQUIT == 3
SIGTERM == 15
EXIT    == 0         \* trap[0]
AtTop   == {SIGINT, SIGQUIT, SIGTERM}

ASSUME TrapAssumption ==
    /\ Sigs \subseteq (1 .. 64) \ {17, 20, 21, 22}
    /\ Statuses \subseteq 0 .. 255
    /\ Interactive \subseteq BOOLEAN
    /\ IgnoredAtEntry \subseteq Sigs
    /\ ListLength \in Nat \ {0} /\ MaxDepth \in Nat /\ MaxSubshell \in Nat
    /\ Commands \subseteq {"builtin", "failing", "error", "trap", "call", "return",
                           "program", "subshell", "background", "exit", "set"}

VARIABLES
    trap,        \* "none", "empty" (ignore) or "action", per signal and EXIT
    trapcnt,     \* number of non-empty traps
    sigmode,     \* what setsignal last did per signal, "unknown" at first
    disp,        \* kernel: disposition per signal
    gotsig,      \* signals received and not yet handled
    pendingsigs, \* the last of them, or 0
    intpending,  \* a SIGINT came while interrupts were off
    suppressint, \* nesting of INTOFF
    evalskip,    \* return is being executed (SKIPFUNC)
    exitstatus,  \* $?
    iflag,       \* the shell is interactive
    sflag,       \* it reads its standard input
    shlvl,       \* subshell level
    stack,       \* frames
    pc,          \* control
    arg,         \* the signal trapcmd is at, or 0
    cut,         \* history: the last dotrap was left before the end of its scan
    setter       \* history: the subshell level that set the EXIT trap

sigVars  == <<trap, trapcnt, sigmode, disp, setter>>
gotVars  == <<gotsig, pendingsigs>>
intVars  == <<intpending, suppressint>>
shVars   == <<iflag, sflag, shlvl>>
vars == <<sigVars, gotVars, cut, intVars, shVars, evalskip, exitstatus, stack, pc, arg>>

(***************************************************************************)
(* Frames: left commands are to come; last is $? as the list left it;      *)
(* skip: return was executed here.  For "scan": next signal, saved status. *)
(***************************************************************************)

List(kind, status) == [kind |-> kind, left |-> ListLength, last |-> status,
                       skip |-> FALSE, next |-> 0]
Scan(status)       == [kind |-> "scan", left |-> 0, last |-> status,
                       skip |-> FALSE, next |-> 1]
Top     == stack[Len(stack)]
Below   == Front(stack)
Repl(f) == Append(Below, f)
Exiting == \E i \in DOMAIN stack : stack[i].kind = "exit"
rootshell == shlvl = 0

(***************************************************************************)
(* Dispositions                                                            *)
(***************************************************************************)

\* What setsignal wants for signal s with trap t.
Wanted(s, t, root, inter) ==
    CASE t = "action" -> "catch"
      [] t = "empty"  -> "ign"
      [] t = "none" /\ root /\ s = SIGINT /\ (inter \/ ~sflag)        -> "catch"
      [] t = "none" /\ root /\ s \in {SIGQUIT, SIGTERM} /\ inter      -> "ign"
      [] OTHER -> "dfl"

\* Mutant of Fixed: the disposition at entry is not looked at.
FixedIfMarked(s) == sigmode[s] = "hard"
\* S_HARD_IGN: marked so by ignoresig, or found ignored while unknown.
Fixed(s) == sigmode[s] = "hard" \/ (sigmode[s] = "unknown" /\ disp[s] = "ign")

\* setsignal for every signal of S, the traps being tr.
SetSignals(S, tr, root, inter) ==
    LET moved == {s \in S \cap Sigs : ~Fixed(s)}
        Updated(f) == [s \in Sigs |-> IF s \in moved THEN Wanted(s, tr[s], root, inter)
                                      ELSE f[s]]
    IN  sigmode' = Updated(sigmode) /\ disp' = Updated(disp)

Init ==
    /\ iflag \in Interactive
    /\ sflag = iflag
    /\ trap = [s \in Sigs \cup {EXIT} |-> "none"]
    /\ trapcnt = 0
    /\ \E ignored \in SUBSET IgnoredAtEntry :
        /\ sigmode = [s \in Sigs |-> IF s \in AtTop \ ignored
                                     THEN Wanted(s, "none", TRUE, iflag) ELSE "unknown"]
        /\ disp = [s \in Sigs |-> IF s \in ignored THEN "ign"
                                  ELSE IF sigmode[s] = "unknown" THEN "dfl" ELSE sigmode[s]]
    /\ gotsig = [s \in Sigs |-> FALSE]
    /\ pendingsigs = 0
    /\ intpending = FALSE
    /\ suppressint = 0
    /\ evalskip = FALSE
    /\ exitstatus = 0
    /\ shlvl = 0
    /\ stack = <<List("top", 0)>>
    /\ pc = "run"
    /\ arg = 0
    /\ cut = FALSE
    /\ setter = 0

(***************************************************************************)
(* Leaving                                                                 *)
(***************************************************************************)

\* The process is no longer a shell.  (Callers say what becomes of gotVars.)
Gone(how) ==
    /\ pc' = how
    /\ stack' = <<>>
    /\ arg' = 0
    /\ UNCHANGED <<sigVars, cut, intVars, shVars, evalskip, exitstatus>>

\* A longjmp out of dotrap leaves the rest of its scan for later.
Unwound == cut \/ \E i \in DOMAIN stack : stack[i].kind = "scan"

\* exitshell with status st, interrupts off to depth off, SIGINT pending or not.
Exitshell(st, off, pending) ==
    IF trap[EXIT] # "action" THEN Gone("dead")
    ELSE /\ trap' = [trap EXCEPT ![EXIT] = "none"]
         /\ evalskip' = FALSE
         /\ exitstatus' = st
         /\ stack' = <<List("exit", st)>>
         /\ pc' = "run"
         /\ suppressint' = off
         /\ intpending' = pending
         /\ cut' = Unwound
         /\ arg' = 0
         /\ UNCHANGED <<trapcnt, sigmode, disp, setter, shVars>>

\* exraise, and the handler it ends in: exitshell's own, or main's, which
\* exits or goes back to cmdloop with interrupts forced on.
Exraise(e, st, pending) ==
    IF Exiting THEN Gone("dead")
    ELSE IF e = "exit" \/ ~iflag \/ shlvl > 0 THEN Exitshell(st, suppressint + 1, pending)
    ELSE /\ evalskip' = FALSE
         /\ exitstatus' = st
         /\ stack' = <<List("top", st)>>
         /\ pc' = "run"
         /\ suppressint' = 0
         /\ intpending' = FALSE
         /\ cut' = Unwound
         /\ arg' = 0
         /\ UNCHANGED <<sigVars, shVars>>

\* onint; a builtin it interrupts has status 130.
Onint == IF rootshell /\ iflag
         THEN \E st \in {exitstatus, SIGINT + 128} : Exraise("int", st, FALSE)
         ELSE Gone("dead")

(***************************************************************************)
(* Signals                                                                 *)
(***************************************************************************)

\* Mutant of Onsig: SIGINT is noted with interrupts on too.
OnsigNotes(s) ==
    /\ gotsig' = [gotsig EXCEPT ![s] = TRUE]
    /\ pendingsigs' = s
    /\ intpending' = (intpending \/ (s = SIGINT /\ trap[s] = "none"))
    /\ UNCHANGED <<sigVars, cut, suppressint, shVars, evalskip, exitstatus, stack, pc, arg>>
\* onsig, interrupting the shell anywhere.
Onsig(s) ==
    /\ gotsig' = [gotsig EXCEPT ![s] = TRUE]
    /\ pendingsigs' = s
    /\ IF s = SIGINT /\ trap[s] = "none"
       THEN IF suppressint = 0 THEN Onint
            ELSE /\ intpending' = TRUE
                 /\ UNCHANGED <<sigVars, cut, suppressint, shVars, evalskip, exitstatus,
                                stack, pc, arg>>
       ELSE UNCHANGED <<sigVars, cut, intVars, shVars, evalskip, exitstatus, stack, pc, arg>>

\* The kernel delivers signal s.
Deliver(s) ==
    /\ pc \notin {"dead", "exec"}
    /\ \/ disp[s] = "catch" /\ Len(stack) < MaxDepth /\ Onsig(s)
       \/ disp[s] = "dfl" /\ Gone("dead") /\ UNCHANGED gotVars

(***************************************************************************)
(* Commands                                                                *)
(***************************************************************************)

\* The next command of the list is c.
Next1(c) == pc = "run" /\ c \in Commands /\ (Top.kind = "top" \/ Top.left > 0)
Counted  == IF Top.kind = "top" THEN Top ELSE [Top EXCEPT !.left = @ - 1]
\* It is the last one of a process: evaltree has EV_EXIT.
EvExit   == Top.kind = "sub" /\ Top.left = 1
\* Mutant of HaveTraps: only the EXIT trap is asked about.
HaveTrapsExit == trap[EXIT] = "action"
HaveTraps == trapcnt > 0

\* A builtin that returns st.
Builtin ==
    /\ Next1("builtin")
    /\ exitstatus' \in Statuses
    /\ stack' = Repl(Counted)
    /\ pc' = "out"
    /\ UNCHANGED <<sigVars, gotVars, cut, intVars, shVars, evalskip, arg>>

\* An error in a regular builtin: evalcommand stays and forces interrupts on.
Failing ==
    /\ Next1("failing")
    /\ UNCHANGED gotVars
    /\ IF intpending THEN Onint
       ELSE /\ suppressint' = 0
            /\ exitstatus' = 2
            /\ stack' = Repl(Counted)
            /\ pc' = "out"
            /\ UNCHANGED <<sigVars, cut, intpending, shVars, evalskip, arg>>

\* An error in a special builtin, an expansion or the syntax.
Error == Next1("error") /\ Exraise("error", 2, intpending) /\ UNCHANGED gotVars

\* What a trap adds to trapcnt.
Counts(t) == IF t = "action" THEN 1 ELSE 0

\* trapcmd: one operand, up to setsignal.
Trapcmd ==
    /\ Next1("trap")
    /\ \E s \in Sigs \cup {EXIT}, t \in {"none", "empty", "action"} :
        /\ trap' = [trap EXCEPT ![s] = t]
        /\ trapcnt' = trapcnt + Counts(t) - Counts(trap[s])
        /\ setter' = IF s = EXIT /\ t = "action" THEN shlvl ELSE setter
        /\ arg' = s   \* 0, EXIT, has no disposition
        /\ pc' = IF s = EXIT THEN "inton" ELSE "setsig"
    /\ suppressint' = suppressint + 1
    /\ exitstatus' = 0
    /\ stack' = Repl(Counted)
    /\ UNCHANGED <<sigmode, disp, gotVars, cut, intpending, shVars, evalskip>>

\* trapcmd: setsignal.
Setsignal ==
    /\ pc = "setsig"
    /\ SetSignals({arg}, trap, rootshell, iflag)
    /\ pc' = "inton"
    /\ arg' = 0
    /\ UNCHANGED <<trap, trapcnt, setter, gotVars, cut, intVars, shVars, evalskip,
                   exitstatus, stack>>

\* INTON at the end of trapcmd, evalsubshell and evalcommand.
Inton ==
    /\ pc = "inton"
    /\ UNCHANGED gotVars
    /\ IF suppressint = 1 /\ intpending THEN Onint
       ELSE /\ suppressint' = suppressint - 1
            /\ pc' = "out"
            /\ UNCHANGED <<sigVars, cut, intpending, shVars, evalskip, exitstatus, stack, arg>>

\* evalfun.
Call ==
    /\ Next1("call")
    /\ Len(stack) < MaxDepth
    /\ stack' = Append(Repl(Counted), List("fun", exitstatus))
    /\ UNCHANGED <<sigVars, gotVars, cut, intVars, shVars, evalskip, exitstatus, pc, arg>>

\* returncmd.
Return ==
    /\ Next1("return")
    /\ evalskip' = TRUE
    /\ stack' = Repl([Counted EXCEPT !.skip = TRUE])
    /\ pc' = "out"
    /\ UNCHANGED <<sigVars, gotVars, cut, intVars, shVars, exitstatus, arg>>

\* exitcmd.
Exitcmd == Next1("exit") /\ UNCHANGED gotVars
           /\ \E st \in Statuses \cup {exitstatus} : Exraise("exit", st, intpending)

\* cmdloop at the end of the script.
Eof == pc = "run" /\ Top.kind = "top" /\ UNCHANGED gotVars
       /\ Exitshell(exitstatus, suppressint, intpending)

\* set -i, set +i: setinteractive.
Setinteractive ==
    /\ Next1("set")
    /\ iflag' = ~iflag
    /\ SetSignals(AtTop, trap, rootshell, ~iflag)
    /\ exitstatus' = 0
    /\ stack' = Repl(Counted)
    /\ pc' = "out"
    /\ UNCHANGED <<trap, trapcnt, setter, gotVars, cut, intVars, sflag, shlvl, evalskip, arg>>

(***************************************************************************)
(* Processes                                                               *)
(***************************************************************************)

\* The last command of a process needs no fork if there are no traps.
Nofork ==
    /\ pc = "run" /\ EvExit /\ ~HaveTraps
    /\ UNCHANGED gotVars
    /\ \/ Next1("program") /\ Gone("exec")
       \/ /\ Next1("subshell")
          /\ stack' = Repl(List("sub", exitstatus))
          /\ UNCHANGED <<sigVars, cut, intVars, shVars, evalskip, exitstatus, pc, arg>>

\* Commands that fork; pc is the command while it is at forkshell.
Forks == {"program", "subshell", "background"}

\* INTOFF, makejob.
Fork ==
    /\ \E c \in Forks :
        Next1(c) /\ (c = "background" \/ ~EvExit \/ HaveTraps) /\ pc' = c
    /\ stack' = Repl(Counted)
    /\ suppressint' = suppressint + 1
    /\ UNCHANGED <<sigVars, gotVars, cut, intpending, shVars, evalskip, exitstatus, arg>>

\* Mutant of Forkparent: evalsubshell's INTON is missed for a background command.
ForkparentOff ==
    /\ pc \in Forks
    /\ pc' = IF pc = "background" THEN "out" ELSE "wait"
    /\ exitstatus' = IF pc = "background" THEN 0 ELSE exitstatus
    /\ UNCHANGED <<sigVars, gotVars, cut, intVars, shVars, evalskip, stack, arg>>
\* forkparent.
Forkparent ==
    /\ pc \in Forks
    /\ pc' = IF pc = "background" THEN "inton" ELSE "wait"
    /\ exitstatus' = IF pc = "background" THEN 0 ELSE exitstatus
    /\ UNCHANGED <<sigVars, gotVars, cut, intVars, shVars, evalskip, stack, arg>>

\* forkshell fails.
Forkfails == pc \in Forks /\ Exraise("error", 2, intpending) /\ UNCHANGED gotVars

\* waitforjob.
Waited ==
    /\ pc = "wait"
    /\ exitstatus' \in Statuses
    /\ pc' = "inton"
    /\ UNCHANGED <<sigVars, gotVars, cut, intVars, shVars, evalskip, stack, arg>>

\* Mutant of Cleared: the EXIT trap is inherited.
ClearedSignals == [s \in DOMAIN trap |-> IF trap[s] = "action" /\ s # EXIT THEN "none"
                                         ELSE trap[s]]
\* clear_traps: what a child keeps of its parent's traps.
Cleared == [s \in DOMAIN trap |-> IF trap[s] = "action" THEN "none" ELSE trap[s]]

\* Mutant of ChildSignals: what an interactive shell ignores is left ignored.
ChildSignalsTraps == {s \in Sigs : trap[s] = "action"}
\* clear_traps' and forkchild's calls of setsignal.
ChildSignals ==
    {s \in Sigs : trap[s] = "action"} \cup (IF shlvl = 0 /\ iflag THEN AtTop ELSE {})

\* forkchild, and the child's INTON: a SIGINT its parent had pending kills it.
Forkchild ==
    /\ pc \in {"subshell", "background"}
    /\ shlvl < MaxSubshell /\ Len(stack) < MaxDepth
    /\ UNCHANGED gotVars
    /\ IF intpending /\ suppressint = 1 THEN Gone("dead")
       ELSE LET hard  == IF pc = "background" THEN {SIGINT, SIGQUIT} ELSE {}
                moved == {s \in ChildSignals \cap Sigs : ~Fixed(s)}
                New(f, ignored) ==
                    [s \in Sigs |-> IF s \in hard THEN ignored
                                    ELSE IF s \in moved THEN Wanted(s, Cleared[s], FALSE, iflag)
                                    ELSE f[s]]
            IN  /\ trap' = Cleared
                /\ trapcnt' = 0
                /\ sigmode' = New(sigmode, "hard")
                /\ disp' = New(disp, "ign")
                /\ shlvl' = shlvl + 1
                /\ suppressint' = suppressint - 1
                /\ stack' = Append(stack, List("sub", exitstatus))
                /\ pc' = "run"
                /\ UNCHANGED <<setter, cut, intpending, iflag, sflag, evalskip, exitstatus, arg>>

(***************************************************************************)
(* After a command: traps, and the end of lists                            *)
(***************************************************************************)

Done == Repl([Top EXCEPT !.last = exitstatus])

\* Mutant of Dotrap: the scan starts at the last signal received.
DotrapLast ==
    /\ pc = "out" /\ pendingsigs # 0
    /\ stack' = Append(Done, [Scan(exitstatus) EXCEPT !.next = pendingsigs])
    /\ pendingsigs' = 0
    /\ cut' = FALSE
    /\ pc' = "scan"
    /\ UNCHANGED <<sigVars, gotsig, intVars, shVars, evalskip, exitstatus, arg>>
\* Mutant of Dotrap: pendingsigs is not cleared.
DotrapKeeps ==
    /\ pc = "out" /\ pendingsigs # 0
    /\ stack' = Append(Done, Scan(exitstatus))
    /\ cut' = FALSE
    /\ pc' = "scan"
    /\ UNCHANGED <<sigVars, gotVars, intVars, shVars, evalskip, exitstatus, arg>>
\* evaltree sees pendingsigs and calls dotrap.
Dotrap ==
    /\ pc = "out" /\ pendingsigs # 0
    /\ stack' = Append(Done, Scan(exitstatus))
    /\ pendingsigs' = 0
    /\ cut' = FALSE
    /\ pc' = "scan"
    /\ UNCHANGED <<sigVars, gotsig, intVars, shVars, evalskip, exitstatus, arg>>

NoTrap ==
    /\ pc = "out" /\ pendingsigs = 0
    /\ stack' = Done
    /\ pc' = "after"
    /\ UNCHANGED <<sigVars, gotVars, cut, intVars, shVars, evalskip, exitstatus, arg>>

\* dotrap goes on to its next signal, or is done.
DueSigs == {s \in Sigs : gotsig[s] /\ s >= Top.next}
ScanNext ==
    /\ pc = "scan" /\ DueSigs # {}
    /\ LET s == Min(DueSigs)
           past == Repl([Top EXCEPT !.next = s + 1])
       IN  /\ gotsig' = [gotsig EXCEPT ![s] = FALSE]
           /\ \/ /\ trap[s] = "action"
                 /\ stack' = Append(past, List("act", exitstatus))
                 /\ pc' = "run"
                 /\ UNCHANGED <<cut, exitstatus>>
              \/ /\ trap[s] = "empty"
                 /\ exitstatus' = Top.last
                 /\ stack' = IF evalskip THEN Below ELSE past
                 /\ pc' = IF evalskip THEN "after" ELSE "scan"
                 /\ cut' = (cut \/ evalskip)
              \/ /\ trap[s] = "none"
                 /\ stack' = past
                 /\ UNCHANGED <<cut, exitstatus, pc>>
    /\ UNCHANGED <<sigVars, pendingsigs, intVars, shVars, evalskip, arg>>
ScanEnd ==
    /\ pc = "scan" /\ DueSigs = {}
    /\ stack' = Below
    /\ pc' = "after"
    /\ UNCHANGED <<sigVars, gotVars, cut, intVars, shVars, evalskip, exitstatus, arg>>

More == Top.kind = "top" \/ Top.left > 0
Go ==
    /\ pc = "after" /\ ~evalskip /\ More
    /\ pc' = "run"
    /\ UNCHANGED <<sigVars, gotVars, cut, intVars, shVars, evalskip, exitstatus, stack, arg>>

\* cmdloop ends after a return outside of functions.
TopEnd ==
    /\ pc = "after" /\ evalskip /\ Top.kind = "top"
    /\ Exitshell(exitstatus, suppressint, intpending) /\ UNCHANGED gotVars

Ended(kind) == pc = "after" /\ Top.kind = kind /\ (evalskip \/ Top.left = 0)

\* evalfun returns.
FunEnd ==
    /\ Ended("fun")
    /\ evalskip' = FALSE
    /\ stack' = Below
    /\ pc' = "out"
    /\ UNCHANGED <<sigVars, gotVars, cut, intVars, shVars, exitstatus, arg>>

\* Mutant of ActEnd: the status of the trap is left in $?.
ActEndKeeps ==
    /\ Ended("act")
    /\ stack' = IF evalskip THEN Front(Below) ELSE Below
    /\ pc' = IF evalskip THEN "after" ELSE "scan"
    /\ cut' = (cut \/ evalskip)
    /\ UNCHANGED <<sigVars, gotVars, intVars, shVars, evalskip, exitstatus, arg>>
\* dotrap after evalstring.
ActEnd ==
    /\ Ended("act")
    /\ exitstatus' = Last(Below).last
    /\ stack' = IF evalskip THEN Front(Below) ELSE Below
    /\ pc' = IF evalskip THEN "after" ELSE "scan"
    /\ cut' = (cut \/ evalskip)
    /\ UNCHANGED <<sigVars, gotVars, intVars, shVars, evalskip, arg>>

\* The commands of a process are over.
SubEnd == Ended("sub") /\ Exraise("exit", exitstatus, intpending) /\ UNCHANGED gotVars
ExitEnd == Ended("exit") /\ Gone("dead") /\ UNCHANGED gotVars

ShellStep ==
    \/ Builtin \/ Failing \/ Error \/ Trapcmd \/ Setsignal \/ Inton \/ Call \/ Return
    \/ Exitcmd \/ Eof \/ Setinteractive \/ Nofork \/ Fork \/ Forkparent \/ Forkfails \/ Waited
    \/ Forkchild \/ Dotrap \/ NoTrap \/ ScanNext \/ ScanEnd \/ Go \/ TopEnd \/ FunEnd
    \/ ActEnd \/ SubEnd \/ ExitEnd
Next == ShellStep \/ \E s \in Sigs : Deliver(s)
Spec == Init /\ [][Next]_vars

\* The shell runs, and the programs it waits for end.
FairSpec == Spec /\ WF_vars(ShellStep)

(***************************************************************************)
(* Properties                                                              *)
(***************************************************************************)

Modes == {"unknown", "hard", "dfl", "ign", "catch"}
Frames == [kind : {"top", "fun", "sub", "scan", "act", "exit"}, left : 0 .. ListLength,
           last : Nat, skip : BOOLEAN, next : Nat]

\* Types of the variables; interrupts are off only between INTOFF and INTON,
\* and in a shell that exits.
TypeOK ==
    /\ trap \in [Sigs \cup {EXIT} -> {"none", "empty", "action"}]
    /\ trapcnt \in Nat
    /\ sigmode \in [Sigs -> Modes]
    /\ disp \in [Sigs -> {"dfl", "ign", "catch"}]
    /\ gotsig \in [Sigs -> BOOLEAN]
    /\ pendingsigs \in Sigs \cup {0}
    /\ intpending \in BOOLEAN /\ evalskip \in BOOLEAN /\ cut \in BOOLEAN
    /\ iflag \in BOOLEAN /\ sflag \in BOOLEAN
    /\ exitstatus \in Nat /\ shlvl \in Nat /\ setter \in Nat /\ suppressint \in Nat
    /\ stack \in Seq(Frames)
    /\ pc \in {"run", "out", "after", "scan", "setsig", "inton", "wait",
               "exec", "dead"} \cup Forks
    /\ arg \in Sigs \cup {0}

\* Signals ignored at entry, or by ignoresig.
IgnoredFixed(s) == sigmode[s] = "hard" \/ (sigmode[s] = "unknown" /\ disp[s] = "ign")

Alive == pc \notin {"dead", "exec"}

\* A SIGINT noted while interrupts were off is acted upon when they go on:
\* there is no state with one pending and interrupts on (onsig and INTON,
\* FORCEINTON; error.h:93-113).
IntNotForgotten == Alive /\ intpending => suppressint > 0

\* INTOFF and INTON balance on every path, exceptions included: outside of
\* trapcmd and forks interrupts are on, until the shell exits.
InterruptsBalanced ==
    Alive /\ ~Exiting =>
        suppressint = IF pc \in {"setsig", "inton", "wait"} \cup Forks THEN 1 ELSE 0

\* What the kernel does with a signal is what its trap asks for, in the root
\* shell and in children, once trapcmd is past setsignal; a signal that is
\* caught without a trap (and then thrown away by dotrap) can only be SIGINT,
\* and one ignored without a trap is one an interactive root shell ignores.
DispositionsMatch ==
    Alive => \A s \in Sigs :
        (pc = "setsig" /\ arg = s) \/ IgnoredFixed(s) \/
        /\ trap[s] = "action" => disp[s] = "catch"
        /\ trap[s] = "empty"  => disp[s] = "ign"
        /\ trap[s] = "none" /\ disp[s] = "catch" => s = SIGINT
        /\ trap[s] = "none" /\ disp[s] = "ign"   =>
             rootshell /\ iflag /\ s \in {SIGQUIT, SIGTERM}
        /\ rootshell /\ iflag /\ s \in AtTop => disp[s] # "dfl"

\* A signal ignored when the shell was started, or ignored by a background
\* command, stays ignored whatever trap is asked to do (S_HARD_IGN).
IgnoredForGood == [][\A s \in Sigs : IgnoredFixed(s) => disp'[s] = "ign"]_vars

\* A signal with a trap is never left noted but unseen: pendingsigs makes the
\* next evaltree call dotrap, or dotrap has yet to come to it.  The exception
\* the code has: a dotrap left by return or by an exception (trap.c:333).
NoTrapLost ==
    Alive => \A s \in Sigs : gotsig[s] /\ trap[s] = "action" =>
        \/ pendingsigs # 0 \/ cut
        \/ \E i \in DOMAIN stack : stack[i].kind = "scan" /\ stack[i].next <= s

\* Traps run between two commands, nested ones and functions included, leave
\* $? as the first command set it (savestatus in dotrap).
TrapsKeepStatus == pc = "run" => exitstatus = Top.last

\* A process is handed to a program without a fork only if no trap is set that
\* would have run after it (have_traps in evalcommand).
ExecRunsNoTrap == pc = "exec" => \A s \in DOMAIN trap : trap[s] # "action"

\* A subshell never has its parent's EXIT trap (clear_traps on a fork).
ExitTrapOwn == Alive /\ trap[EXIT] = "action" => setter = shlvl

\* A caught signal is looked at by dotrap, or the shell exits, or an interrupt
\* or an error takes it back to its prompt.
SignalsServed == pendingsigs # 0 ~> (pendingsigs = 0 \/ ~Alive)

=============================================================================
