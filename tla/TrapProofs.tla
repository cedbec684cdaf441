----------------------------- MODULE TrapProofs -----------------------------
(***************************************************************************)
(* Proofs about Trap, for every set of signals, statuses and commands and  *)
(* every bound.  The invariant has two parts: what the evaluator keeps     *)
(* (the shape of the C stack, INTOFF and INTON, signals noted) and what    *)
(* the tables of signals keep (traps, modes, the kernel's dispositions).   *)
(***************************************************************************)
EXTENDS Trap, SequenceTheorems, FiniteSetTheorems, WellFoundedInduction, TLAPS

(***************************************************************************)
(* The inductive invariant                                                 *)
(***************************************************************************)

\* cmdloop or the EXIT trap is at the bottom of the C stack and nowhere else;
\* the commands of a trap are called by dotrap, which calls nothing else; and
\* dotrap has saved the status its caller left.
GoodStack(s) ==
    /\ s \in Seq(Frames) /\ s # <<>>
    /\ s[1].kind \in {"top", "exit"}
    /\ \A i \in 2 .. Len(s) :
          /\ s[i].kind \notin {"top", "exit"}
          /\ s[i].kind = "act" <=> s[i - 1].kind = "scan"
          /\ s[i].kind = "scan" => s[i - 1].last = s[i].last

\* A dotrap is running when its frame is the last; between commands the last
\* frame holds $?.
Shape ==
    /\ Alive => GoodStack(stack) /\ (pc = "scan" <=> Top.kind = "scan")
    /\ pc \in {"run", "after", "scan"} => exitstatus = Top.last

\* Where the code is between an INTOFF and its INTON.
Within == pc \in {"setsig", "inton", "wait"} \cup Forks

\* There interrupts are off, and trapcmd is at a signal while in setsignal.
Locked ==
    /\ Within => suppressint >= 1
    /\ pc = "setsig" => arg \in Sigs

\* A dotrap on the stack has yet to come to signal s.
Scanning(st, s) == \E i \in DOMAIN st : st[i].kind = "scan" /\ st[i].next <= s

\* NoTrapLost, whatever the trap: it may be set after the signal has come.
Noted ==
    Alive => \A s \in Sigs : gotsig[s] => pendingsigs # 0 \/ cut \/ Scanning(stack, s)

\* The evaluator's part.
ControlInv == Shape /\ Locked /\ IntNotForgotten /\ InterruptsBalanced /\ Noted

\* trapcnt counts at least the traps with commands: exitshell drops the EXIT
\* trap without counting it off.
Actions == {s \in Sigs \cup {EXIT} : trap[s] = "action"}
TrapsCounted == trapcnt >= Cardinality(Actions)

\* What setsignal remembers is what the kernel does.
ModesAgree ==
    \A s \in Sigs :
        /\ sigmode[s] \in {"dfl", "ign", "catch"} => disp[s] = sigmode[s]
        /\ sigmode[s] = "hard" => disp[s] = "ign"
        /\ sigmode[s] = "unknown" => disp[s] # "catch"

\* The part of the tables of signals.
TableInv ==
    TrapsCounted /\ ModesAgree /\ DispositionsMatch /\ ExitTrapOwn /\ ExecRunsNoTrap

TrapInv == TypeOK /\ ControlInv /\ TableInv

(***************************************************************************)
(* Frames and stacks                                                       *)
(***************************************************************************)

\* The frames the actions build are frames.
LEMMA FramesMade ==
    /\ \A st \in Nat : \A k \in {"top", "fun", "sub", "scan", "act", "exit"} :
          /\ List(k, st) \in Frames
          /\ List(k, st).kind = k /\ List(k, st).last = st
    /\ \A st \in Nat :
          /\ Scan(st) \in Frames
          /\ Scan(st).kind = "scan" /\ Scan(st).last = st /\ Scan(st).next = 1
  BY TrapAssumption DEF List, Scan, Frames

\* The stack without its last frame.
LEMMA BelowIs ==
    ASSUME NEW s \in Seq(Frames), s # <<>>
    PROVE  /\ Front(s) \in Seq(Frames)
           /\ Len(s) \in Nat \ {0}
           /\ Len(Front(s)) = Len(s) - 1
           /\ DOMAIN Front(s) = 1 .. Len(s) - 1
           /\ \A i \in 1 .. Len(s) - 1 : Front(s)[i] = s[i]
  <1> DEFINE n == Len(s)
             b == SubSeq(s, 1, n - 1)
  <1>1. n \in Nat /\ n >= 1
    BY EmptySeq
  <1>2. Front(s) = b
    BY DEF Front
  <1>3. \A i \in 1 .. n - 1 : s[i] \in Frames
    BY <1>1, ElementOfSeq
  <1>4. /\ b \in Seq(Frames)
        /\ Len(b) = IF 1 <= n - 1 THEN n - 1 - 1 + 1 ELSE 0
        /\ \A i \in 1 .. n - 1 - 1 + 1 : b[i] = s[1 + i - 1]
    BY <1>1, <1>3, SubSeqProperties
  <1> HIDE DEF b, n
  <1>5. Len(b) = n - 1
    BY <1>1, <1>4
  <1>6. DOMAIN b = 1 .. n - 1
    BY <1>4, <1>5, LenProperties
  <1>7. \A i \in 1 .. n - 1 : b[i] = s[i]
    BY <1>1, <1>4
  <1> QED
    BY <1>1, <1>2, <1>4, <1>5, <1>6, <1>7 DEF n

\* A frame pushed on a stack.
LEMMA PushIs ==
    ASSUME NEW s \in Seq(Frames), NEW f \in Frames
    PROVE  /\ Append(s, f) \in Seq(Frames)
           /\ Append(s, f) # <<>>
           /\ Len(Append(s, f)) = Len(s) + 1
           /\ Len(s) \in Nat
           /\ DOMAIN Append(s, f) = 1 .. Len(s) + 1
           /\ Append(s, f)[Len(s) + 1] = f
           /\ \A i \in 1 .. Len(s) : Append(s, f)[i] = s[i]
  <1>1. Append(s, f) \in Seq(Frames) /\ Len(Append(s, f)) = Len(s) + 1
    BY AppendProperties
  <1>2. DOMAIN Append(s, f) = 1 .. Len(s) + 1 /\ Len(s) \in Nat
    BY <1>1, LenProperties
  <1> QED
    BY <1>1, <1>2, AppendProperties

\* What a good stack is like at its ends.
LEMMA StackEnds ==
    ASSUME NEW s, GoodStack(s)
    PROVE  /\ Len(s) \in Nat /\ Len(s) >= 1
           /\ DOMAIN s = 1 .. Len(s)
           /\ \A i \in 1 .. Len(s) : s[i] \in Frames
           /\ (\E i \in DOMAIN s : s[i].kind = "exit") <=> s[1].kind = "exit"
           /\ Len(s) >= 2 <=> s[Len(s)].kind \notin {"top", "exit"}
  <1> DEFINE n == Len(s)
  <1>1. n \in Nat /\ n >= 1
    BY EmptySeq DEF GoodStack
  <1>2. DOMAIN s = 1 .. n /\ \A i \in 1 .. n : s[i] \in Frames
    BY LenProperties, ElementOfSeq DEF GoodStack
  <1>3. \A i \in 2 .. n : s[i].kind \notin {"top", "exit"}
    BY DEF GoodStack
  <1>4. s[1].kind \in {"top", "exit"}
    BY DEF GoodStack
  <1> HIDE DEF n
  <1>5. (\E i \in DOMAIN s : s[i].kind = "exit") <=> s[1].kind = "exit"
    BY <1>1, <1>2, <1>3
  <1>6. n >= 2 <=> s[n].kind \notin {"top", "exit"}
    BY <1>1, <1>3, <1>4
  <1> QED
    BY <1>1, <1>2, <1>5, <1>6 DEF n

\* A new stack.
LEMMA NewStack ==
    ASSUME NEW f \in Frames, f.kind \in {"top", "exit"}
    PROVE  /\ GoodStack(<<f>>)
           /\ <<f>>[Len(<<f>>)] = f /\ <<f>>[1] = f
  BY DEF GoodStack

\* A call, a subshell, dotrap or the commands of a trap.
LEMMA PushStack ==
    ASSUME NEW s, GoodStack(s), NEW f \in Frames,
           f.kind \notin {"top", "exit"},
           f.kind = "act" <=> s[Len(s)].kind = "scan",
           f.kind = "scan" => s[Len(s)].last = f.last
    PROVE  /\ GoodStack(Append(s, f))
           /\ Append(s, f)[Len(Append(s, f))] = f
           /\ Append(s, f)[1] = s[1]
           /\ \A x : Scanning(s, x) => Scanning(Append(s, f), x)
           /\ \A x : f.kind = "scan" /\ f.next <= x => Scanning(Append(s, f), x)
  <1> DEFINE n == Len(s)
             t == Append(s, f)
  <1>1. /\ n \in Nat /\ n >= 1 /\ DOMAIN s = 1 .. n
        /\ s \in Seq(Frames) /\ s[1].kind \in {"top", "exit"}
        /\ \A i \in 2 .. n :
              /\ s[i].kind \notin {"top", "exit"}
              /\ s[i].kind = "act" <=> s[i - 1].kind = "scan"
              /\ s[i].kind = "scan" => s[i - 1].last = s[i].last
    BY StackEnds DEF GoodStack
  <1>2. /\ t \in Seq(Frames) /\ t # <<>> /\ Len(t) = n + 1 /\ DOMAIN t = 1 .. n + 1
        /\ t[n + 1] = f /\ \A i \in 1 .. n : t[i] = s[i]
    BY <1>1, PushIs
  <1>3. /\ f.kind = "act" <=> s[n].kind = "scan"
        /\ f.kind = "scan" => s[n].last = f.last
    OBVIOUS
  <1> HIDE DEF n, t
  <1>4. \A i \in 2 .. n + 1 :
            /\ t[i].kind \notin {"top", "exit"}
            /\ t[i].kind = "act" <=> t[i - 1].kind = "scan"
            /\ t[i].kind = "scan" => t[i - 1].last = t[i].last
    <2> TAKE i \in 2 .. n + 1
    <2>1. CASE i = n + 1
      BY <1>1, <1>2, <1>3, <2>1
    <2>2. CASE i # n + 1
      <3>1. i \in 2 .. n /\ i - 1 \in 1 .. n /\ i \in 1 .. n
        BY <1>1, <2>2
      <3> QED
        BY <1>1, <1>2, <3>1
    <2> QED
      BY <2>1, <2>2
  <1>5. GoodStack(t)
    BY <1>1, <1>2, <1>4 DEF GoodStack
  <1>6. t[Len(t)] = f /\ t[1] = s[1]
    BY <1>1, <1>2
  <1>7. \A x : Scanning(s, x) => Scanning(t, x)
    BY <1>1, <1>2 DEF Scanning
  <1>8. \A x : f.kind = "scan" /\ f.next <= x => Scanning(t, x)
    BY <1>1, <1>2 DEF Scanning
  <1> QED
    BY <1>5, <1>6, <1>7, <1>8 DEF t

\* A return: the last frame goes.
LEMMA PopStack ==
    ASSUME NEW s, GoodStack(s), s[Len(s)].kind \notin {"top", "exit"}
    PROVE  /\ GoodStack(Front(s))
           /\ Front(s)[1] = s[1]
           /\ Len(s) >= 2
           /\ Front(s)[Len(Front(s))] = s[Len(s) - 1]
           /\ s[Len(s)].kind = "act" <=> s[Len(s) - 1].kind = "scan"
           /\ s[Len(s)].kind = "scan" => s[Len(s) - 1].last = s[Len(s)].last
           /\ \A x : Scanning(s, x) => \/ Scanning(Front(s), x)
                                       \/ s[Len(s)].kind = "scan" /\ s[Len(s)].next <= x
  <1> DEFINE n == Len(s)
             t == Front(s)
  <1>1. /\ n \in Nat /\ n >= 2 /\ DOMAIN s = 1 .. n
        /\ s \in Seq(Frames) /\ s # <<>> /\ s[1].kind \in {"top", "exit"}
        /\ \A i \in 2 .. n :
              /\ s[i].kind \notin {"top", "exit"}
              /\ s[i].kind = "act" <=> s[i - 1].kind = "scan"
              /\ s[i].kind = "scan" => s[i - 1].last = s[i].last
    BY StackEnds DEF GoodStack
  <1>2. /\ t \in Seq(Frames) /\ Len(t) = n - 1 /\ DOMAIN t = 1 .. n - 1
        /\ \A i \in 1 .. n - 1 : t[i] = s[i]
    BY <1>1, BelowIs
  <1> HIDE DEF n, t
  <1>3. t # <<>>
    BY <1>1, <1>2, EmptySeq
  <1>4. GoodStack(t)
    <2>1. t[1].kind \in {"top", "exit"}
      BY <1>1, <1>2
    <2>2. \A i \in 2 .. n - 1 :
            /\ t[i].kind \notin {"top", "exit"}
            /\ t[i].kind = "act" <=> t[i - 1].kind = "scan"
            /\ t[i].kind = "scan" => t[i - 1].last = t[i].last
      <3> TAKE i \in 2 .. n - 1
      <3>1. i \in 2 .. n /\ i - 1 \in 1 .. n - 1 /\ i \in 1 .. n - 1
        BY <1>1
      <3> QED
        BY <1>1, <1>2, <3>1
    <2> QED
      BY <1>2, <1>3, <2>1, <2>2 DEF GoodStack
  <1>5. t[1] = s[1] /\ t[Len(t)] = s[n - 1]
    BY <1>1, <1>2
  <1>6. /\ s[n].kind = "act" <=> s[n - 1].kind = "scan"
        /\ s[n].kind = "scan" => s[n - 1].last = s[n].last
    BY <1>1
  <1>7. \A x : Scanning(s, x) => Scanning(t, x) \/ (s[n].kind = "scan" /\ s[n].next <= x)
    <2> SUFFICES ASSUME NEW x, NEW i \in 1 .. n, s[i].kind = "scan", s[i].next <= x, i # n
                 PROVE  Scanning(t, x)
      BY <1>1 DEF Scanning
    <2>1. i \in 1 .. n - 1
      BY <1>1
    <2> QED
      BY <1>2, <2>1 DEF Scanning
  <1> QED
    BY <1>1, <1>4, <1>5, <1>6, <1>7 DEF n, t

\* The last frame replaced by one of its kind.
LEMMA ReplStack ==
    ASSUME GoodStack(stack), NEW f \in Frames,
           f.kind = Top.kind, f.kind = "scan" => f.last = Top.last
    PROVE  /\ GoodStack(Repl(f))
           /\ Repl(f)[Len(Repl(f))] = f
           /\ Repl(f)[1].kind = stack[1].kind
           /\ \A x : Scanning(stack, x) => \/ Scanning(Repl(f), x)
                                           \/ f.kind = "scan" /\ Top.next <= x
           /\ \A x : f.kind = "scan" /\ f.next <= x => Scanning(Repl(f), x)
  <1>1. CASE Top.kind \in {"top", "exit"}
    <2> DEFINE n == Len(stack)
    <2>a. n \in Nat /\ n >= 1 /\ (n >= 2 <=> stack[n].kind \notin {"top", "exit"})
      BY StackEnds
    <2>b. stack[n].kind \in {"top", "exit"}
      BY <1>1 DEF Top
    <2> HIDE DEF n
    <2>c. n = 1
      BY <2>a, <2>b
    <2>1. Len(stack) = 1
      BY <2>c DEF n
    <2>2. Len(Below) = 0 /\ Below \in Seq(Frames)
      BY <2>1, BelowIs DEF Below, GoodStack
    <2>3. /\ Repl(f) \in Seq(Frames) /\ Repl(f) # <<>> /\ Len(Repl(f)) = 1
          /\ DOMAIN Repl(f) = 1 .. 1 /\ Repl(f)[1] = f
      <3>1. /\ Append(Below, f) \in Seq(Frames) /\ Append(Below, f) # <<>>
            /\ Len(Append(Below, f)) = 0 + 1 /\ DOMAIN Append(Below, f) = 1 .. 0 + 1
            /\ Append(Below, f)[0 + 1] = f
        BY <2>2, PushIs
      <3> QED
        BY <3>1 DEF Repl
    <2>4. GoodStack(Repl(f))
      BY <1>1, <2>3 DEF GoodStack
    <2>5. \A x : ~ Scanning(stack, x)
      BY <1>1, <2>1, StackEnds DEF Scanning, Top
    <2> QED
      BY <1>1, <2>1, <2>3, <2>4, <2>5 DEF Top
  <1>2. CASE Top.kind \notin {"top", "exit"}
    <2>1. /\ GoodStack(Below) /\ Below[1] = stack[1] /\ Len(stack) >= 2
          /\ Below[Len(Below)] = stack[Len(stack) - 1]
          /\ Top.kind = "act" <=> stack[Len(stack) - 1].kind = "scan"
          /\ Top.kind = "scan" => stack[Len(stack) - 1].last = Top.last
          /\ \A x : Scanning(stack, x) => \/ Scanning(Below, x)
                                          \/ Top.kind = "scan" /\ Top.next <= x
      BY <1>2, PopStack DEF Below, Top
    <2>2. /\ f.kind \notin {"top", "exit"}
          /\ f.kind = "act" <=> Below[Len(Below)].kind = "scan"
          /\ f.kind = "scan" => Below[Len(Below)].last = f.last
      BY <1>2, <2>1
    <2>3. /\ GoodStack(Repl(f))
          /\ Repl(f)[Len(Repl(f))] = f
          /\ Repl(f)[1] = Below[1]
          /\ \A x : Scanning(Below, x) => Scanning(Repl(f), x)
          /\ \A x : f.kind = "scan" /\ f.next <= x => Scanning(Repl(f), x)
      BY <2>1, <2>2, PushStack DEF Repl
    <2> QED
      BY <2>1, <2>3
  <1> QED
    BY <1>1, <1>2

(***************************************************************************)
(* Steps                                                                   *)
(***************************************************************************)

\* The last frame of a running shell.
LEMMA TopIs ==
    ASSUME TypeOK, Shape, Alive
    PROVE  /\ GoodStack(stack) /\ Top \in Frames
           /\ Top.kind \in {"top", "fun", "sub", "scan", "act", "exit"}
           /\ Top.left \in 0 .. ListLength /\ Top.last \in Nat /\ Top.next \in Nat
           /\ Exiting <=> stack[1].kind = "exit"
  <1>1. GoodStack(stack)
    BY DEF Shape
  <1>2. Top \in Frames
    BY <1>1, StackEnds DEF Top
  <1>3. Exiting <=> stack[1].kind = "exit"
    BY <1>1, StackEnds DEF Exiting
  <1> QED
    BY <1>1, <1>2, <1>3 DEF Frames

\* A command counted off its list.
LEMMA CountedIs ==
    ASSUME TypeOK, Shape, Alive, Top.kind = "top" \/ Top.left > 0
    PROVE  /\ Counted \in Frames /\ Counted.kind = Top.kind
           /\ Counted.last = Top.last /\ Counted.next = Top.next
           /\ [Counted EXCEPT !.skip = TRUE] \in Frames
           /\ [Counted EXCEPT !.skip = TRUE].kind = Top.kind
           /\ [Counted EXCEPT !.skip = TRUE].last = Top.last
           /\ [Counted EXCEPT !.skip = TRUE].next = Top.next
  <1> DEFINE left == IF Top.kind = "top" THEN Top.left ELSE Top.left - 1
             Same(f, skip) == f = [kind |-> Top.kind, left |-> left, last |-> Top.last,
                                   skip |-> skip, next |-> Top.next]
  <1>1. Top \in Frames /\ Top.left \in 0 .. ListLength
    BY TopIs
  <1>2. left \in 0 .. ListLength
    BY <1>1, TrapAssumption
  <1>3. Same(Top, Top.skip) \/ left = Top.left - 1
    BY <1>1 DEF Frames
  <1>4. Same(Counted, Top.skip)
    BY <1>1, <1>3 DEF Counted, Frames
  <1> HIDE DEF left
  <1>5. Counted \in Frames
    BY <1>1, <1>2, <1>4 DEF Frames
  <1>6. \A f \in Frames : LET g == [f EXCEPT !.skip = TRUE] IN
            g \in Frames /\ g.kind = f.kind /\ g.last = f.last /\ g.next = f.next
    BY DEF Frames
  <1> QED
    BY <1>4, <1>5, <1>6

\* A step of the evaluator that is no exception.
LEMMA ControlStep ==
    ASSUME TypeOK, ControlInv, Alive,
           GoodStack(stack'), stack'[1].kind = stack[1].kind,
           pc' = "scan" <=> Top'.kind = "scan",
           pc' \in {"run", "after", "scan"} => exitstatus' = Top'.last,
           Within  => suppressint' = IF Within' THEN suppressint ELSE suppressint - 1,
           ~Within => suppressint' = IF Within' THEN suppressint + 1 ELSE suppressint,
           intpending' = intpending,
           intpending => suppressint' > 0,
           pc' = "setsig" => arg' \in Sigs,
           Noted'
    PROVE  ControlInv'
  <1>1. Exiting' <=> Exiting
    <2>1. Exiting' <=> stack'[1].kind = "exit"
      BY StackEnds DEF Exiting
    <2> QED
      BY <2>1, TopIs DEF ControlInv
  <1>2. Shape'
    BY DEF Shape
  <1>3. suppressint \in Nat
    BY DEF TypeOK
  <1>4. Locked'
    BY <1>3 DEF ControlInv, Locked, Within
  <1>5. InterruptsBalanced'
    BY <1>1, <1>3 DEF ControlInv, InterruptsBalanced, Within
  <1> QED
    BY <1>2, <1>4, <1>5 DEF ControlInv, IntNotForgotten

\* Signals noted stay noted while no dotrap ends.
LEMMA NotedKept ==
    ASSUME Noted, Alive, UNCHANGED <<gotVars, cut>>,
           \A s \in Sigs : Scanning(stack, s) => Scanning(stack', s)
    PROVE  Noted'
  BY DEF Noted, gotVars

\* Signals are numbers from 1 to 64.
LEMMA SigsAre == Sigs \subseteq 1 .. 64 /\ Sigs \subseteq Nat /\ \A s \in Sigs : 1 <= s
  <1>1. Sigs \subseteq 1 .. 64
    BY TrapAssumption
  <1>2. 1 .. 64 \subseteq Nat /\ \A s \in 1 .. 64 : 1 <= s
    OBVIOUS
  <1> QED
    BY <1>1, <1>2

\* The traps with commands are finitely many.
LEMMA ActionsFinite == IsFiniteSet(Actions) /\ Cardinality(Actions) \in Nat
  <1>1. IsFiniteSet(0 .. 64)
    <2>1. 0 \in Int /\ 64 \in Int
      OBVIOUS
    <2> QED
      BY <2>1, FS_Interval
  <1>2. Actions \subseteq 0 .. 64
    <2>1. 1 .. 64 \subseteq 0 .. 64 /\ 0 \in 0 .. 64
      OBVIOUS
    <2> QED
      BY <2>1, SigsAre DEF Actions, EXIT
  <1> QED
    BY <1>1, <1>2, FS_Subset, FS_CardinalityType

\* Steps that leave the tables of signals alone.
LEMMA TablesKept ==
    ASSUME TableInv, Alive, UNCHANGED <<sigVars, shVars>>,
           pc = "setsig" => UNCHANGED <<pc, arg>>,
           pc' # "exec"
    PROVE  TableInv'
  <1>1. TrapsCounted' /\ ModesAgree' /\ ExitTrapOwn'
    BY DEF TableInv, TrapsCounted, Actions, ModesAgree, ExitTrapOwn, sigVars, shVars, Alive
  <1>2. DispositionsMatch'
    BY DEF TableInv, DispositionsMatch, IgnoredFixed, sigVars, shVars, Alive, rootshell
  <1>3. ExecRunsNoTrap'
    BY DEF ExecRunsNoTrap
  <1> QED
    BY <1>1, <1>2, <1>3 DEF TableInv

(***************************************************************************)
(* Exceptions and the end of the shell                                     *)
(***************************************************************************)

\* A signal may be noted on the way.
GotStep ==
    /\ gotsig' \in [Sigs -> BOOLEAN] /\ pendingsigs' \in Sigs \cup {0}
    /\ UNCHANGED gotVars \/ pendingsigs' # 0

LEMMA GotSame ==
    ASSUME TypeOK, UNCHANGED gotVars
    PROVE  GotStep
  BY DEF TypeOK, GotStep, gotVars

\* The process dies.
LEMMA DeadKeeps ==
    ASSUME TrapInv, Alive, Gone("dead"), GotStep
    PROVE  TrapInv'
  <1>1. TypeOK'
    <2>1. <<>> \in Seq(Frames)
      BY EmptySeq
    <2> QED
      BY <2>1 DEF TrapInv, TypeOK, Gone, GotStep, sigVars, intVars, shVars
  <1>2. ControlInv'
    BY DEF Gone, ControlInv, Shape, Locked, Within, Forks, IntNotForgotten,
           InterruptsBalanced, Noted, Alive
  <1>3. TableInv'
    BY DEF Gone, TrapInv, TableInv, TrapsCounted, Actions, ModesAgree, DispositionsMatch,
           ExitTrapOwn, ExecRunsNoTrap, Alive, sigVars
  <1> QED
    BY <1>1, <1>2, <1>3 DEF TrapInv

\* What the long jumps leave: a new stack, signals noted or a scan cut short.
LEMMA NotedCut ==
    ASSUME Noted, Alive, GotStep, cut' = Unwound
    PROVE  Noted'
  <1>1. (cut => Unwound) /\ \A s : Scanning(stack, s) => Unwound
    BY DEF Scanning, Unwound
  <1> QED
    BY <1>1 DEF Noted, GotStep, gotVars

\* exitshell: the EXIT trap is run, or the process ends.
LEMMA ExitshellKeeps ==
    ASSUME TrapInv, Alive, pc # "setsig", GotStep,
           NEW st \in Nat, NEW off \in Nat, NEW pending \in BOOLEAN, pending => off > 0,
           Exitshell(st, off, pending)
    PROVE  TrapInv'
  <1>1. CASE trap[EXIT] # "action"
    BY <1>1, DeadKeeps DEF Exitshell
  <1>2. CASE trap[EXIT] = "action"
    <2>1. /\ trap' = [trap EXCEPT ![EXIT] = "none"]
          /\ evalskip' = FALSE /\ exitstatus' = st /\ stack' = <<List("exit", st)>>
          /\ pc' = "run" /\ suppressint' = off /\ intpending' = pending
          /\ cut' = Unwound /\ arg' = 0
          /\ UNCHANGED <<trapcnt, sigmode, disp, setter, shVars>>
      BY <1>2 DEF Exitshell
    <2>2. /\ List("exit", st) \in Frames /\ List("exit", st).kind = "exit"
          /\ List("exit", st).last = st
      BY FramesMade
    <2>3. GoodStack(stack') /\ Top' = List("exit", st) /\ stack'[1].kind = "exit"
      BY <2>1, <2>2, NewStack DEF Top
    <2>4. trap' \in [Sigs \cup {EXIT} -> {"none", "empty", "action"}]
      BY <2>1 DEF TrapInv, TypeOK
    <2>5. cut' \in BOOLEAN
      BY <2>1 DEF Unwound, TrapInv, TypeOK
    <2>6. TypeOK'
      BY <2>1, <2>3, <2>4, <2>5 DEF GoodStack, TrapInv, TypeOK, GotStep, shVars
    <2>7. Exiting'
      BY <2>3, StackEnds DEF Exiting
    <2>8. Noted'
      BY <2>1, NotedCut DEF TrapInv, ControlInv
    <2>9. ControlInv'
      BY <2>1, <2>2, <2>3, <2>7, <2>8
         DEF ControlInv, Shape, Locked, Within, Forks, IntNotForgotten, InterruptsBalanced
    <2>10. /\ \A s \in Sigs : trap'[s] = trap[s]
           /\ trap'[EXIT] = "none"
           /\ Actions' = Actions \ {EXIT}
      BY <2>1, <2>4, TrapAssumption DEF TrapInv, TypeOK, EXIT, Actions
    <2>11. TrapsCounted'
      <3>1. Cardinality(Actions \ {EXIT}) \in {Cardinality(Actions), Cardinality(Actions) - 1}
        BY ActionsFinite, FS_RemoveElement
      <3> QED
        BY <2>1, <2>10, <3>1, ActionsFinite DEF TrapInv, TableInv, TrapsCounted, TypeOK
    <2>12. TableInv'
      BY <2>1, <2>10, <2>11
         DEF TrapInv, TableInv, ModesAgree, DispositionsMatch, IgnoredFixed, ExitTrapOwn,
             ExecRunsNoTrap, shVars, rootshell, Alive
    <2> QED
      BY <2>6, <2>9, <2>12 DEF TrapInv
  <1> QED
    BY <1>1, <1>2

\* exraise: out of the exit trap, to the exit of the shell, or to its prompt.
LEMMA ExraiseKeeps ==
    ASSUME TrapInv, Alive, pc # "setsig", GotStep,
           NEW e, NEW st \in Nat, NEW pending \in BOOLEAN,
           Exraise(e, st, pending)
    PROVE  TrapInv'
  <1>1. suppressint + 1 \in Nat /\ suppressint + 1 > 0
    BY DEF TrapInv, TypeOK
  <1>2. CASE Exiting
    BY <1>2, DeadKeeps DEF Exraise
  <1>3. CASE ~Exiting /\ (e = "exit" \/ ~iflag \/ shlvl > 0)
    <2>1. Exitshell(st, suppressint + 1, pending)
      BY <1>3 DEF Exraise
    <2> QED
      BY <1>1, <2>1, ExitshellKeeps
  <1>4. CASE ~Exiting /\ ~(e = "exit" \/ ~iflag \/ shlvl > 0)
    <2>1. /\ evalskip' = FALSE /\ exitstatus' = st /\ stack' = <<List("top", st)>>
          /\ pc' = "run" /\ suppressint' = 0 /\ intpending' = FALSE
          /\ cut' = Unwound /\ arg' = 0
          /\ UNCHANGED <<sigVars, shVars>>
      BY <1>4 DEF Exraise
    <2>2. /\ List("top", st) \in Frames /\ List("top", st).kind = "top"
          /\ List("top", st).last = st
      BY FramesMade
    <2>3. GoodStack(stack') /\ Top' = List("top", st) /\ stack'[1].kind = "top"
      BY <2>1, <2>2, NewStack DEF Top
    <2>4. cut' \in BOOLEAN
      BY <2>1 DEF Unwound, TrapInv, TypeOK
    <2>5. TypeOK'
      BY <2>1, <2>3, <2>4 DEF GoodStack, TrapInv, TypeOK, GotStep, sigVars, shVars
    <2>6. Noted'
      BY <2>1, NotedCut DEF TrapInv, ControlInv
    <2>7. ControlInv'
      BY <2>1, <2>2, <2>3, <2>6
         DEF ControlInv, Shape, Locked, Within, Forks, IntNotForgotten, InterruptsBalanced
    <2>8. TableInv'
      BY <2>1, TablesKept DEF TrapInv
    <2> QED
      BY <2>5, <2>7, <2>8 DEF TrapInv
  <1> QED
    BY <1>2, <1>3, <1>4

\* onint.
LEMMA OnintKeeps ==
    ASSUME TrapInv, Alive, pc # "setsig", GotStep, Onint
    PROVE  TrapInv'
  <1>1. CASE rootshell /\ iflag
    <2>1. PICK st \in {exitstatus, SIGINT + 128} : Exraise("int", st, FALSE)
      BY <1>1 DEF Onint
    <2>2. st \in Nat
      BY DEF TrapInv, TypeOK, SIGINT
    <2> QED
      BY <2>1, <2>2, ExraiseKeeps
  <1>2. CASE ~(rootshell /\ iflag)
    BY <1>2, DeadKeeps DEF Onint
  <1> QED
    BY <1>1, <1>2

(***************************************************************************)
(* Commands                                                                *)
(***************************************************************************)

\* The last frame is changed outside of dotrap.
LEMMA ReplStep ==
    ASSUME TrapInv, Alive, pc # "scan", NEW f \in Frames, f.kind = Top.kind, stack' = Repl(f)
    PROVE  /\ GoodStack(stack') /\ stack' \in Seq(Frames)
           /\ Top' = f /\ f.kind # "scan"
           /\ stack'[1].kind = stack[1].kind
           /\ \A x : Scanning(stack, x) => Scanning(stack', x)
  <1>1. GoodStack(stack) /\ Top.kind # "scan"
    BY DEF TrapInv, ControlInv, Shape
  <1>2. GoodStack(stack') /\ stack'[Len(stack')] = f /\ stack'[1].kind = stack[1].kind
    BY <1>1, ReplStack
  <1>3. \A x : Scanning(stack, x) => Scanning(stack', x)
    BY <1>1, ReplStack
  <1> QED
    BY <1>1, <1>2, <1>3 DEF Top, GoodStack

\* A command begins.
LEMMA CommandStep ==
    ASSUME TrapInv, NEW c, Next1(c), stack' = Repl(Counted) \/ stack' = Repl([Counted EXCEPT !.skip = TRUE])
    PROVE  /\ Alive /\ pc = "run"
           /\ GoodStack(stack') /\ stack' \in Seq(Frames)
           /\ Top'.kind # "scan" /\ Top'.last = exitstatus
           /\ stack'[1].kind = stack[1].kind
           /\ \A x : Scanning(stack, x) => Scanning(stack', x)
  <1>1. Alive /\ pc = "run" /\ (Top.kind = "top" \/ Top.left > 0)
    BY DEF Next1, Alive
  <1>2. TypeOK /\ Shape
    BY DEF TrapInv, ControlInv
  <1>3. PICK f \in {Counted, [Counted EXCEPT !.skip = TRUE]} : stack' = Repl(f)
    OBVIOUS
  <1>4. f \in Frames /\ f.kind = Top.kind /\ f.last = Top.last
    BY <1>1, <1>2, CountedIs
  <1>5. Top.last = exitstatus
    BY <1>1, <1>2 DEF Shape
  <1> QED
    BY <1>1, <1>3, <1>4, <1>5, ReplStep

\* Steps that touch no table, exception or INTOFF.
LEMMA PlainStep ==
    ASSUME TrapInv, Alive, pc # "setsig",
           GoodStack(stack'), stack'[1].kind = stack[1].kind,
           pc' \in {"run", "out", "after", "scan", "inton", "wait"} \cup Forks,
           pc' = "scan" <=> Top'.kind = "scan",
           pc' \in {"run", "after", "scan"} => exitstatus' = Top'.last,
           Within' <=> Within,
           UNCHANGED <<sigVars, intVars, shVars, arg>>,
           exitstatus' \in Nat, evalskip' \in BOOLEAN, cut' \in BOOLEAN,
           gotsig' \in [Sigs -> BOOLEAN], pendingsigs' \in Sigs \cup {0},
           Noted'
    PROVE  TrapInv'
  <1>1. TypeOK'
    BY DEF TrapInv, TypeOK, sigVars, intVars, shVars, GoodStack
  <1>2. ControlInv'
    <2>1. TypeOK /\ ControlInv /\ pc' # "setsig"
      BY DEF TrapInv, Forks
    <2>2. /\ suppressint' = suppressint /\ intpending' = intpending
          /\ intpending => suppressint > 0
      BY <2>1 DEF intVars, ControlInv, IntNotForgotten
    <2> QED
      BY <2>1, <2>2, ControlStep
  <1>3. TableInv'
    BY TablesKept DEF TrapInv, Forks
  <1> QED
    BY <1>1, <1>2, <1>3 DEF TrapInv

\* Those that note and forget no signal.
LEMMA QuietStep ==
    ASSUME TrapInv, Alive, pc # "setsig",
           GoodStack(stack'), stack'[1].kind = stack[1].kind,
           pc' \in {"run", "out", "after", "inton", "wait"} \cup Forks,
           Top'.kind # "scan",
           pc' \in {"run", "after"} => exitstatus' = Top'.last,
           Within' <=> Within,
           \A s \in Sigs : Scanning(stack, s) => Scanning(stack', s),
           UNCHANGED <<sigVars, gotVars, cut, intVars, shVars, arg>>,
           exitstatus' \in Nat, evalskip' \in BOOLEAN
    PROVE  TrapInv'
  <1>1. Noted'
    BY NotedKept DEF TrapInv, ControlInv
  <1>2. /\ gotsig' \in [Sigs -> BOOLEAN] /\ pendingsigs' \in Sigs \cup {0}
        /\ cut' \in BOOLEAN
    BY DEF TrapInv, TypeOK, gotVars
  <1> QED
    BY <1>1, <1>2, PlainStep DEF Forks

LEMMA BuiltinKeeps ==
    ASSUME TrapInv, Builtin
    PROVE  TrapInv'
  <1>1. Next1("builtin") /\ stack' = Repl(Counted)
    BY DEF Builtin
  <1>2. /\ exitstatus' \in Nat /\ evalskip' \in BOOLEAN /\ pc' = "out"
        /\ UNCHANGED <<sigVars, gotVars, cut, intVars, shVars, evalskip, arg>>
    BY TrapAssumption DEF Builtin, TrapInv, TypeOK
  <1> QED
    BY <1>1, <1>2, CommandStep, QuietStep DEF Within, Forks

\* An error in a regular builtin forces interrupts on, or becomes the SIGINT
\* that was pending.
LEMMA FailingKeeps ==
    ASSUME TrapInv, Failing
    PROVE  TrapInv'
  <1>1. Alive /\ pc = "run" /\ UNCHANGED gotVars
    BY DEF Failing, Next1, Alive
  <1>2. GotStep
    BY <1>1, GotSame DEF TrapInv
  <1>3. CASE intpending
    BY <1>1, <1>2, <1>3, OnintKeeps DEF Failing
  <1>4. CASE ~intpending
    <2>1. /\ Next1("failing") /\ stack' = Repl(Counted)
          /\ suppressint' = 0 /\ exitstatus' = 2 /\ pc' = "out"
          /\ UNCHANGED <<sigVars, gotVars, cut, intpending, shVars, evalskip, arg>>
      BY <1>4 DEF Failing
    <2>2. /\ GoodStack(stack') /\ stack' \in Seq(Frames)
          /\ Top'.kind # "scan" /\ stack'[1].kind = stack[1].kind
          /\ \A x : Scanning(stack, x) => Scanning(stack', x)
      BY <2>1, CommandStep
    <2>3. TypeOK'
      BY <2>1, <2>2 DEF TrapInv, TypeOK, sigVars, gotVars, shVars
    <2>4. Noted'
      BY <1>1, <2>1, <2>2, NotedKept DEF TrapInv, ControlInv
    <2>5. ControlInv'
      <3>1. Shape'
        BY <2>1, <2>2 DEF Shape
      <3>2. Locked' /\ IntNotForgotten' /\ InterruptsBalanced'
        BY <1>4, <2>1 DEF Locked, Within, Forks, IntNotForgotten, InterruptsBalanced
      <3> QED
        BY <2>4, <3>1, <3>2 DEF ControlInv
    <2>6. TableInv'
      BY <1>1, <2>1, TablesKept DEF TrapInv
    <2> QED
      BY <2>3, <2>5, <2>6 DEF TrapInv
  <1> QED
    BY <1>3, <1>4

LEMMA RaisingKeeps ==
    ASSUME TrapInv, Error \/ Exitcmd \/ Forkfails
    PROVE  TrapInv'
  <1>1. Alive /\ pc # "setsig" /\ UNCHANGED gotVars
    BY DEF Error, Exitcmd, Forkfails, Next1, Alive, Forks
  <1>2. GotStep /\ intpending \in BOOLEAN
    BY <1>1, GotSame DEF TrapInv, TypeOK
  <1>3. \E e \in {"error", "exit"}, st \in Nat : Exraise(e, st, intpending)
    <2>1. exitstatus \in Nat /\ Statuses \subseteq Nat
      BY TrapAssumption DEF TrapInv, TypeOK
    <2> QED
      BY <2>1 DEF Error, Exitcmd, Forkfails
  <1> QED
    BY <1>1, <1>2, <1>3, ExraiseKeeps

LEMMA CallKeeps ==
    ASSUME TrapInv, Call
    PROVE  TrapInv'
  <1>1. /\ Alive /\ pc = "run" /\ pc' = "run"
        /\ Top.kind = "top" \/ Top.left > 0
        /\ stack' = Append(Repl(Counted), List("fun", exitstatus))
        /\ UNCHANGED <<sigVars, gotVars, cut, intVars, shVars, evalskip, exitstatus, arg>>
    BY DEF Call, Next1, Alive
  <1>2. TypeOK /\ Shape /\ GoodStack(stack) /\ Top.kind # "scan" /\ exitstatus \in Nat
        /\ evalskip \in BOOLEAN
    BY <1>1 DEF TrapInv, ControlInv, Shape, TypeOK
  <1>3. Counted \in Frames /\ Counted.kind = Top.kind
    BY <1>1, <1>2, CountedIs
  <1> DEFINE f == List("fun", exitstatus)
             s == Repl(Counted)
  <1>4. /\ GoodStack(s) /\ s[Len(s)].kind # "scan" /\ s[1].kind = stack[1].kind
        /\ \A x : Scanning(stack, x) => Scanning(s, x)
    BY <1>2, <1>3, ReplStack
  <1>5. f \in Frames /\ f.kind = "fun" /\ f.last = exitstatus
    BY <1>2, FramesMade
  <1> HIDE DEF f, s
  <1>6. /\ GoodStack(Append(s, f)) /\ Append(s, f)[Len(Append(s, f))] = f
        /\ Append(s, f)[1].kind = stack[1].kind
        /\ \A x : Scanning(s, x) => Scanning(Append(s, f), x)
    BY <1>4, <1>5, PushStack
  <1>7. stack' = Append(s, f)
    BY <1>1 DEF s, f
  <1>8. GoodStack(stack') /\ Top' = f /\ stack'[1].kind = stack[1].kind
        /\ \A x : Scanning(stack, x) => Scanning(stack', x)
    BY <1>4, <1>6, <1>7 DEF Top
  <1> QED
    BY <1>1, <1>2, <1>5, <1>8, QuietStep DEF Within, Forks

LEMMA ReturnKeeps ==
    ASSUME TrapInv, Return
    PROVE  TrapInv'
  <1>1. Next1("return") /\ stack' = Repl([Counted EXCEPT !.skip = TRUE])
    BY DEF Return
  <1>2. /\ exitstatus' \in Nat /\ evalskip' \in BOOLEAN /\ pc' = "out"
        /\ UNCHANGED <<sigVars, gotVars, cut, intVars, shVars, exitstatus, arg>>
    BY DEF Return, TrapInv, TypeOK
  <1> QED
    BY <1>1, <1>2, CommandStep, QuietStep DEF Within, Forks

LEMMA EofKeeps ==
    ASSUME TrapInv, Eof \/ TopEnd
    PROVE  TrapInv'
  <1>1. /\ Alive /\ pc # "setsig" /\ UNCHANGED gotVars
        /\ Exitshell(exitstatus, suppressint, intpending)
    BY DEF Eof, TopEnd, Alive
  <1>2. /\ GotStep /\ intpending \in BOOLEAN /\ exitstatus \in Nat /\ suppressint \in Nat
        /\ intpending => suppressint > 0
    BY <1>1, GotSame DEF TrapInv, TypeOK, ControlInv, IntNotForgotten
  <1> QED
    BY <1>1, <1>2, ExitshellKeeps

(***************************************************************************)
(* Processes                                                               *)
(***************************************************************************)

\* The INTON after trapcmd or a fork: a SIGINT noted meanwhile is now acted on.
LEMMA IntonKeeps ==
    ASSUME TrapInv, Inton
    PROVE  TrapInv'
  <1>1. Alive /\ pc = "inton" /\ UNCHANGED gotVars
    BY DEF Inton, Alive
  <1>2. CASE suppressint = 1 /\ intpending
    BY <1>1, <1>2, GotSame, OnintKeeps DEF Inton, TrapInv
  <1>3. CASE ~(suppressint = 1 /\ intpending)
    <2>1. /\ suppressint' = suppressint - 1 /\ pc' = "out"
          /\ UNCHANGED <<sigVars, cut, intpending, shVars, evalskip, exitstatus, stack, arg>>
      BY <1>3 DEF Inton
    <2>2. suppressint \in Nat /\ suppressint >= 1
      BY <1>1 DEF TrapInv, TypeOK, ControlInv, Locked, Within
    <2>3. TypeOK'
      BY <1>1, <2>1, <2>2 DEF TrapInv, TypeOK, sigVars, gotVars, shVars
    <2>4. GoodStack(stack) /\ Top.kind # "scan"
      BY <1>1 DEF TrapInv, ControlInv, Shape
    <2>5. Noted'
      BY <1>1, <2>1, NotedKept DEF TrapInv, ControlInv
    <2>6. Within /\ ~Within'
      BY <1>1, <2>1 DEF Within, Forks
    <2>7. GoodStack(stack') /\ Top'.kind # "scan" /\ stack'[1].kind = stack[1].kind
      BY <2>1, <2>4 DEF Top
    <2>8. ControlInv'
      BY <1>1, <1>3, <2>1, <2>2, <2>5, <2>6, <2>7, ControlStep DEF TrapInv
    <2>9. TableInv'
      BY <1>1, <2>1, TablesKept DEF TrapInv
    <2> QED
      BY <2>3, <2>8, <2>9 DEF TrapInv
  <1> QED
    BY <1>2, <1>3

LEMMA ForkKeeps ==
    ASSUME TrapInv, Fork
    PROVE  TrapInv'
  <1>1. PICK c \in Forks : Next1(c) /\ pc' = c
    BY DEF Fork
  <1>2. /\ stack' = Repl(Counted) /\ suppressint' = suppressint + 1
        /\ UNCHANGED <<sigVars, gotVars, cut, intpending, shVars, evalskip, exitstatus, arg>>
    BY DEF Fork
  <1>3. /\ Alive /\ pc = "run"
        /\ GoodStack(stack') /\ stack' \in Seq(Frames)
        /\ Top'.kind # "scan" /\ stack'[1].kind = stack[1].kind
        /\ \A x : Scanning(stack, x) => Scanning(stack', x)
    BY <1>1, <1>2, CommandStep
  <1>4. TypeOK'
    BY <1>1, <1>2, <1>3 DEF TrapInv, TypeOK, sigVars, gotVars, shVars
  <1>5. Noted'
    BY <1>2, <1>3, NotedKept DEF TrapInv, ControlInv
  <1>6. ~Within /\ Within' /\ pc' \notin {"run", "after", "scan", "setsig", "exec"}
    BY <1>1, <1>3 DEF Within, Forks
  <1>7. suppressint' > 0
    BY <1>2 DEF TrapInv, TypeOK
  <1>8. ControlInv'
    BY <1>2, <1>3, <1>5, <1>6, <1>7, ControlStep DEF TrapInv
  <1>9. TableInv'
    BY <1>2, <1>3, <1>6, TablesKept DEF TrapInv
  <1> QED
    BY <1>4, <1>8, <1>9 DEF TrapInv

\* The parent goes on, or waits and has the child's status.
LEMMA ParentKeeps ==
    ASSUME TrapInv, Forkparent \/ Waited
    PROVE  TrapInv'
  <1>1. /\ Alive /\ pc \in {"wait"} \cup Forks /\ pc' \in {"inton", "wait"}
        /\ UNCHANGED <<sigVars, gotVars, cut, intVars, shVars, evalskip, stack, arg>>
    BY DEF Forkparent, Waited, Forks, Alive
  <1>2. exitstatus' \in Nat /\ evalskip' \in BOOLEAN
    <2>1. exitstatus \in Nat /\ evalskip \in BOOLEAN
      BY DEF TrapInv, TypeOK
    <2>2. Statuses \subseteq Nat
      BY TrapAssumption
    <2>3. exitstatus' \in {0, exitstatus} \cup Statuses
      BY DEF Forkparent, Waited
    <2> QED
      BY <1>1, <2>1, <2>2, <2>3
  <1>3. GoodStack(stack') /\ Top'.kind # "scan" /\ stack'[1].kind = stack[1].kind
    BY <1>1 DEF TrapInv, ControlInv, Shape, Forks, Top
  <1>4. Within' <=> Within
    BY <1>1 DEF Within, Forks
  <1> QED
    BY <1>1, <1>2, <1>3, <1>4, QuietStep DEF Forks

\* The last command of a process, without a fork: no trap is counted, hence
\* none is set.
LEMMA NoforkKeeps ==
    ASSUME TrapInv, Nofork
    PROVE  TrapInv'
  <1>1. /\ Alive /\ pc = "run" /\ Top.kind = "sub" /\ trapcnt = 0 /\ UNCHANGED gotVars
    BY DEF Nofork, EvExit, HaveTraps, Alive, TrapInv, TypeOK
  <1>2. CASE Gone("exec")
    <2>1. TypeOK'
      <3>1. <<>> \in Seq(Frames)
        BY EmptySeq
      <3> QED
        BY <1>1, <1>2, <3>1
           DEF Gone, TrapInv, TypeOK, sigVars, gotVars, intVars, shVars
    <2>2. ControlInv'
      BY <1>2 DEF Gone, ControlInv, Shape, Locked, Within, Forks, IntNotForgotten,
                  InterruptsBalanced, Noted, Alive
    <2>3. Cardinality(Actions) = 0
      BY <1>1, ActionsFinite DEF TrapInv, TableInv, TrapsCounted
    <2>4. Actions = {}
      BY <2>3, ActionsFinite, FS_EmptySet
    <2>5. \A s \in DOMAIN trap : trap[s] # "action"
      BY <2>4 DEF Actions, TrapInv, TypeOK
    <2>6. TableInv'
      BY <1>2, <2>5 DEF Gone, TrapInv, TableInv, TrapsCounted, Actions, ModesAgree,
         DispositionsMatch, ExitTrapOwn, ExecRunsNoTrap, Alive, sigVars
    <2> QED
      BY <2>1, <2>2, <2>6 DEF TrapInv
  <1>3. CASE ~Gone("exec")
    <2>1. /\ stack' = Repl(List("sub", exitstatus))
          /\ UNCHANGED <<sigVars, cut, intVars, shVars, evalskip, exitstatus, pc, arg>>
      BY <1>3 DEF Nofork
    <2>2. exitstatus \in Nat /\ evalskip \in BOOLEAN
      BY DEF TrapInv, TypeOK
    <2>3. List("sub", exitstatus) \in Frames /\ List("sub", exitstatus).kind = "sub"
          /\ List("sub", exitstatus).last = exitstatus
      BY <2>2, FramesMade
    <2>4. /\ GoodStack(stack') /\ Top' = List("sub", exitstatus)
          /\ stack'[1].kind = stack[1].kind
          /\ \A x : Scanning(stack, x) => Scanning(stack', x)
      BY <1>1, <2>1, <2>3, ReplStep
    <2> QED
      BY <1>1, <2>1, <2>2, <2>3, <2>4, QuietStep DEF Within, Forks
  <1> QED
    BY <1>2, <1>3

(***************************************************************************)
(* Traps                                                                   *)
(***************************************************************************)

\* The signal dotrap takes next is the least due.
LEMMA MinDue ==
    ASSUME DueSigs # {}
    PROVE  Min(DueSigs) \in DueSigs /\ \A s \in DueSigs : Min(DueSigs) <= s
  <1>1. DueSigs \subseteq Nat
    BY SigsAre DEF DueSigs
  <1>2. PICK x \in DueSigs : \A y \in DueSigs : ~ (<<y, x>> \in OpToRel(<, Nat))
    BY <1>1, NatLessThanWellFounded, WFMin
  <1>3. \A y \in Nat : y < x => <<y, x>> \in OpToRel(<, Nat)
    BY <1>1 DEF OpToRel
  <1>4. \A y \in DueSigs : x <= y
    <2> TAKE y \in DueSigs
    <2>1. x \in Nat /\ y \in Nat /\ ~(y < x)
      BY <1>1, <1>2, <1>3
    <2> QED
      BY <2>1
  <1> QED
    BY <1>4 DEF Min

LEMMA DoneIs ==
    ASSUME TrapInv, Alive
    PROVE  /\ [Top EXCEPT !.last = exitstatus] \in Frames
           /\ [Top EXCEPT !.last = exitstatus].kind = Top.kind
           /\ [Top EXCEPT !.last = exitstatus].last = exitstatus
  <1>1. Top \in Frames /\ exitstatus \in Nat
    BY TopIs DEF TrapInv, ControlInv, TypeOK
  <1> QED
    BY <1>1 DEF Frames

LEMMA DotrapCallKeeps ==
    ASSUME TrapInv, Dotrap
    PROVE  TrapInv'
  <1>1. /\ Alive /\ pc = "out" /\ pc' = "scan"
        /\ stack' = Append(Done, Scan(exitstatus))
        /\ pendingsigs' = 0 /\ cut' = FALSE
        /\ UNCHANGED <<sigVars, gotsig, intVars, shVars, evalskip, exitstatus, arg>>
    BY DEF Dotrap, Alive
  <1>2. GoodStack(stack) /\ Top.kind # "scan" /\ exitstatus \in Nat
    BY <1>1 DEF TrapInv, ControlInv, Shape, TypeOK
  <1> DEFINE d == Done
             f == Scan(exitstatus)
  <1>3. /\ GoodStack(d) /\ d[1].kind = stack[1].kind
        /\ d[Len(d)].kind # "scan" /\ d[Len(d)].last = exitstatus
    BY <1>1, <1>2, DoneIs, ReplStack DEF Done
  <1>4. f \in Frames /\ f.kind = "scan" /\ f.last = exitstatus /\ f.next = 1
    BY <1>2, FramesMade
  <1> HIDE DEF d, f
  <1>5. /\ GoodStack(Append(d, f)) /\ Append(d, f)[Len(Append(d, f))] = f
        /\ Append(d, f)[1].kind = stack[1].kind
        /\ \A x : 1 <= x => Scanning(Append(d, f), x)
    BY <1>3, <1>4, PushStack
  <1>6. stack' = Append(d, f)
    BY <1>1 DEF d, f
  <1>7. GoodStack(stack') /\ Top' = f /\ stack'[1].kind = stack[1].kind
    BY <1>5, <1>6 DEF Top
  <1>8. Noted'
    <2>1. \A s \in Sigs : Scanning(stack', s)
      BY <1>5, <1>6, SigsAre
    <2> QED
      BY <2>1 DEF Noted
  <1>9. /\ exitstatus' \in Nat /\ evalskip' \in BOOLEAN
        /\ gotsig' \in [Sigs -> BOOLEAN] /\ pendingsigs' \in Sigs \cup {0}
        /\ cut' \in BOOLEAN
    BY <1>1 DEF TrapInv, TypeOK
  <1>10. /\ Alive /\ pc # "setsig" /\ pc' = "scan"
         /\ Top'.kind = "scan" /\ exitstatus' = Top'.last
         /\ UNCHANGED <<sigVars, intVars, shVars, arg>>
    BY <1>1, <1>4, <1>7
  <1>20. CASE Dotrap
    BY <1>1, <1>7, <1>8, <1>9, <1>10, PlainStep DEF Within, Forks
  <1> QED
    BY <1>20


LEMMA NoTrapKeeps ==
    ASSUME TrapInv, NoTrap
    PROVE  TrapInv'
  <1>1. /\ Alive /\ pc = "out" /\ pc' = "after" /\ stack' = Done
        /\ UNCHANGED <<sigVars, gotVars, cut, intVars, shVars, evalskip, exitstatus, arg>>
    BY DEF NoTrap, Alive
  <1>2. exitstatus' \in Nat /\ evalskip' \in BOOLEAN
    BY <1>1 DEF TrapInv, TypeOK
  <1>3. /\ GoodStack(stack') /\ Top'.kind # "scan" /\ Top'.last = exitstatus
        /\ stack'[1].kind = stack[1].kind
        /\ \A x : Scanning(stack, x) => Scanning(stack', x)
    BY <1>1, DoneIs, ReplStep DEF Done
  <1> QED
    BY <1>1, <1>2, <1>3, QuietStep DEF Within, Forks

\* dotrap takes a signal: its trap is called, or there is none.
LEMMA ScanNextKeeps ==
    ASSUME TrapInv, ScanNext
    PROVE  TrapInv'
  <1> DEFINE s0 == Min(DueSigs)
             f == [Top EXCEPT !.next = s0 + 1]
             past == Repl(f)
  <1>1. /\ Alive /\ pc = "scan" /\ gotsig' = [gotsig EXCEPT ![s0] = FALSE]
        /\ UNCHANGED <<sigVars, pendingsigs, intVars, shVars, evalskip, arg>>
    BY DEF ScanNext, Alive
  <1>2. /\ GoodStack(stack) /\ Top.kind = "scan" /\ exitstatus = Top.last
        /\ exitstatus \in Nat /\ evalskip \in BOOLEAN /\ cut \in BOOLEAN
        /\ Top \in Frames /\ Noted /\ gotsig \in [Sigs -> BOOLEAN]
        /\ pendingsigs \in Sigs \cup {0}
    BY <1>1, TopIs DEF TrapInv, ControlInv, Shape, TypeOK
  <1>3. /\ s0 \in Sigs /\ gotsig[s0] /\ s0 \in Nat
        /\ \A s \in Sigs : gotsig[s] /\ s >= Top.next => s0 <= s
    <2>1. s0 \in DueSigs /\ \A s \in DueSigs : s0 <= s
      BY MinDue DEF ScanNext
    <2> HIDE DEF s0
    <2> QED
      BY <2>1, TrapAssumption DEF DueSigs
  <1> HIDE DEF s0
  <1>4. /\ f \in Frames /\ f.kind = "scan" /\ f.last = Top.last /\ f.next = s0 + 1
    BY <1>2, <1>3 DEF Frames
  <1> HIDE DEF f
  <1>5. /\ GoodStack(past) /\ past[Len(past)] = f /\ past[1].kind = stack[1].kind
        /\ \A x : Scanning(stack, x) => Scanning(past, x) \/ Top.next <= x
        /\ \A x : s0 + 1 <= x => Scanning(past, x)
    BY <1>2, <1>4, ReplStack
  <1> HIDE DEF past
  <1>6. \A s \in Sigs : gotsig'[s] => gotsig[s] /\ s # s0
    BY <1>1, <1>2, <1>3
  \* What was seen by this dotrap still is, but for the signal it took.
  <1>7. \A s \in Sigs : gotsig'[s] => pendingsigs # 0 \/ cut \/ Scanning(past, s)
    <2> SUFFICES ASSUME NEW s \in Sigs, gotsig'[s], Scanning(stack, s)
                 PROVE  Scanning(past, s)
      BY <1>1, <1>2, <1>6 DEF Noted
    <2>1. CASE Scanning(past, s)
      BY <2>1
    <2>2. CASE Top.next <= s
      <3>1. s \in Nat /\ Top.next \in Nat
        BY <1>2, TrapAssumption DEF Frames
      <3>2. s0 <= s /\ s # s0
        BY <1>3, <1>6, <2>2, <3>1
      <3> QED
        BY <1>3, <1>5, <3>1, <3>2
    <2> QED
      BY <1>5, <2>1, <2>2
  <1>8. /\ gotsig' \in [Sigs -> BOOLEAN] /\ pendingsigs' \in Sigs \cup {0}
        /\ evalskip' \in BOOLEAN /\ pc # "setsig" /\ ~Within
    BY <1>1, <1>2 DEF Within, Forks
  <1>9. CASE /\ trap[s0] = "action"
             /\ stack' = Append(past, List("act", exitstatus))
             /\ pc' = "run"
             /\ UNCHANGED <<cut, exitstatus>>
    <2> DEFINE g == List("act", exitstatus)
    <2>1. g \in Frames /\ g.kind = "act" /\ g.last = exitstatus
      BY <1>2, FramesMade
    <2> HIDE DEF g
    <2>2. /\ GoodStack(Append(past, g)) /\ Append(past, g)[Len(Append(past, g))] = g
          /\ Append(past, g)[1].kind = stack[1].kind
          /\ \A x : Scanning(past, x) => Scanning(Append(past, g), x)
      BY <1>4, <1>5, <2>1, PushStack
    <2>3. stack' = Append(past, g)
      BY <1>9 DEF g
    <2>4. GoodStack(stack') /\ Top' = g /\ stack'[1].kind = stack[1].kind
      BY <2>2, <2>3 DEF Top
    <2>5. Noted'
      BY <1>1, <1>7, <1>9, <2>2, <2>3 DEF Noted
    <2> QED
      BY <1>1, <1>2, <1>8, <1>9, <2>1, <2>4, <2>5, PlainStep DEF Within, Forks
  <1>10. CASE /\ stack' = past /\ pc' = "scan" /\ exitstatus' = exitstatus /\ cut' = cut
    <2>1. GoodStack(stack') /\ Top' = f /\ stack'[1].kind = stack[1].kind
      BY <1>5, <1>10 DEF Top
    <2>2. Noted'
      BY <1>1, <1>7, <1>10 DEF Noted
    <2> QED
      BY <1>1, <1>2, <1>4, <1>8, <1>10, <2>1, <2>2, PlainStep DEF Within, Forks
  <1>11. CASE /\ stack' = Below /\ pc' = "after" /\ exitstatus' = exitstatus /\ cut' = TRUE
    <2>1. /\ GoodStack(Below) /\ Below[1] = stack[1]
          /\ Below[Len(Below)].kind # "scan" /\ Below[Len(Below)].last = exitstatus
      BY <1>2, PopStack DEF Below, Top
    <2>2. /\ GoodStack(stack') /\ Top'.kind # "scan" /\ Top'.last = exitstatus
          /\ stack'[1].kind = stack[1].kind
      BY <1>11, <2>1 DEF Top
    <2>3. Noted'
      BY <1>11 DEF Noted
    <2> QED
      BY <1>1, <1>2, <1>8, <1>11, <2>2, <2>3, PlainStep DEF Within, Forks
  <1>12. \/ /\ trap[s0] = "action"
            /\ stack' = Append(past, List("act", exitstatus))
            /\ pc' = "run"
            /\ UNCHANGED <<cut, exitstatus>>
         \/ /\ stack' = past /\ pc' = "scan" /\ exitstatus' = exitstatus /\ cut' = cut
         \/ /\ stack' = Below /\ pc' = "after" /\ exitstatus' = exitstatus /\ cut' = TRUE
    BY <1>1, <1>2 DEF ScanNext, past, f, s0
  <1> QED
    BY <1>9, <1>10, <1>11, <1>12

\* dotrap is done: every signal it was called for has been taken.
LEMMA ScanEndKeeps ==
    ASSUME TrapInv, ScanEnd
    PROVE  TrapInv'
  <1>1. /\ Alive /\ pc = "scan" /\ pc' = "after" /\ stack' = Below /\ DueSigs = {}
        /\ UNCHANGED <<sigVars, gotVars, cut, intVars, shVars, evalskip, exitstatus, arg>>
    BY DEF ScanEnd, Alive
  <1>2. /\ GoodStack(stack) /\ Top.kind = "scan" /\ exitstatus = Top.last
        /\ Top.next \in Nat /\ Noted
    BY <1>1, TopIs DEF TrapInv, ControlInv, Shape
  <1>3. /\ exitstatus' \in Nat /\ evalskip' \in BOOLEAN /\ cut' \in BOOLEAN
        /\ gotsig' \in [Sigs -> BOOLEAN] /\ pendingsigs' \in Sigs \cup {0}
    BY <1>1 DEF TrapInv, TypeOK, gotVars
  <1>4. /\ GoodStack(Below) /\ Below[1] = stack[1]
        /\ Below[Len(Below)].kind # "scan" /\ Below[Len(Below)].last = exitstatus
        /\ \A x : Scanning(stack, x) => Scanning(Below, x) \/ Top.next <= x
    BY <1>2, PopStack DEF Below, Top
  <1>5. /\ GoodStack(stack') /\ Top'.kind # "scan" /\ Top'.last = exitstatus
        /\ stack'[1].kind = stack[1].kind
    BY <1>1, <1>4 DEF Top
  <1>6. Noted'
    <2>1. \A s \in Sigs : gotsig[s] => ~(Top.next <= s)
      BY <1>1, <1>2, SigsAre DEF DueSigs
    <2> QED
      BY <1>1, <1>2, <1>4, <2>1 DEF Noted, gotVars
  <1> QED
    BY <1>1, <1>3, <1>5, <1>6, PlainStep DEF Within, Forks

LEMMA GoKeeps ==
    ASSUME TrapInv, Go
    PROVE  TrapInv'
  <1>1. /\ Alive /\ pc = "after" /\ pc' = "run"
        /\ UNCHANGED <<sigVars, gotVars, cut, intVars, shVars, evalskip, exitstatus, stack, arg>>
    BY DEF Go, Alive
  <1>2. /\ GoodStack(stack) /\ Top.kind # "scan" /\ exitstatus = Top.last
        /\ exitstatus \in Nat /\ evalskip \in BOOLEAN
    BY <1>1 DEF TrapInv, ControlInv, Shape, TypeOK
  <1>3. Top' = Top
    BY <1>1 DEF Top
  <1> QED
    BY <1>1, <1>2, <1>3, QuietStep DEF Within, Forks

LEMMA FunEndKeeps ==
    ASSUME TrapInv, FunEnd
    PROVE  TrapInv'
  <1>1. /\ Alive /\ pc = "after" /\ pc' = "out" /\ stack' = Below /\ Top.kind = "fun"
        /\ evalskip' = FALSE
        /\ UNCHANGED <<sigVars, gotVars, cut, intVars, shVars, exitstatus, arg>>
    BY DEF FunEnd, Ended, Alive
  <1>2. GoodStack(stack) /\ exitstatus \in Nat
    BY <1>1 DEF TrapInv, ControlInv, Shape, TypeOK
  <1>3. /\ GoodStack(Below) /\ Below[1] = stack[1] /\ Below[Len(Below)].kind # "scan"
        /\ \A x : Scanning(stack, x) => Scanning(Below, x)
    BY <1>1, <1>2, PopStack DEF Below, Top
  <1>4. /\ GoodStack(stack') /\ Top'.kind # "scan" /\ stack'[1].kind = stack[1].kind
    BY <1>1, <1>3 DEF Top
  <1> QED
    BY <1>1, <1>2, <1>3, <1>4, QuietStep DEF Within, Forks

\* The commands of a trap are over: dotrap puts $? back and goes on, or is left
\* by the return executed there.
LEMMA ActEndStep ==
    ASSUME TrapInv, ActEnd
    PROVE  TrapInv'
  <1>1. /\ Alive /\ pc = "after" /\ Top.kind = "act"
        /\ exitstatus' = Last(Below).last
        /\ UNCHANGED <<sigVars, gotVars, intVars, shVars, evalskip, arg>>
    BY DEF ActEnd, Ended, Alive
  <1>2. GoodStack(stack) /\ Noted
    BY <1>1 DEF TrapInv, ControlInv, Shape
  <1>3. /\ GoodStack(Below) /\ Below[1] = stack[1] /\ Below[Len(Below)].kind = "scan"
        /\ \A x : Scanning(stack, x) => Scanning(Below, x)
    BY <1>1, <1>2, PopStack DEF Below, Top
  <1>4. exitstatus' = Below[Len(Below)].last
    BY <1>1 DEF Last
  <1>5. exitstatus' \in Nat
    <2> DEFINE n == Len(Below)
    <2>1. n \in Nat /\ n >= 1 /\ \A i \in 1 .. n : Below[i] \in Frames
      BY <1>3, StackEnds
    <2> HIDE DEF n
    <2>2. Below[n] \in Frames
      BY <2>1
    <2> QED
      BY <1>4, <2>2 DEF n, Frames
  <1>6. /\ evalskip' \in BOOLEAN /\ evalskip \in BOOLEAN /\ cut \in BOOLEAN
        /\ gotsig' \in [Sigs -> BOOLEAN] /\ pendingsigs' \in Sigs \cup {0}
    BY <1>1 DEF TrapInv, TypeOK, gotVars
  <1>7. CASE evalskip
    <2>1. stack' = Front(Below) /\ pc' = "after" /\ cut' = TRUE
      BY <1>6, <1>7 DEF ActEnd
    <2> DEFINE b == Below
    <2> HIDE DEF b
    <2>2. GoodStack(b) /\ b[1] = stack[1] /\ b[Len(b)].kind = "scan"
      BY <1>3 DEF b
    <2>3. /\ GoodStack(Front(b)) /\ Front(b)[1] = b[1]
          /\ Front(b)[Len(Front(b))].kind # "scan"
          /\ Front(b)[Len(Front(b))].last = b[Len(b)].last
      BY <2>2, PopStack
    <2>4. /\ GoodStack(stack') /\ Top'.kind # "scan" /\ Top'.last = exitstatus'
          /\ stack'[1].kind = stack[1].kind
      BY <1>4, <2>1, <2>2, <2>3 DEF Top, b
    <2>5. Noted'
      BY <2>1 DEF Noted
    <2> QED
      BY <1>1, <1>5, <1>6, <2>1, <2>4, <2>5, PlainStep DEF Within, Forks
  <1>8. CASE ~evalskip
    <2>1. stack' = Below /\ pc' = "scan" /\ cut' = cut
      BY <1>6, <1>8 DEF ActEnd
    <2>2. /\ GoodStack(stack') /\ Top'.kind = "scan" /\ Top'.last = exitstatus'
          /\ stack'[1].kind = stack[1].kind
      BY <1>3, <1>4, <2>1 DEF Top
    <2>3. Noted'
      BY <1>1, <1>2, <1>3, <2>1, NotedKept
    <2> QED
      BY <1>1, <1>5, <1>6, <2>1, <2>2, <2>3, PlainStep DEF Within, Forks
  <1> QED
    BY <1>7, <1>8

LEMMA ProcessEndKeeps ==
    ASSUME TrapInv, SubEnd \/ ExitEnd
    PROVE  TrapInv'
  <1>1. Alive /\ pc = "after" /\ UNCHANGED gotVars
    BY DEF SubEnd, ExitEnd, Ended, Alive
  <1>2. GotStep /\ intpending \in BOOLEAN /\ exitstatus \in Nat
    BY <1>1, GotSame DEF TrapInv, TypeOK
  <1>3. Exraise("exit", exitstatus, intpending) \/ Gone("dead")
    BY DEF SubEnd, ExitEnd
  <1> QED
    BY <1>1, <1>2, <1>3, ExraiseKeeps, DeadKeeps

(***************************************************************************)
(* The tables of signals                                                   *)
(***************************************************************************)

\* EXIT is not a signal.
LEMMA ExitIsNone == EXIT \notin Sigs
  BY SigsAre DEF EXIT

\* What trapcmd does to the count of traps is what it does to the traps.
LEMMA TrapCounted ==
    ASSUME TypeOK, TrapsCounted, NEW s \in Sigs \cup {EXIT},
           NEW t \in {"none", "empty", "action"},
           trap' = [trap EXCEPT ![s] = t],
           trapcnt' = trapcnt + Counts(t) - Counts(trap[s])
    PROVE  trapcnt' \in Nat /\ TrapsCounted'
  <1> DEFINE n == Cardinality(Actions)
  <1>1. n \in Nat /\ trapcnt \in Nat /\ trapcnt >= n
    BY ActionsFinite DEF TypeOK, TrapsCounted
  <1>2. \A x \in Sigs \cup {EXIT} : trap'[x] = IF x = s THEN t ELSE trap[x]
    BY DEF TypeOK
  <1>3. s \in Actions <=> trap[s] = "action"
    BY DEF Actions
  <1>4. CASE t = "action"
    <2>1. Actions' = Actions \cup {s}
      BY <1>2, <1>4 DEF Actions
    <2>2. Cardinality(Actions') = IF s \in Actions THEN n ELSE n + 1
      BY <2>1, ActionsFinite, FS_AddElement
    <2> HIDE DEF n
    <2>3. trapcnt' = IF s \in Actions THEN trapcnt ELSE trapcnt + 1
      BY <1>1, <1>3, <1>4 DEF Counts
    <2> QED
      BY <1>1, <2>2, <2>3 DEF TrapsCounted
  <1>5. CASE t # "action"
    <2>1. Actions' = Actions \ {s}
      BY <1>2, <1>5 DEF Actions
    <2>2. Cardinality(Actions') = IF s \in Actions THEN n - 1 ELSE n
      BY <2>1, ActionsFinite, FS_RemoveElement
    <2>3. Cardinality(Actions') \in Nat
      <3>1. IsFiniteSet(Actions')
        BY <2>1, ActionsFinite, FS_RemoveElement
      <3> QED
        BY <3>1, FS_CardinalityType
    <2> HIDE DEF n
    <2>4. trapcnt' = IF s \in Actions THEN trapcnt - 1 ELSE trapcnt
      BY <1>1, <1>3, <1>5 DEF Counts
    <2> QED
      BY <1>1, <2>2, <2>3, <2>4 DEF TrapsCounted
  <1> QED
    BY <1>4, <1>5

LEMMA TrapcmdKeeps ==
    ASSUME TrapInv, Trapcmd
    PROVE  TrapInv'
  <1>1. PICK s \in Sigs \cup {EXIT}, t \in {"none", "empty", "action"} :
            /\ trap' = [trap EXCEPT ![s] = t]
            /\ trapcnt' = trapcnt + Counts(t) - Counts(trap[s])
            /\ setter' = IF s = EXIT /\ t = "action" THEN shlvl ELSE setter
            /\ arg' = s
            /\ pc' = IF s = EXIT THEN "inton" ELSE "setsig"
    BY DEF Trapcmd
  <1>2. /\ Next1("trap") /\ stack' = Repl(Counted)
        /\ suppressint' = suppressint + 1 /\ exitstatus' = 0
        /\ UNCHANGED <<sigmode, disp, gotVars, cut, intpending, shVars, evalskip>>
    BY DEF Trapcmd
  <1>3. /\ Alive /\ pc = "run"
        /\ GoodStack(stack') /\ stack' \in Seq(Frames)
        /\ Top'.kind # "scan" /\ stack'[1].kind = stack[1].kind
        /\ \A x : Scanning(stack, x) => Scanning(stack', x)
    BY <1>2, CommandStep
  <1>4. trapcnt' \in Nat /\ TrapsCounted'
    BY <1>1, TrapCounted DEF TrapInv, TableInv
  <1>5. /\ trap' \in [Sigs \cup {EXIT} -> {"none", "empty", "action"}]
        /\ \A x \in Sigs \cup {EXIT} : trap'[x] = IF x = s THEN t ELSE trap[x]
    BY <1>1 DEF TrapInv, TypeOK
  <1>6. setter' \in Nat /\ arg' \in Sigs \cup {0} /\ (pc' = "setsig" => arg' \in Sigs)
    BY <1>1 DEF TrapInv, TypeOK, EXIT
  <1>7. TypeOK'
    BY <1>1, <1>2, <1>3, <1>4, <1>5, <1>6 DEF TrapInv, TypeOK, gotVars, shVars
  <1>8. Noted'
    BY <1>2, <1>3, NotedKept DEF TrapInv, ControlInv
  <1>9. /\ ~Within /\ Within' /\ pc' \notin {"run", "after", "scan", "exec"}
        /\ suppressint' > 0
    BY <1>1, <1>2, <1>3 DEF Within, Forks, TrapInv, TypeOK
  <1>10. ControlInv'
    BY <1>2, <1>3, <1>6, <1>8, <1>9, ControlStep DEF TrapInv
  <1>11. DispositionsMatch'
    <2> SUFFICES ASSUME NEW x \in Sigs, ~(pc' = "setsig" /\ arg' = x), ~IgnoredFixed(x)'
                 PROVE  /\ trap'[x] = "action" => disp'[x] = "catch"
                        /\ trap'[x] = "empty"  => disp'[x] = "ign"
                        /\ trap'[x] = "none" /\ disp'[x] = "catch" => x = SIGINT
                        /\ trap'[x] = "none" /\ disp'[x] = "ign"   =>
                             rootshell' /\ iflag' /\ x \in {SIGQUIT, SIGTERM}
                        /\ rootshell' /\ iflag' /\ x \in AtTop => disp'[x] # "dfl"
      BY DEF DispositionsMatch
    <2>1. x # s
      BY <1>1, ExitIsNone
    <2>2. trap'[x] = trap[x] /\ disp' = disp /\ UNCHANGED <<sigmode, shVars>>
      BY <1>2, <1>5, <2>1
    <2> QED
      BY <1>3, <2>2
         DEF TrapInv, TableInv, DispositionsMatch, IgnoredFixed, rootshell, shVars
  <1>12. ModesAgree' /\ ExecRunsNoTrap'
    BY <1>2, <1>9 DEF TrapInv, TableInv, ModesAgree, ExecRunsNoTrap
  <1>13. ExitTrapOwn'
    BY <1>1, <1>2, <1>3, <1>5 DEF TrapInv, TableInv, ExitTrapOwn, shVars
  <1>14. TableInv'
    BY <1>4, <1>11, <1>12, <1>13 DEF TableInv
  <1> QED
    BY <1>7, <1>10, <1>14 DEF TrapInv

\* What setsignal wants is a mode the kernel can be in.
LEMMA WantedIs ==
    \A s, t, root, inter : Wanted(s, t, root, inter) \in {"catch", "ign", "dfl"}
  BY DEF Wanted

\* setsignal moves the signals it may, each to what it wants for it, in the
\* kernel and in sigmode alike.
LEMMA SetSignalsIs ==
    ASSUME TypeOK, NEW S, NEW root, NEW inter, SetSignals(S, trap, root, inter)
    PROVE  /\ sigmode' \in [Sigs -> Modes]
           /\ disp' \in [Sigs -> {"dfl", "ign", "catch"}]
           /\ \A s \in Sigs : s \in S /\ ~Fixed(s) =>
                 /\ sigmode'[s] = Wanted(s, trap[s], root, inter)
                 /\ disp'[s] = Wanted(s, trap[s], root, inter)
           /\ \A s \in Sigs : s \notin S \/ Fixed(s) =>
                 sigmode'[s] = sigmode[s] /\ disp'[s] = disp[s]
  <1> DEFINE moved == {s \in S \cap Sigs : ~Fixed(s)}
             W(s) == Wanted(s, trap[s], root, inter)
  <1>1. /\ sigmode' = [s \in Sigs |-> IF s \in moved THEN W(s) ELSE sigmode[s]]
        /\ disp' = [s \in Sigs |-> IF s \in moved THEN W(s) ELSE disp[s]]
    BY DEF SetSignals
  <1>2. \A s : W(s) \in {"catch", "ign", "dfl"}
    BY WantedIs
  <1>3. \A s \in Sigs : s \in moved <=> s \in S /\ ~Fixed(s)
    OBVIOUS
  <1> HIDE DEF moved, W
  <1>4. /\ sigmode' \in [Sigs -> Modes]
        /\ disp' \in [Sigs -> {"dfl", "ign", "catch"}]
    BY <1>1, <1>2 DEF TypeOK, Modes
  <1>5. \A s \in Sigs : s \in S /\ ~Fixed(s) => sigmode'[s] = W(s) /\ disp'[s] = W(s)
    BY <1>1, <1>3
  <1>6. \A s \in Sigs : s \notin S \/ Fixed(s) => sigmode'[s] = sigmode[s] /\ disp'[s] = disp[s]
    BY <1>1, <1>3
  <1> QED
    BY <1>4, <1>5, <1>6 DEF W

\* So the two keep agreeing.
LEMMA SetSignalsAgree ==
    ASSUME TypeOK, ModesAgree, NEW S, NEW root, NEW inter, SetSignals(S, trap, root, inter)
    PROVE  ModesAgree'
  <1> SUFFICES ASSUME NEW s \in Sigs
               PROVE  /\ sigmode'[s] \in {"dfl", "ign", "catch"} => disp'[s] = sigmode'[s]
                      /\ sigmode'[s] = "hard" => disp'[s] = "ign"
                      /\ sigmode'[s] = "unknown" => disp'[s] # "catch"
    BY DEF ModesAgree
  <1>1. CASE s \in S /\ ~Fixed(s)
    <2>1. sigmode'[s] = disp'[s] /\ sigmode'[s] \in {"catch", "ign", "dfl"}
      BY <1>1, SetSignalsIs, WantedIs
    <2> QED
      BY <2>1
  <1>2. CASE s \notin S \/ Fixed(s)
    <2>1. sigmode'[s] = sigmode[s] /\ disp'[s] = disp[s]
      BY <1>2, SetSignalsIs
    <2> QED
      BY <2>1 DEF ModesAgree
  <1> QED
    BY <1>1, <1>2

\* What is asked of one signal, and that setsignal sees to it.
Matches(s, tr, d, root, inter) ==
    /\ tr = "action" => d = "catch"
    /\ tr = "empty"  => d = "ign"
    /\ tr = "none" /\ d = "catch" => s = SIGINT
    /\ tr = "none" /\ d = "ign"   => root /\ inter /\ s \in {SIGQUIT, SIGTERM}
    /\ root /\ inter /\ s \in AtTop => d # "dfl"

LEMMA WantedMatches ==
    ASSUME NEW s, NEW t \in {"none", "empty", "action"}, NEW root \in BOOLEAN,
           NEW inter \in BOOLEAN
    PROVE  Matches(s, t, Wanted(s, t, root, inter), root, inter)
  BY DEF Matches, Wanted, AtTop, SIGINT, SIGQUIT, SIGTERM

LEMMA DispositionsAre ==
    /\ DispositionsMatch <=>
         (Alive => \A s \in Sigs : \/ pc = "setsig" /\ arg = s
                                   \/ IgnoredFixed(s)
                                   \/ Matches(s, trap[s], disp[s], rootshell, iflag))
    /\ DispositionsMatch' <=>
         (Alive' => \A s \in Sigs : \/ pc' = "setsig" /\ arg' = s
                                    \/ IgnoredFixed(s)'
                                    \/ Matches(s, trap'[s], disp'[s], rootshell', iflag'))
  BY DEF DispositionsMatch, Matches

\* trapcmd past setsignal.
LEMMA SetsignalKeeps ==
    ASSUME TrapInv, Setsignal
    PROVE  TrapInv'
  <1>1. /\ Alive /\ pc = "setsig" /\ pc' = "inton" /\ arg' = 0
        /\ SetSignals({arg}, trap, rootshell, iflag)
        /\ UNCHANGED <<trap, trapcnt, setter, gotVars, cut, intVars, shVars, evalskip,
                       exitstatus, stack>>
    BY DEF Setsignal, Alive
  <1>2. TypeOK /\ ModesAgree /\ arg \in Sigs /\ suppressint \in Nat /\ suppressint >= 1
    BY <1>1 DEF TrapInv, TableInv, ControlInv, Locked, Within, TypeOK
  <1>3. /\ sigmode' \in [Sigs -> Modes] /\ disp' \in [Sigs -> {"dfl", "ign", "catch"}]
        /\ ModesAgree'
    BY <1>1, <1>2, SetSignalsIs, SetSignalsAgree
  <1>4. TypeOK'
    BY <1>1, <1>2, <1>3 DEF TypeOK, gotVars, intVars, shVars
  <1>5. GoodStack(stack') /\ Top'.kind # "scan" /\ stack'[1].kind = stack[1].kind
    BY <1>1 DEF TrapInv, ControlInv, Shape, Top
  <1>6. Noted'
    BY <1>1, NotedKept DEF TrapInv, ControlInv
  <1>7. Within /\ Within'
    BY <1>1 DEF Within
  <1>8. ControlInv'
    BY <1>1, <1>2, <1>5, <1>6, <1>7, ControlStep DEF TrapInv, intVars
  <1>9. DispositionsMatch'
    <2> SUFFICES ASSUME NEW s \in Sigs, ~IgnoredFixed(s)'
                 PROVE  Matches(s, trap'[s], disp'[s], rootshell', iflag')
      BY DispositionsAre
    <2>1. trap' = trap /\ rootshell' = rootshell /\ iflag' = iflag
      BY <1>1 DEF shVars, rootshell
    <2>2. CASE s = arg /\ ~Fixed(s)
      <3>1. disp'[s] = Wanted(s, trap[s], rootshell, iflag)
        BY <1>1, <1>2, <2>2, SetSignalsIs
      <3>2. trap[s] \in {"none", "empty", "action"} /\ iflag \in BOOLEAN
        BY <1>2 DEF TypeOK
      <3>3. rootshell \in BOOLEAN
        BY DEF rootshell
      <3> QED
        BY <2>1, <3>1, <3>2, <3>3, WantedMatches
    <2>3. CASE s # arg \/ Fixed(s)
      <3>1. sigmode'[s] = sigmode[s] /\ disp'[s] = disp[s]
        BY <1>1, <1>2, <2>3, SetSignalsIs
      <3>2. ~Fixed(s) /\ ~IgnoredFixed(s)
        BY <3>1 DEF IgnoredFixed, Fixed
      <3>3. Matches(s, trap[s], disp[s], rootshell, iflag)
        BY <1>1, <2>3, <3>2, DispositionsAre DEF TrapInv, TableInv
      <3> QED
        BY <2>1, <3>1, <3>3
    <2> QED
      BY <2>2, <2>3
  <1>10. TrapsCounted' /\ ExitTrapOwn' /\ ExecRunsNoTrap'
    BY <1>1 DEF TrapInv, TableInv, TrapsCounted, Actions, ExitTrapOwn, ExecRunsNoTrap,
                shVars, Alive
  <1> QED
    BY <1>3, <1>4, <1>8, <1>9, <1>10 DEF TrapInv, TableInv

LEMMA SetinteractiveKeeps ==
    ASSUME TrapInv, Setinteractive
    PROVE  TrapInv'
  <1>1. /\ Next1("set") /\ stack' = Repl(Counted) /\ pc' = "out" /\ exitstatus' = 0
        /\ iflag' = ~iflag
        /\ SetSignals(AtTop, trap, rootshell, ~iflag)
        /\ UNCHANGED <<trap, trapcnt, setter, gotVars, cut, intVars, sflag, shlvl, evalskip, arg>>
    BY DEF Setinteractive
  <1>2. TypeOK /\ ModesAgree
    BY DEF TrapInv, TableInv
  <1>3. /\ Alive /\ pc = "run"
        /\ GoodStack(stack') /\ stack' \in Seq(Frames)
        /\ Top'.kind # "scan" /\ stack'[1].kind = stack[1].kind
        /\ \A x : Scanning(stack, x) => Scanning(stack', x)
    BY <1>1, CommandStep
  <1>4. /\ sigmode' \in [Sigs -> Modes] /\ disp' \in [Sigs -> {"dfl", "ign", "catch"}]
        /\ ModesAgree'
    BY <1>1, <1>2, SetSignalsIs, SetSignalsAgree
  <1>5. TypeOK'
    BY <1>1, <1>2, <1>3, <1>4 DEF TypeOK, gotVars, intVars
  <1>6. Noted'
    BY <1>1, <1>3, NotedKept DEF TrapInv, ControlInv
  <1>7. ~Within /\ ~Within' /\ (intpending => suppressint > 0)
    BY <1>1, <1>3 DEF Within, Forks, TrapInv, ControlInv, IntNotForgotten
  <1>8. ControlInv'
    BY <1>1, <1>2, <1>3, <1>6, <1>7, ControlStep DEF TrapInv, intVars
  <1>9. DispositionsMatch'
    <2> SUFFICES ASSUME NEW s \in Sigs, ~IgnoredFixed(s)'
                 PROVE  Matches(s, trap'[s], disp'[s], rootshell', iflag')
      BY DispositionsAre
    <2>1. /\ trap' = trap /\ rootshell' = rootshell /\ iflag' = ~iflag
          /\ trap[s] \in {"none", "empty", "action"} /\ rootshell \in BOOLEAN
      BY <1>1, <1>2 DEF rootshell, TypeOK
    <2>2. CASE s \in AtTop /\ ~Fixed(s)
      <3>1. disp'[s] = Wanted(s, trap[s], rootshell, ~iflag)
        BY <1>1, <1>2, <2>2, SetSignalsIs
      <3> QED
        BY <2>1, <3>1, WantedMatches
    <2>3. CASE s \notin AtTop \/ Fixed(s)
      <3>1. sigmode'[s] = sigmode[s] /\ disp'[s] = disp[s]
        BY <1>1, <1>2, <2>3, SetSignalsIs
      <3>2. ~Fixed(s) /\ ~IgnoredFixed(s)
        BY <3>1 DEF IgnoredFixed, Fixed
      <3>3. Matches(s, trap[s], disp[s], rootshell, iflag)
        BY <1>3, <3>2, DispositionsAre DEF TrapInv, TableInv
      <3>4. s \notin AtTop
        BY <2>3, <3>2
      <3> QED
        BY <2>1, <3>1, <3>3, <3>4 DEF Matches, AtTop
    <2> QED
      BY <2>2, <2>3
  <1>10. TrapsCounted' /\ ExitTrapOwn' /\ ExecRunsNoTrap'
    BY <1>1, <1>3 DEF TrapInv, TableInv, TrapsCounted, Actions, ExitTrapOwn, ExecRunsNoTrap,
                      Alive
  <1> QED
    BY <1>4, <1>5, <1>8, <1>9, <1>10 DEF TrapInv, TableInv

\* A child drops its parent's traps; what they and an interactive shell had
\* changed goes back to the default, and a background command ignores SIGINT
\* and SIGQUIT for good.
LEMMA ForkchildKeeps ==
    ASSUME TrapInv, Forkchild
    PROVE  TrapInv'
  <1>1. Alive /\ pc \in {"subshell", "background"} /\ UNCHANGED gotVars
    BY DEF Forkchild, Alive
  <1>2. CASE intpending /\ suppressint = 1
    BY <1>1, <1>2, GotSame, DeadKeeps DEF Forkchild, TrapInv
  <1>3. CASE ~(intpending /\ suppressint = 1)
    <2> DEFINE hard == IF pc = "background" THEN {SIGINT, SIGQUIT} ELSE {}
               moved == {s \in ChildSignals \cap Sigs : ~Fixed(s)}
               W(s) == Wanted(s, Cleared[s], FALSE, iflag)
    <2>1. /\ sigmode' = [s \in Sigs |-> IF s \in hard THEN "hard"
                                        ELSE IF s \in moved THEN W(s) ELSE sigmode[s]]
          /\ disp' = [s \in Sigs |-> IF s \in hard THEN "ign"
                                     ELSE IF s \in moved THEN W(s) ELSE disp[s]]
      BY <1>3 DEF Forkchild
    <2>2. /\ trap' = Cleared /\ trapcnt' = 0 /\ shlvl' = shlvl + 1
          /\ suppressint' = suppressint - 1
          /\ stack' = Append(stack, List("sub", exitstatus)) /\ pc' = "run"
          /\ UNCHANGED <<setter, cut, intpending, iflag, sflag, evalskip, exitstatus, arg>>
      BY <1>3 DEF Forkchild
    <2>3. /\ TypeOK /\ ModesAgree /\ suppressint \in Nat /\ suppressint >= 1
          /\ GoodStack(stack) /\ Top.kind # "scan" /\ exitstatus \in Nat /\ shlvl \in Nat
      BY <1>1 DEF TrapInv, TableInv, ControlInv, Shape, Locked, Within, Forks, TypeOK
    <2>4. /\ trap' \in [Sigs \cup {EXIT} -> {"none", "empty", "action"}]
          /\ \A s \in Sigs \cup {EXIT} :
                trap'[s] = IF trap[s] = "action" THEN "none" ELSE trap[s]
      BY <2>2, <2>3 DEF Cleared, TypeOK
    <2>5. \A s \in Sigs : s \in moved <=> s \in ChildSignals /\ ~Fixed(s)
      OBVIOUS
    <2>6. \A s : W(s) \in {"catch", "ign", "dfl"}
      BY WantedIs
    <2>7. \A s \in Sigs : W(s) = Wanted(s, trap'[s], FALSE, iflag)
      BY <2>2
    <2> HIDE DEF hard, moved, W
    <2>8. /\ sigmode' \in [Sigs -> Modes] /\ disp' \in [Sigs -> {"dfl", "ign", "catch"}]
      BY <2>1, <2>3, <2>6 DEF TypeOK, Modes
    <2>9. ModesAgree'
      BY <2>1, <2>3, <2>6 DEF ModesAgree
    <2> DEFINE f == List("sub", exitstatus)
    <2>10. f \in Frames /\ f.kind = "sub" /\ f.last = exitstatus
      BY <2>3, FramesMade
    <2> HIDE DEF f
    <2>11. /\ GoodStack(Append(stack, f)) /\ Append(stack, f)[Len(Append(stack, f))] = f
           /\ Append(stack, f)[1] = stack[1]
           /\ \A x : Scanning(stack, x) => Scanning(Append(stack, f), x)
      BY <2>3, <2>10, PushStack DEF Top
    <2>12. stack' = Append(stack, f)
      BY <2>2 DEF f
    <2>13. /\ GoodStack(stack') /\ stack' \in Seq(Frames) /\ Top' = f
           /\ stack'[1].kind = stack[1].kind
           /\ \A x : Scanning(stack, x) => Scanning(stack', x)
      BY <2>11, <2>12 DEF Top, GoodStack
    <2>14. TypeOK'
      BY <1>1, <2>2, <2>3, <2>4, <2>8, <2>13 DEF TypeOK, gotVars
    <2>15. Noted'
      BY <1>1, <2>2, <2>13, NotedKept DEF TrapInv, ControlInv
    <2>16. /\ Within /\ ~Within' /\ Top'.kind # "scan" /\ exitstatus' = Top'.last
      BY <1>1, <2>2, <2>10, <2>13 DEF Within, Forks
    <2>17. intpending => suppressint' > 0
      BY <1>3, <2>2, <2>3
    <2>18. ControlInv'
      BY <1>1, <2>2, <2>3, <2>13, <2>15, <2>16, <2>17, ControlStep DEF TrapInv
    <2>19. DispositionsMatch'
      <3> SUFFICES ASSUME NEW s \in Sigs, ~IgnoredFixed(s)'
                   PROVE  Matches(s, trap'[s], disp'[s], FALSE, iflag)
        <4>1. rootshell' = FALSE /\ iflag' = iflag
          BY <2>2, <2>3 DEF rootshell
        <4> QED
          BY <4>1, DispositionsAre
      <3>1. s \notin hard
        BY <2>1 DEF IgnoredFixed
      <3>2. CASE s \in moved
        <4>1. disp'[s] = Wanted(s, trap'[s], FALSE, iflag)
          BY <2>1, <2>7, <3>1, <3>2
        <4>2. trap'[s] \in {"none", "empty", "action"} /\ iflag \in BOOLEAN
          BY <2>3, <2>4 DEF TypeOK
        <4> QED
          BY <4>1, <4>2, WantedMatches
      <3>3. CASE s \notin moved
        <4>1. sigmode'[s] = sigmode[s] /\ disp'[s] = disp[s]
          BY <2>1, <3>1, <3>3
        <4>2. ~Fixed(s) /\ ~IgnoredFixed(s)
          BY <4>1 DEF IgnoredFixed, Fixed
        <4>3. s \notin ChildSignals
          BY <2>5, <3>3, <4>2
        <4>4. trap[s] # "action" /\ trap'[s] = trap[s] /\ trap[s] \in {"none", "empty"}
          BY <2>3, <2>4, <4>3 DEF ChildSignals, TypeOK
        <4>5. ~(rootshell /\ iflag /\ s \in {SIGQUIT, SIGTERM})
          BY <4>3 DEF ChildSignals, AtTop, rootshell
        <4>6. Matches(s, trap[s], disp[s], rootshell, iflag)
          BY <1>1, <4>2, DispositionsAre DEF TrapInv, TableInv
        <4> QED
          BY <4>1, <4>4, <4>5, <4>6 DEF Matches
      <3> QED
        BY <3>2, <3>3
    <2>20. Actions' = {}
      BY <2>4 DEF Actions
    <2>21. TrapsCounted' /\ ExitTrapOwn' /\ ExecRunsNoTrap'
      <3>1. Cardinality(Actions') = 0
        BY <2>20, FS_EmptySet
      <3>2. trap'[EXIT] # "action"
        BY <2>4
      <3> QED
        BY <2>2, <3>1, <3>2 DEF TrapsCounted, ExitTrapOwn, ExecRunsNoTrap
    <2> QED
      BY <2>9, <2>14, <2>18, <2>19, <2>21 DEF TrapInv, TableInv
  <1> QED
    BY <1>2, <1>3

(***************************************************************************)
(* The kernel, and all steps                                               *)
(***************************************************************************)

\* A signal is delivered: the shell dies of it, or notes it, or takes the
\* exception for it at once.
LEMMA DeliverKeeps ==
    ASSUME TrapInv, NEW s \in Sigs, Deliver(s)
    PROVE  TrapInv'
  <1>1. Alive
    BY DEF Deliver, Alive
  <1>2. CASE Gone("dead") /\ UNCHANGED gotVars
    BY <1>1, <1>2, GotSame, DeadKeeps DEF TrapInv
  <1>3. CASE Onsig(s)
    <2>1. gotsig' = [gotsig EXCEPT ![s] = TRUE] /\ pendingsigs' = s /\ s # 0
      BY <1>3, SigsAre DEF Onsig
    <2>2. GotStep
      BY <2>1 DEF GotStep, TrapInv, TypeOK
    <2>3. CASE s = SIGINT /\ trap[s] = "none" /\ suppressint = 0
      <3>1. pc # "setsig"
        BY <2>3 DEF TrapInv, ControlInv, Locked, Within
      <3>2. Onint
        BY <1>3, <2>3 DEF Onsig
      <3> QED
        BY <1>1, <2>2, <3>1, <3>2, OnintKeeps
    <2>4. CASE ~(s = SIGINT /\ trap[s] = "none" /\ suppressint = 0)
      <3>1. /\ intpending' \in {intpending, TRUE}
            /\ intpending' # intpending => suppressint # 0
            /\ UNCHANGED <<sigVars, cut, suppressint, shVars, evalskip, exitstatus, stack,
                           pc, arg>>
        BY <1>3, <2>4 DEF Onsig, intVars
      <3>2. TypeOK'
        BY <2>2, <3>1 DEF TrapInv, TypeOK, GotStep, sigVars, shVars
      <3>3. Noted'
        BY <2>1 DEF Noted
      <3>4. Shape' /\ Locked'
        BY <3>1 DEF TrapInv, ControlInv, Shape, Locked, Within, Alive, Top
      <3>5. IntNotForgotten' /\ InterruptsBalanced'
        BY <3>1 DEF TrapInv, TypeOK, ControlInv, IntNotForgotten, InterruptsBalanced, Alive,
                    Exiting
      <3>6. TableInv'
        BY <1>1, <3>1, TablesKept DEF TrapInv, Alive
      <3> QED
        BY <3>2, <3>3, <3>4, <3>5, <3>6 DEF TrapInv, ControlInv
    <2> QED
      BY <2>3, <2>4
  <1> QED
    BY <1>2, <1>3 DEF Deliver

LEMMA ShellStepKeeps ==
    ASSUME TrapInv, ShellStep
    PROVE  TrapInv'
  <1>1. CASE Builtin \/ Failing \/ Call \/ Return
    BY <1>1, BuiltinKeeps, FailingKeeps, CallKeeps, ReturnKeeps
  <1>2. CASE Error \/ Exitcmd \/ Forkfails
    BY <1>2, RaisingKeeps
  <1>3. CASE Trapcmd \/ Setsignal \/ Setinteractive \/ Inton
    BY <1>3, TrapcmdKeeps, SetsignalKeeps, SetinteractiveKeeps, IntonKeeps
  <1>4. CASE Eof \/ TopEnd
    BY <1>4, EofKeeps
  <1>5. CASE Nofork \/ Fork \/ Forkparent \/ Waited \/ Forkchild
    BY <1>5, NoforkKeeps, ForkKeeps, ParentKeeps, ForkchildKeeps
  <1>6. CASE Dotrap \/ NoTrap \/ ScanNext \/ ScanEnd
    BY <1>6, DotrapCallKeeps, NoTrapKeeps, ScanNextKeeps, ScanEndKeeps
  <1>7. CASE Go \/ FunEnd \/ ActEnd
    BY <1>7, GoKeeps, FunEndKeeps, ActEndStep
  <1>8. CASE SubEnd \/ ExitEnd
    BY <1>8, ProcessEndKeeps
  <1> QED
    BY <1>1, <1>2, <1>3, <1>4, <1>5, <1>6, <1>7, <1>8 DEF ShellStep

\* The invariant holds when the shell starts, whatever it was started to ignore.
LEMMA InitTrap == Init => TrapInv
  <1> SUFFICES ASSUME Init PROVE TrapInv
    OBVIOUS
  <1>1. /\ iflag \in BOOLEAN /\ sflag = iflag /\ trapcnt = 0
        /\ trap = [s \in Sigs \cup {EXIT} |-> "none"]
        /\ gotsig = [s \in Sigs |-> FALSE] /\ pendingsigs = 0
        /\ intpending = FALSE /\ suppressint = 0 /\ evalskip = FALSE /\ exitstatus = 0
        /\ shlvl = 0 /\ stack = <<List("top", 0)>> /\ pc = "run" /\ arg = 0
        /\ cut = FALSE /\ setter = 0
    BY TrapAssumption DEF Init
  <1>2. PICK ignored \in SUBSET IgnoredAtEntry :
        /\ sigmode = [s \in Sigs |-> IF s \in AtTop \ ignored
                                     THEN Wanted(s, "none", TRUE, iflag) ELSE "unknown"]
        /\ disp = [s \in Sigs |-> IF s \in ignored THEN "ign"
                                  ELSE IF sigmode[s] = "unknown" THEN "dfl" ELSE sigmode[s]]
    BY DEF Init
  <1>3. \A s : Wanted(s, "none", TRUE, iflag) \in {"catch", "ign", "dfl"}
    BY WantedIs
  <1>4. /\ List("top", 0) \in Frames /\ List("top", 0).kind = "top"
        /\ List("top", 0).last = 0
    BY FramesMade
  <1>5. GoodStack(stack) /\ Top.kind = "top" /\ Top.last = 0
    BY <1>1, <1>4, NewStack DEF Top
  <1>6. \A s \in Sigs : /\ sigmode[s] \in Modes
                        /\ disp[s] \in {"dfl", "ign", "catch"}
    BY <1>2, <1>3 DEF Modes
  <1>7. TypeOK
    <2>1. sigmode \in [Sigs -> Modes] /\ disp \in [Sigs -> {"dfl", "ign", "catch"}]
      BY <1>2, <1>6
    <2> QED
      BY <1>1, <1>5, <2>1 DEF TypeOK, GoodStack
  <1>8. ControlInv
    BY <1>1, <1>5 DEF ControlInv, Shape, Locked, Within, Forks, IntNotForgotten,
                      InterruptsBalanced, Noted
  <1>9. ModesAgree
    BY <1>2, <1>3 DEF ModesAgree
  <1>10. DispositionsMatch
    <2> SUFFICES ASSUME NEW s \in Sigs, ~IgnoredFixed(s)
                 PROVE  Matches(s, trap[s], disp[s], rootshell, iflag)
      BY DispositionsAre
    <2>1. trap[s] = "none" /\ rootshell = TRUE
      BY <1>1 DEF rootshell
    <2>2. CASE s \in AtTop \ ignored
      <3>1. disp[s] = Wanted(s, "none", TRUE, iflag)
        BY <1>2, <1>3, <2>2
      <3> QED
        BY <1>1, <2>1, <3>1, WantedMatches
    <2>3. CASE s \notin AtTop \ ignored
      <3>1. disp[s] = "dfl" /\ s \notin AtTop
        BY <1>2, <2>3 DEF IgnoredFixed
      <3> QED
        BY <2>1, <3>1 DEF Matches
    <2> QED
      BY <2>2, <2>3
  <1>11. Actions = {}
    BY <1>1 DEF Actions
  <1>12. TrapsCounted /\ ExitTrapOwn /\ ExecRunsNoTrap
    <2>1. Cardinality(Actions) = 0
      BY <1>11, FS_EmptySet
    <2> QED
      BY <1>1, <2>1 DEF TrapsCounted, ExitTrapOwn, ExecRunsNoTrap
  <1> QED
    BY <1>7, <1>8, <1>9, <1>10, <1>12 DEF TrapInv, TableInv

\* What traps and signals are is an invariant of the shell.
THEOREM TrapInvariant == Spec => []TrapInv
  <1>1. Init => TrapInv
    BY InitTrap
  <1>2. TrapInv /\ [Next]_vars => TrapInv'
    <2> SUFFICES ASSUME TrapInv, [Next]_vars PROVE TrapInv'
      OBVIOUS
    <2>1. CASE ShellStep
      BY <2>1, ShellStepKeeps
    <2>2. ASSUME NEW s \in Sigs, Deliver(s) PROVE TrapInv'
      BY <2>2, DeliverKeeps
    <2>3. CASE UNCHANGED vars
      BY <2>3 DEF TrapInv, TypeOK, ControlInv, Shape, Locked, Within, IntNotForgotten,
         InterruptsBalanced, Noted, TableInv, TrapsCounted, Actions, ModesAgree,
         DispositionsMatch, IgnoredFixed, ExitTrapOwn, ExecRunsNoTrap, Alive, Exiting, Top,
         rootshell, vars, sigVars, gotVars, intVars, shVars
    <2> QED
      BY <2>1, <2>2, <2>3 DEF Next
  <1> QED
    BY <1>1, <1>2, PTL DEF Spec

(***************************************************************************)
(* The properties                                                          *)
(***************************************************************************)

\* Every variable keeps its type: $?, the depth of INTOFF and the count of
\* traps included, which never go below zero.
THEOREM TrapTypes == Spec => []TypeOK
  <1>1. TrapInv => TypeOK
    BY DEF TrapInv
  <1> QED
    BY <1>1, TrapInvariant, PTL

\* A SIGINT noted while interrupts were off is acted upon when they go on.
THEOREM SigintActedUpon == Spec => []IntNotForgotten
  <1>1. TrapInv => IntNotForgotten
    BY DEF TrapInv, ControlInv
  <1> QED
    BY <1>1, TrapInvariant, PTL

\* INTOFF and INTON balance on every path, exceptions included.
THEOREM IntoffIntonBalance == Spec => []InterruptsBalanced
  <1>1. TrapInv => InterruptsBalanced
    BY DEF TrapInv, ControlInv
  <1> QED
    BY <1>1, TrapInvariant, PTL

\* What the kernel does with a signal is what its trap asks for, in the root
\* shell, in subshells and in background commands, but for those ignored at
\* entry.
THEOREM DispositionsFollowTraps == Spec => []DispositionsMatch
  <1>1. TrapInv => DispositionsMatch
    BY DEF TrapInv, TableInv
  <1> QED
    BY <1>1, TrapInvariant, PTL

\* A subshell never runs its parent's EXIT trap.
THEOREM ExitTrapInherited == Spec => []ExitTrapOwn
  <1>1. TrapInv => ExitTrapOwn
    BY DEF TrapInv, TableInv
  <1> QED
    BY <1>1, TrapInvariant, PTL

\* have_traps is enough: a process given to a program without a fork had no
\* trap that would have run after it.
THEOREM NoTrapSkippedByExec == Spec => []ExecRunsNoTrap
  <1>1. TrapInv => ExecRunsNoTrap
    BY DEF TrapInv, TableInv
  <1> QED
    BY <1>1, TrapInvariant, PTL

\* A signal with a trap is never left noted but unseen, whatever is nested:
\* functions, subshells, traps in traps.
THEOREM TrapsAreSeen == Spec => []NoTrapLost
  <1>1. TrapInv => NoTrapLost
    BY DEF TrapInv, ControlInv, Noted, NoTrapLost, Scanning
  <1> QED
    BY <1>1, TrapInvariant, PTL

\* Traps leave $? as the command before them set it, at any depth.
THEOREM StatusKeptByTraps == Spec => []TrapsKeepStatus
  <1>1. TrapInv => TrapsKeepStatus
    BY DEF TrapInv, ControlInv, Shape, TrapsKeepStatus
  <1> QED
    BY <1>1, TrapInvariant, PTL

\* Only setsignal and forkchild change what the kernel does with a signal.
LEMMA DispositionsStay ==
    ASSUME [Next]_vars, ~Setsignal, ~Setinteractive, ~Forkchild
    PROVE  UNCHANGED disp
  <1>1. ASSUME NEW how, Gone(how) PROVE UNCHANGED disp
    BY <1>1 DEF Gone, sigVars
  <1>2. ASSUME NEW st, NEW off, NEW pending, Exitshell(st, off, pending) PROVE UNCHANGED disp
    BY <1>1, <1>2 DEF Exitshell
  <1>3. ASSUME NEW e, NEW st, NEW pending, Exraise(e, st, pending) PROVE UNCHANGED disp
    BY <1>1, <1>2, <1>3 DEF Exraise, sigVars
  <1>4. CASE Onint
    BY <1>1, <1>3, <1>4 DEF Onint
  <1>5. CASE Builtin \/ Failing \/ Call \/ Return
    BY <1>4, <1>5 DEF Builtin, Failing, Call, Return, sigVars
  <1>6. CASE Error \/ Exitcmd \/ Forkfails \/ SubEnd \/ ExitEnd
    BY <1>1, <1>3, <1>6 DEF Error, Exitcmd, Forkfails, SubEnd, ExitEnd
  <1>7. CASE Trapcmd \/ Inton \/ Eof \/ TopEnd
    BY <1>2, <1>4, <1>7 DEF Trapcmd, Inton, Eof, TopEnd, sigVars
  <1>8. CASE Nofork \/ Fork \/ Forkparent \/ Waited
    BY <1>1, <1>8 DEF Nofork, Fork, Forkparent, Waited, sigVars
  <1>9. CASE Dotrap \/ NoTrap \/ ScanNext \/ ScanEnd \/ Go \/ FunEnd \/ ActEnd
    BY <1>9 DEF Dotrap, NoTrap, ScanNext, ScanEnd, Go, FunEnd, ActEnd, sigVars
  <1>10. ASSUME NEW s \in Sigs, Deliver(s) PROVE UNCHANGED disp
    BY <1>1, <1>4, <1>10 DEF Deliver, Onsig, sigVars
  <1>11. CASE UNCHANGED vars
    BY <1>11 DEF vars, sigVars
  <1> QED
    BY <1>5, <1>6, <1>7, <1>8, <1>9, <1>10, <1>11 DEF Next, ShellStep

\* A signal ignored when the shell was started, or by a background command,
\* stays ignored: no trap, no set -i and no fork changes that.
THEOREM IgnoredStaysIgnored == Spec => IgnoredForGood
  <1>1. TrapInv /\ [Next]_vars =>
            [\A s \in Sigs : IgnoredFixed(s) => disp'[s] = "ign"]_vars
    <2> SUFFICES ASSUME TrapInv, [Next]_vars, NEW s \in Sigs, IgnoredFixed(s)
                 PROVE  disp'[s] = "ign"
      OBVIOUS
    <2>1. disp[s] = "ign" /\ Fixed(s) /\ TypeOK
      BY DEF TrapInv, TableInv, ModesAgree, IgnoredFixed, Fixed
    <2>2. CASE Setsignal
      BY <2>1, <2>2, SetSignalsIs DEF Setsignal
    <2>3. CASE Setinteractive
      BY <2>1, <2>3, SetSignalsIs DEF Setinteractive
    <2>4. CASE Forkchild
      <3>1. CASE intpending /\ suppressint = 1
        BY <2>1, <2>4, <3>1 DEF Forkchild, Gone, sigVars
      <3>2. CASE ~(intpending /\ suppressint = 1)
        <4> DEFINE hard == IF pc = "background" THEN {SIGINT, SIGQUIT} ELSE {}
                   moved == {x \in ChildSignals \cap Sigs : ~Fixed(x)}
                   W(x) == Wanted(x, Cleared[x], FALSE, iflag)
        <4>1. disp' = [x \in Sigs |-> IF x \in hard THEN "ign"
                                      ELSE IF x \in moved THEN W(x) ELSE disp[x]]
          BY <2>4, <3>2 DEF Forkchild
        <4>2. s \notin moved
          BY <2>1
        <4> HIDE DEF hard, moved, W
        <4> QED
          BY <2>1, <4>1, <4>2
      <3> QED
        BY <3>1, <3>2
    <2>5. CASE ~Setsignal /\ ~Setinteractive /\ ~Forkchild
      BY <2>1, <2>5, DispositionsStay
    <2> QED
      BY <2>2, <2>3, <2>4, <2>5
  <1> QED
    BY <1>1, TrapInvariant, PTL DEF Spec, IgnoredForGood

=============================================================================
