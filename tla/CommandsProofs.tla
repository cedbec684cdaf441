--------------------------- MODULE CommandsProofs ---------------------------
(***************************************************************************)
(* Theorems about Commands.                                                *)
(*                                                                         *)
(* Base: each command remembers the redirections, the local variables, the *)
(* arguments, the function and the input that there are; so what ends, or  *)
(* is unwound by an error, finds what it gives back.  Goes: break, return  *)
(* and continue lead where they should.  TableRight, on top of these: what *)
(* the table of commands remembers agrees with a search of PATH.  Restored:*)
(* the tables of redirections say how each command gets its descriptors    *)
(* back.  Each of the three is kept by every action: ...Keeps, ...Right and*)
(* ...Restored.                                                            *)
(***************************************************************************)
EXTENDS CommandsLemmas

(***************************************************************************)
(* The invariant.                                                          *)
(***************************************************************************)
Flows == [evalskip : {"no", "break", "cont", "func"}, skipcount : Int, loopnest : Int]

TypeOK ==
    /\ Descs(rd) /\ ct \in Tables /\ stack \in Seq(Frames) /\ flow \in Flows /\ inputs \in Seq(Nat)
    /\ params \in ParamTypes /\ blocks \subseteq 1..MaxBlocks
    /\ world \in Worlds /\ mode \in {"runs", "exited"} /\ goal \in Int /\ caught \in BOOLEAN

Now == [params |-> params, blocks |-> blocks, ct |-> ct]

Base ==
    /\ TypeOK
    /\ HeldRight(Now, stack, Len(ct.locals))
    /\ mode = "runs" => Shaped(stack) /\ Len(rd.list) = Depth(Top) /\ Len(ct.locals) = Locals(Top)
    /\ Inputs(stack, inputs)
    /\ mode = "runs" /\ ~caught => ReadRight(stack, inputs)
Goes ==
    /\ mode = "runs" /\ ~caught => FlowRight(stack, flow, goal)
    /\ SkipsRight
IInv == Base /\ Goes

\* Nothing is skipped, and nothing begins or ends; only what the commands
\* make of the descriptors may change.
Quiet ==
    /\ mode = "runs" /\ mode' = mode /\ flow.evalskip = "no" /\ goal' = NoGoal
    /\ flow' = flow /\ inputs' = inputs /\ world' = world /\ caught' = caught
    /\ stack' \in Seq(Frames) /\ Alike(stack, stack') /\ \A n \in UserFds : stack'[1].sees[n] # Same
    /\ Descs(rd') /\ Len(rd'.list) = Len(rd.list)
    /\ HeldRight(Now', stack', Len(ct.locals))

\* What HeldRight says of its parts.
LEMMA HeldNow ==
    ASSUME NEW p, NEW b, NEW c, NEW stk, NEW n, HeldRight([params |-> p, blocks |-> b, ct |-> c], stk, n)
    PROVE  /\ p \in ParamTypes /\ b \subseteq 1..MaxBlocks /\ c \in Tables /\ Len(c.locals) = n
           /\ CountsRight(c, stk) /\ BlocksRight(p, stk, b)
  BY DEF HeldRight

\* A step that begins and ends no command keeps the invariant.
LEMMA QuietKeeps ==
    ASSUME IInv, Quiet
    PROVE  IInv'
<1>1. HeldRight([params |-> params', blocks |-> blocks', ct |-> ct'], stack', Len(ct.locals))
  BY DEF Quiet, Now
<1>2. params' \in ParamTypes /\ blocks' \subseteq 1..MaxBlocks /\ ct' \in Tables /\ Len(ct'.locals) = Len(ct.locals)
  BY <1>1, HeldNow
<1>3. TypeOK'
  BY <1>2 DEF IInv, Base, TypeOK, Quiet, NoGoal
<1>4. HeldRight(Now, stack, Len(ct.locals))'
  BY <1>1, <1>2 DEF Now
<1>5. stack \in Seq(Frames) /\ stack' \in Seq(Frames) /\ Alike(stack, stack') /\ Shaped(stack)
  BY DEF IInv, Base, TypeOK, Quiet
<1>6. /\ Shaped(stack') /\ Depth(Last(stack')) = Depth(Last(stack))
      /\ Locals(Last(stack')) = Locals(Last(stack))
  BY <1>5, ShapedAlike DEF Quiet
<1>7. (Shaped(stack) /\ Len(rd.list) = Depth(Top) /\ Len(ct.locals) = Locals(Top))'
  BY <1>2, <1>6 DEF IInv, Base, Quiet, Top
<1>8. Inputs(stack', inputs') /\ (mode' = "runs" /\ ~caught' => ReadRight(stack', inputs'))
  BY <1>5, ReadAlike DEF IInv, Base, Quiet
<1>9. At(stack', {"loop"}) = At(stack, {"loop"})
  BY <1>5, AtAlike
<1>10. mode' = "runs" /\ ~caught' => FlowRight(stack', flow', goal')
  BY <1>9 DEF IInv, Goes, Quiet, FlowRight
<1>11. SkipsRight'
  BY DEF SkipsRight, Quiet
<1> QED
  BY <1>3, <1>4, <1>7, <1>8, <1>10, <1>11 DEF IInv, Base, Goes

\* A command begins that others run in.
Pushes(x) ==
    /\ mode = "runs" /\ mode' = mode /\ flow.evalskip = "no" /\ flow'.evalskip = "no" /\ goal' = NoGoal
    /\ flow' \in Flows /\ world' = world /\ caught' = caught
    /\ stack' = Append(stack, x) /\ x.stop = Len(rd.list) /\ x.lstop = Len(ct.locals)
    /\ flow'.loopnest = flow.loopnest + IF x.kind = "loop" THEN 1 ELSE 0
    /\ inputs' = IF x.kind \in Reading THEN <<x.input>> \o inputs ELSE inputs
    /\ x.kind \in Reading => \A i \in 1..Len(inputs) : inputs[i] # x.input
    /\ Descs(rd') /\ Len(rd'.list) = Depth(x)
    /\ HeldRight(Now', stack', Locals(x))

\* So does one that begins a command that remembers what there is.
LEMMA PushesKeeps ==
    ASSUME IInv, NEW x \in Frames, x.kind # "top", Pushes(x)
    PROVE  IInv'
<1>1. HeldRight([params |-> params', blocks |-> blocks', ct |-> ct'], stack', Locals(x))
  BY DEF Pushes, Now
<1>2. params' \in ParamTypes /\ blocks' \subseteq 1..MaxBlocks /\ ct' \in Tables /\ Len(ct'.locals) = Locals(x)
  BY <1>1, HeldNow
<1>3. stack \in Seq(Frames) /\ Shaped(stack) /\ Inputs(stack, inputs)
      /\ Len(rd.list) = Depth(Last(stack)) /\ Len(ct.locals) = Locals(Last(stack))
  BY DEF IInv, Base, TypeOK, Pushes, Top
<1>4. stack' \in Seq(Frames) /\ Last(stack') = x
  BY <1>3, AppendIs DEF Pushes
<1>5. Inputs(stack', inputs') /\ (mode' = "runs" /\ ~caught' => ReadRight(stack', inputs'))
  <2>1. CASE x.kind \in Reading
    BY <1>3, <2>1, ReadPush DEF IInv, Base, Pushes
  <2>2. CASE x.kind \notin Reading
    BY <1>3, <2>2, ReadOther DEF IInv, Base, Pushes
  <2> QED
    BY <2>1, <2>2
<1>6. TypeOK'
  BY <1>2, <1>4, <1>5 DEF IInv, Base, TypeOK, Pushes, NoGoal, Inputs
<1>7. HeldRight(Now, stack, Len(ct.locals))'
  BY <1>1, <1>2 DEF Now
<1>8. Shaped(stack')
  BY <1>3, ShapedPush DEF Pushes
<1>9. (Shaped(stack) /\ Len(rd.list) = Depth(Top) /\ Len(ct.locals) = Locals(Top))'
  BY <1>2, <1>4, <1>8 DEF Pushes, Top
<1>10. ASSUME mode' = "runs", ~caught' PROVE FlowRight(stack', flow', goal')
  <2> DEFINE I == At(stack, {"loop"})
             J == At(stack', {"loop"})
  <2>1. FlowRight(stack, flow, goal)
    BY <1>10 DEF IInv, Goes, Pushes
  <2>2. flow.loopnest = Cardinality(I)
    BY <2>1 DEF FlowRight
  <2>3. J = IF x.kind = "loop" THEN I \cup {Len(stack) + 1} ELSE I
    BY <1>3, AtPush DEF Pushes
  <2>4. IsFiniteSet(I) /\ Cardinality(I) \in Nat /\ Len(stack) + 1 \notin I
    BY <1>3, AtFinite, AtPush
  <2> HIDE DEF I, J
  <2>5. Cardinality(J) = Cardinality(I) + IF x.kind = "loop" THEN 1 ELSE 0
    <3>1. CASE x.kind = "loop"
      BY <2>3, <2>4, <3>1, FS_AddElement
    <3>2. CASE x.kind # "loop"
      BY <2>3, <2>4, <3>2
    <3> QED
      BY <3>1, <3>2
  <2>6. flow'.loopnest = Cardinality(J)
    BY <2>2, <2>5 DEF Pushes
  <2> QED
    BY <2>6 DEF FlowRight, Pushes, J
<1>11. SkipsRight'
  BY DEF SkipsRight, Pushes
<1> QED
  BY <1>5, <1>6, <1>7, <1>9, <1>10, <1>11 DEF IInv, Base, Goes

\* An error ends all that runs above its handler.
LEMMA RaiseKeeps ==
    ASSUME IInv, mode = "runs", NEW io, Descs(io), Len(io.list) >= Len(rd.list),
           NEW cmds, Like(ct, cmds), Len(cmds.locals) >= Len(ct.locals),
           raise(io, cmds), world' = world
    PROVE  IInv'
<1> DEFINE h == stack[Handler]
           start == [params |-> params, blocks |-> blocks, ct |-> cmds]
           held == Unwound(start)
           popped == IF h.redirs THEN R!popredir(io, 0) ELSE io
           part == SubSeq(stack, 1, Handler)
<1>1. stack \in Seq(Frames) /\ Shaped(stack) /\ Inputs(stack, inputs)
      /\ Len(rd.list) = Depth(Last(stack)) /\ Len(ct.locals) = Locals(Last(stack))
      /\ ct \in Tables /\ Descs(rd)
  BY DEF IInv, Base, TypeOK, Top
<1>2. /\ Handler \in 1..Len(stack)
      /\ \/ h.kind = "top" /\ Handler = 1
         \/ h.kind \in {"eval", "dot"} /\ ~h.special /\ Handler # 1
  BY <1>1, HandlerIs
<1>3. /\ Shaped(part) /\ part \in Seq(Frames) /\ Last(part) = h /\ h \in Frames /\ part # <<>>
      /\ Depth(h) =< Depth(Last(stack)) /\ Locals(h) =< Locals(Last(stack))
      /\ Handler # 1 => /\ Depth(stack[Handler - 1]) = h.stop /\ Locals(stack[Handler - 1]) = h.lstop
                        /\ Handler - 1 \in 1..Len(stack)
  BY <1>1, <1>2, ShapedPart, PartOfPart
<1>4. /\ params' = held.params /\ blocks' = held.blocks
      /\ rd' = R!unwindredir(popped, h.stop)
      /\ ct' = L!unwindlocalvars(held.ct, h.lstop)
      /\ goal' = NoGoal
      /\ h.kind = "top" =>
           /\ flow' = [evalskip |-> "no", skipcount |-> 0, loopnest |-> 0]
           /\ inputs' = <<Last(inputs)>> /\ stack' = <<h>> /\ mode' \in {"runs", "exited"} /\ caught' = caught
      /\ h.kind # "top" =>
           /\ stack' = SubSeq(stack, 1, Handler - 1) /\ caught' = TRUE
           /\ flow' = flow /\ inputs' = inputs /\ mode' = mode
  BY DEF raise
<1>5. HeldRight(start, stack, Len(cmds.locals))
  <2>1. HeldRight([params |-> params, blocks |-> blocks, ct |-> ct], stack, Len(ct.locals))
    BY DEF IInv, Base, Now
  <2>2. /\ params \in ParamTypes /\ blocks \subseteq 1..MaxBlocks
        /\ CountsRight(ct, stack) /\ BlocksRight(params, stack, blocks)
    BY <2>1, HeldNow
  <2>3. CountsRight(cmds, stack) /\ cmds \in Tables
    BY <2>2, CountsLike DEF Like
  <2> QED
    BY <2>2, <2>3 DEF HeldRight
<1> HIDE DEF start
<1>6. HeldRight(held, part, Len(cmds.locals))
  BY <1>1, <1>2, <1>5, HeldUnwound
<1> HIDE DEF held
<1>7. /\ Depth(h) \in Nat /\ Locals(h) \in Nat /\ h.stop \in Nat /\ h.lstop \in Nat
      /\ h.stop =< Depth(h) /\ h.lstop =< Locals(h)
      /\ h.redirs => Depth(h) = h.stop + 1
      /\ h.redirs \in BOOLEAN
  BY <1>3, DepthIs, FrameFields
<1>8. Len(io.list) \in Nat /\ Len(cmds.locals) \in Nat /\ Len(rd.list) \in Nat /\ Len(ct.locals) \in Nat
  BY <1>1 DEF Descs, Like, Tables
<1>9. Len(io.list) >= Depth(h) /\ Len(cmds.locals) >= h.lstop
  BY <1>1, <1>3, <1>7, <1>8, SMTT(30)
<1>10. Descs(popped) /\ Len(popped.list) >= h.stop
  <2>1. CASE h.redirs
    <3>1. Len(io.list) >= 1
      BY <1>7, <1>8, <1>9, <2>1
    <3>2. Descs(R!popredir(io, 0)) /\ Len(R!popredir(io, 0).list) = Len(io.list) - 1
      BY <3>1, PoppedList
    <3> QED
      BY <1>7, <1>8, <1>9, <2>1, <3>2
  <2>2. CASE ~h.redirs
    BY <1>7, <1>8, <1>9, <2>2
  <2> QED
    BY <2>1, <2>2
<1> HIDE DEF popped, h
<1>11. Descs(rd') /\ Len(rd'.list) = h.stop
  BY <1>4, <1>7, <1>10, UnwoundList
<1>12. /\ held.params \in ParamTypes /\ held.blocks \subseteq 1..MaxBlocks
       /\ held.ct \in Tables /\ Len(held.ct.locals) = Len(cmds.locals)
       /\ CountsRight(held.ct, part) /\ BlocksRight(held.params, part, held.blocks)
  BY <1>6 DEF HeldRight
<1>13. Like(held.ct, ct') /\ Len(ct'.locals) = h.lstop
  BY <1>4, <1>7, <1>9, <1>12, UnwoundLike
<1>14. CountsRight(ct', part) /\ ct' \in Tables
  BY <1>12, <1>13, CountsLike DEF Like
<1>15. CASE h.kind = "top"
  <2>1. Handler = 1 /\ h = stack[1]
    BY <1>2, <1>15 DEF h
  <2>2. part = <<h>> /\ Depth(h) = 0 /\ Locals(h) = 0
    <3>1. Depth(h) = 0 /\ Locals(h) = 0
      BY <1>1, <2>1 DEF Shaped
    <3>2. part = <<h>>
      <4>1. 1 \in 0..Len(stack) /\ part = SubSeq(stack, 1, 1)
        BY <1>1, <1>2, <2>1
      <4>2. part \in Seq(Frames) /\ Len(part) = 1 /\ part[1] = h
        BY <1>1, <2>1, <4>1, FirstPart
      <4> HIDE DEF part
      <4> QED
        BY <4>2
    <3> QED
      BY <3>1, <3>2
  <2>3. h.stop = 0 /\ h.lstop = 0
    BY <1>7, <2>2
  <2> HIDE DEF part
  <2>4. stack' = part
    BY <1>4, <1>15, <2>2
  <2>5. /\ inputs # <<>> /\ Inputs(stack', inputs')
        /\ ReadRight(stack, inputs) => ReadRight(stack', inputs')
    <3>1. stack # <<>> /\ stack[1].kind = "top"
      BY <1>1 DEF Shaped
    <3> QED
      BY <1>1, <1>4, <1>15, <2>1, <3>1, ReadTop
  <2>6. HeldRight(Now, stack, Len(ct.locals))'
    BY <1>4, <1>12, <1>14, <2>4 DEF HeldRight, Now
  <2>7. TypeOK'
    BY <1>3, <1>4, <1>11, <1>12, <1>14, <1>15, <2>4, <2>5, SMTT(30) DEF IInv, Base, TypeOK, NoGoal, Flows, Inputs
  <2>8. (Shaped(stack) /\ Len(rd.list) = Depth(Top) /\ Len(ct.locals) = Locals(Top))'
    BY <1>3, <1>11, <1>13, <2>2, <2>3, <2>4 DEF Top
  <2>9. mode' = "runs" /\ ~caught' => ReadRight(stack', inputs')
    BY <1>4, <1>15, <2>5 DEF IInv, Base
  <2>10. FlowRight(stack', flow', goal')
    <3>1. At(stack', {"loop"}) = {}
      <4>1. \A i \in 1..Len(stack') : i = 1 /\ stack'[i] = h
        BY <2>2, <2>4
      <4> QED
        BY <1>15, <4>1 DEF At
    <3>2. Cardinality({}) = 0
      BY FS_EmptySet
    <3>3. flow'.evalskip = "no" /\ flow'.loopnest = 0
      BY <1>4, <1>15
    <3> QED
      BY <3>1, <3>2, <3>3 DEF FlowRight
  <2>11. SkipsRight'
    BY <1>4 DEF SkipsRight
  <2> QED
    BY <2>5, <2>6, <2>7, <2>8, <2>9, <2>10, <2>11 DEF IInv, Base, Goes
<1>16. CASE h.kind # "top"
  <2>1. Handler # 1 /\ h.kind # "function" /\ h.kind \in Reading
    BY <1>2, <1>16 DEF h, Reading
  <2> DEFINE rest == SubSeq(stack, 1, Handler - 1)
  <2>2. /\ Shaped(rest) /\ rest \in Seq(Frames) /\ Last(rest) = stack[Handler - 1]
        /\ Depth(Last(rest)) = h.stop /\ Locals(Last(rest)) = h.lstop
    BY <1>1, <1>3, <2>1, ShapedPart
  <2>3. Front(part) = rest
    BY <1>1, <1>2, PartOfPart
  <2> HIDE DEF part, rest
  <2>4. stack' = rest
    BY <1>4, <1>16 DEF rest
  <2>5. CountsRight(ct', rest) /\ BlocksRight(held.params, rest, held.blocks)
    BY <1>3, <1>12, <1>14, <2>1, <2>3, CountsOther, BlocksOther
  <2>6. HeldRight(Now, stack, Len(ct.locals))'
    BY <1>4, <1>12, <1>14, <2>4, <2>5 DEF HeldRight, Now
  <2>7. Inputs(stack', inputs')
    <3>1. At(rest, Reading) \subseteq At(stack, Reading)
      <4>1. PICK n \in Nat \ {0} : n = Len(stack) /\ Handler - 1 \in 1..n
        BY <1>1, <1>3, <2>1, FrontIs DEF Shaped
      <4>2. Handler - 1 \in 0..n
        BY <4>1
      <4>3. Len(rest) = Handler - 1 /\ \A i \in 1..Handler - 1 : rest[i] = stack[i] /\ i \in 1..n
        BY <1>1, <4>1, <4>2, FirstPart DEF rest
      <4> QED
        BY <4>1, <4>3 DEF At
    <3>2. /\ IsFiniteSet(At(stack, Reading)) /\ Cardinality(At(stack, Reading)) \in Nat
          /\ Cardinality(At(rest, Reading)) \in Nat
      BY <1>1, <2>2, AtFinite
    <3>3. Cardinality(At(rest, Reading)) =< Cardinality(At(stack, Reading))
      BY <3>1, <3>2, FS_Subset
    <3>4. inputs' = inputs /\ Len(inputs) \in Nat /\ Len(inputs) >= Cardinality(At(stack, Reading))
      BY <1>1, <1>4, <1>16 DEF Inputs
    <3>5. Len(inputs') >= Cardinality(At(rest, Reading))
      BY <3>2, <3>3, <3>4
    <3> QED
      BY <1>1, <2>4, <3>4, <3>5 DEF Inputs
  <2>10. caught' = TRUE
    BY <1>4, <1>16
  <2>12. flow \in Flows /\ world \in Worlds /\ mode \in {"runs", "exited"}
    BY DEF IInv, Base, TypeOK
  <2>13. flow' \in Flows /\ world' \in Worlds /\ mode' \in {"runs", "exited"} /\ goal' \in Int /\ caught' \in BOOLEAN
    <3>1. flow' = flow /\ mode' = mode /\ goal' = -1
      BY <1>4, <1>16 DEF NoGoal
    <3>2. caught' \in BOOLEAN
      BY <2>10
    <3> QED
      BY <2>12, <3>1, <3>2
  <2>14. Descs(rd') /\ ct' \in Tables /\ stack' \in Seq(Frames) /\ inputs' \in Seq(Nat)
    BY <1>11, <1>14, <2>2, <2>4, <2>7 DEF Inputs
  <2>15. params' \in ParamTypes /\ blocks' \subseteq 1..MaxBlocks
    BY <1>4, <1>12
  <2>8. TypeOK'
    BY <2>13, <2>14, <2>15 DEF TypeOK
  <2>9. (Shaped(stack) /\ Len(rd.list) = Depth(Top) /\ Len(ct.locals) = Locals(Top))'
    BY <1>11, <1>13, <2>2, <2>4 DEF Top
  <2>11. SkipsRight'
    BY <1>4 DEF SkipsRight
  <2> QED
    BY <2>6, <2>7, <2>8, <2>9, <2>10, <2>11 DEF IInv, Base, Goes
<1> QED
  BY <1>15, <1>16

\* Inputs may be left over.
LEMMA InputsFront ==
    ASSUME NEW stk \in Seq(Frames), stk # <<>>, NEW ins, Inputs(stk, ins)
    PROVE  Inputs(Front(stk), ins)
<1>1. At(Front(stk), Reading) \subseteq At(stk, Reading) /\ Front(stk) \in Seq(Frames)
  BY AtFront
<1>2. /\ IsFiniteSet(At(stk, Reading)) /\ Cardinality(At(stk, Reading)) \in Nat
      /\ Cardinality(At(Front(stk), Reading)) \in Nat
  BY <1>1, AtFinite
<1>3. Cardinality(At(Front(stk), Reading)) =< Cardinality(At(stk, Reading))
  BY <1>1, <1>2, FS_Subset
<1>4. ins \in Seq(Nat) /\ Len(ins) \in Nat /\ Len(ins) >= Cardinality(At(stk, Reading))
  BY DEF Inputs
<1>5. Len(ins) >= Cardinality(At(Front(stk), Reading))
  BY <1>2, <1>3, <1>4
<1> QED
  BY <1>4, <1>5 DEF Inputs

\* evalcommand from out on undoes what is left of the command.
LEMMA OutDone ==
    ASSUME NEW f \in Frames, NEW io, Descs(io), Len(io.list) >= Depth(f),
           NEW c \in Tables, Len(c.locals) >= f.lstop, Out(f, io, c)
    PROVE  /\ Descs(rd') /\ Len(rd'.list) = f.stop
           /\ Like(c, ct') /\ Len(ct'.locals) = f.lstop
<1> DEFINE popped == IF f.redirs THEN R!popredir(io, 0) ELSE io
<1>1. rd' = R!unwindredir(popped, f.stop) /\ ct' = L!unwindlocalvars(c, f.lstop)
  BY DEF Out
<1>2. f.stop \in Nat /\ f.lstop \in Nat /\ f.redirs \in BOOLEAN
  BY FrameFields
<1>3. Len(io.list) \in Nat
  BY DEF Descs
<1>4. CASE f.redirs
  <2>1. Len(io.list) >= f.stop + 1
    BY <1>4, DepthIs
  <2>2. Len(io.list) >= 1
    BY <1>2, <1>3, <2>1
  <2>3. Descs(R!popredir(io, 0)) /\ Len(R!popredir(io, 0).list) = Len(io.list) - 1
    BY <2>2, PoppedList
  <2>4. Len(R!popredir(io, 0).list) >= f.stop
    BY <1>2, <1>3, <2>1, <2>3
  <2>5. rd' = R!unwindredir(R!popredir(io, 0), f.stop)
    BY <1>1, <1>4
  <2> QED
    BY <1>1, <1>2, <2>3, <2>4, <2>5, UnwoundList, UnwoundLike
<1>5. CASE ~f.redirs
  <2>1. Len(io.list) >= f.stop
    BY <1>5, DepthIs
  <2>2. rd' = R!unwindredir(io, f.stop)
    BY <1>1, <1>5
  <2> QED
    BY <1>1, <1>2, <2>1, <2>2, UnwoundList, UnwoundLike
<1> QED
  BY <1>2, <1>4, <1>5

\* What the end of a command does to evalskip and skipcount.
FlowEnds(skip, count) ==
    /\ Top.kind = "loop" => flow' = [evalskip |-> skip, skipcount |-> count, loopnest |-> flow.loopnest - 1]
    /\ Top.kind \in {"group", "eval"} => flow' = flow
    /\ Top.kind \in {"function", "dot", "top"} => flow' = [flow EXCEPT !.evalskip = SkipsFunc(skip)]

\* The innermost command has ended, and l lists of local values are left.
Leaves(l) ==
    /\ mode = "runs" /\ stack' = Front(stack) /\ world' = world /\ caught' = caught
    /\ Descs(rd') /\ HeldRight(Now', Front(stack), l) /\ Inputs(Front(stack), inputs')
    /\ Top.kind # "top" => (Len(rd'.list) = Top.stop /\ l = Top.lstop)
    /\ Top.kind # "top" /\ ReadRight(stack, inputs) => ReadRight(Front(stack), inputs')
    /\ flow' \in Flows /\ goal' \in Int
    /\ mode' = IF Top.kind = "top" THEN "exited" ELSE "runs"

\* And, but for where it leads, one that ends commands.
LEMMA EndedBase ==
    ASSUME IInv, NEW l, Leaves(l)
    PROVE  Base'
<1>1. stack \in Seq(Frames) /\ Shaped(stack) /\ world \in Worlds /\ caught \in BOOLEAN
  BY DEF IInv, Base, TypeOK, Leaves
<1>2. stack # <<>>
  BY <1>1 DEF Shaped
<1>3. PICK n \in Nat \ {0} : n = Len(stack)
  BY <1>1, <1>2, FrontIs
<1>4. /\ Front(stack) \in Seq(Frames) /\ Top = stack[n] /\ n \in 1..n
  <2>1. Front(stack) \in Seq(Frames) /\ Last(stack) = stack[Len(stack)]
    BY <1>1, <1>2, FrontIs
  <2> QED
    BY <1>3, <2>1 DEF Top
<1>5. Top.kind # "top" => /\ Shaped(Front(stack)) /\ Depth(Last(Front(stack))) = Top.stop
                          /\ Locals(Last(Front(stack))) = Top.lstop
  <2>1. n # 1 => n - 1 \in 1..n
    BY <1>3
  <2>2. n # 1 => stack[n].stop = Depth(stack[n - 1]) /\ stack[n].lstop = Locals(stack[n - 1])
    BY <1>1, <1>3, <1>4, ShapedPart
  <2>3. n # 1 => Shaped(Front(stack)) /\ Last(Front(stack)) = stack[n - 1]
    BY <1>1, <1>3, <2>1, ShapedPart DEF Front
  <2>4. n = 1 => Top.kind = "top"
    BY <1>1, <1>4 DEF Shaped
  <2> QED
    BY <1>4, <2>2, <2>3, <2>4
<1>6. HeldRight([params |-> params', blocks |-> blocks', ct |-> ct'], Front(stack), l)
  BY DEF Now, Leaves
<1>7. params' \in ParamTypes /\ blocks' \subseteq 1..MaxBlocks /\ ct' \in Tables /\ Len(ct'.locals) = l
  BY <1>6, HeldNow
<1>8. TypeOK'
  BY <1>1, <1>4, <1>7 DEF TypeOK, Inputs, Leaves
<1>9. HeldRight(Now, stack, Len(ct.locals))'
  BY <1>6, <1>7 DEF Now, Leaves
<1>10. mode' = "runs" => Shaped(stack') /\ Len(rd'.list) = Depth(Last(stack')) /\ Len(ct'.locals) = Locals(Last(stack'))
  BY <1>5, <1>7 DEF Leaves
<1>11. Inputs(stack', inputs')
  BY DEF Leaves
<1>12. mode' = "runs" /\ ~caught' => ReadRight(stack', inputs')
  BY DEF Leaves, IInv, Base
<1> QED
  BY <1>8, <1>9, <1>10, <1>11, <1>12 DEF Base, Top

\* The innermost command ends.
LEMMA EndsBase ==
    ASSUME IInv, mode = "runs", NEW skip \in {"no", "break", "cont", "func"}, NEW count \in Int,
           Ends(skip, count), goal' \in Int
    PROVE  /\ Base' /\ FlowEnds(skip, count)
           /\ stack' = Front(stack) /\ caught' = caught
           /\ mode' = IF Top.kind = "top" THEN "exited" ELSE "runs"
<1>1. stack \in Seq(Frames) /\ Shaped(stack) /\ Inputs(stack, inputs) /\ ct \in Tables /\ Descs(rd)
      /\ Len(rd.list) = Depth(Top) /\ Len(ct.locals) = Locals(Top)
      /\ params \in ParamTypes /\ blocks \subseteq 1..MaxBlocks /\ inputs \in Seq(Nat) /\ flow \in Flows
  BY DEF IInv, Base, TypeOK
<1>2. stack # <<>>
  BY <1>1 DEF Shaped
<1>3. Front(stack) \in Seq(Frames) /\ Top \in Frames /\ Top = Last(stack)
  BY <1>1, <1>2, FrontIs DEF Top
<1>4. /\ Top.stop \in Nat /\ Top.lstop \in Nat /\ Depth(Top) \in Nat /\ Locals(Top) \in Nat
      /\ Top.stop =< Depth(Top) /\ Top.lstop =< Locals(Top)
      /\ Top.redirs => Depth(Top) = Top.stop + 1
      /\ ~Top.redirs => Depth(Top) = Top.stop
      /\ Top.kind = "function" => Locals(Top) = Top.lstop + 1
      /\ Top.kind \in {"top", "loop", "group"} => Locals(Top) = Top.lstop
      /\ Top.kind \in {"top", "function", "eval", "dot", "group", "loop"}
      /\ Top.kind = "loop" => ~Top.redirs
      /\ Top.kind = "group" => Top.redirs
  BY <1>3, FrameFields, DepthIs
<1>5. stack' = Front(stack) /\ world' = world /\ caught' = caught
  BY DEF Ends
<1>6. HeldRight([params |-> params, blocks |-> blocks, ct |-> ct], stack, Len(ct.locals))
  BY DEF IInv, Base, Now
<1>7. CountsRight(ct, stack) /\ BlocksRight(params, stack, blocks)
  BY <1>6, HeldNow
\* What is held by all but a function stays.
<1>8. ASSUME Top.kind # "function", params' = params, blocks' = blocks, Like(ct, ct')
      PROVE  HeldRight(Now', Front(stack), Len(ct'.locals))
  <2>1. CountsRight(ct, Front(stack)) /\ BlocksRight(params, Front(stack), blocks)
    BY <1>1, <1>2, <1>3, <1>7, <1>8, CountsOther, BlocksOther
  <2>2. CountsRight(ct', Front(stack)) /\ ct' \in Tables
    BY <1>8, <2>1, CountsLike DEF Like
  <2> QED
    BY <1>1, <1>8, <2>1, <2>2 DEF HeldRight, Now
<1>9. Inputs(Front(stack), inputs)
  BY <1>1, <1>2, InputsFront
<1>10. Top.kind \notin Reading => (ReadRight(stack, inputs) => ReadRight(Front(stack), inputs))
  BY <1>1, <1>2, <1>3, ReadOther
<1>11. ASSUME Top.kind \in Reading, inputs' = Tail(inputs)
       PROVE  /\ Inputs(Front(stack), inputs')
              /\ ReadRight(stack, inputs) => ReadRight(Front(stack), inputs')
  BY <1>1, <1>2, <1>3, <1>11, ReadPop
<1>12. SkipsFunc(skip) \in {"no", "break", "cont", "func"}
  BY DEF SkipsFunc
<1>13. Like(ct, ct)
  BY <1>1, LikeItself
<1>14. CASE Top.kind = "loop"
  <2>1. /\ flow' = [evalskip |-> skip, skipcount |-> count, loopnest |-> flow.loopnest - 1]
        /\ rd' = rd /\ ct' = ct /\ inputs' = inputs /\ params' = params /\ blocks' = blocks /\ mode' = mode
    BY <1>14 DEF Ends
  <2>2. flow' \in Flows
    BY <1>1, <2>1 DEF Flows
  <2>3. HeldRight(Now', Front(stack), Len(ct.locals))
    BY <1>8, <1>13, <1>14, <2>1
  <2>4. Leaves(Len(ct.locals))
    BY <1>1, <1>4, <1>5, <1>9, <1>10, <1>14, <2>1, <2>2, <2>3 DEF Leaves, Reading
  <2> QED
    BY <1>5, <1>14, <2>1, <2>4, EndedBase DEF FlowEnds, Leaves
<1>15. CASE Top.kind = "group"
  <2>1. /\ rd' = R!popredir(rd, 0)
        /\ ct' = ct /\ flow' = flow /\ inputs' = inputs /\ params' = params /\ blocks' = blocks /\ mode' = mode
    BY <1>15 DEF Ends
  <2>2. Len(rd.list) >= 1 /\ Len(rd.list) - 1 = Top.stop
    BY <1>1, <1>4, <1>15
  <2>3. Descs(rd') /\ Len(rd'.list) = Top.stop
    BY <1>1, <2>1, <2>2, PoppedList
  <2>4. HeldRight(Now', Front(stack), Len(ct.locals))
    BY <1>8, <1>13, <1>15, <2>1
  <2>5. Leaves(Len(ct.locals))
    BY <1>1, <1>4, <1>5, <1>9, <1>10, <1>15, <2>1, <2>3, <2>4 DEF Leaves, Reading
  <2> QED
    BY <1>5, <1>15, <2>1, <2>5, EndedBase DEF FlowEnds, Leaves
<1>16. CASE Top.kind = "top"
  <2>1. /\ mode' = "exited" /\ flow' = [flow EXCEPT !.evalskip = SkipsFunc(skip)]
        /\ rd' = rd /\ ct' = ct /\ inputs' = inputs /\ params' = params /\ blocks' = blocks
    BY <1>16 DEF Ends
  <2>2. flow' \in Flows
    BY <1>1, <1>12, <2>1 DEF Flows
  <2>3. HeldRight(Now', Front(stack), Len(ct.locals))
    BY <1>8, <1>13, <1>16, <2>1
  <2>4. Leaves(Len(ct.locals))
    BY <1>1, <1>5, <1>9, <1>16, <2>1, <2>2, <2>3 DEF Leaves
  <2> QED
    BY <1>5, <1>16, <2>1, <2>4, EndedBase DEF FlowEnds, Leaves
<1>17. CASE Top.kind \in {"eval", "dot"}
  <2>1. /\ inputs' = Tail(inputs) /\ Out(Top, rd, ct) /\ params' = params /\ blocks' = blocks /\ mode' = mode
        /\ Top.kind = "eval" => flow' = flow
        /\ Top.kind = "dot" => flow' = [flow EXCEPT !.evalskip = SkipsFunc(skip)]
    BY <1>17 DEF Ends, popfile
  <2>2. flow' \in Flows
    BY <1>1, <1>12, <1>17, <2>1 DEF Flows
  <2>3. Len(rd.list) >= Depth(Top) /\ Len(ct.locals) >= Top.lstop
    BY <1>1, <1>4
  <2>4. /\ Descs(rd') /\ Len(rd'.list) = Top.stop
        /\ Like(ct, ct') /\ Len(ct'.locals) = Top.lstop
    BY <1>1, <1>3, <2>1, <2>3, OutDone
  <2>5. HeldRight(Now', Front(stack), Len(ct'.locals))
    BY <1>8, <1>17, <2>1, <2>4
  <2>6. Leaves(Top.lstop)
    BY <1>5, <1>11, <1>17, <2>1, <2>2, <2>4, <2>5 DEF Leaves, Reading
  <2> QED
    BY <1>5, <1>17, <2>1, <2>6, EndedBase DEF FlowEnds, Leaves
<1>18. CASE Top.kind = "function"
  <2> DEFINE c == L!poplocalvars(ct, 0)
             start == [params |-> params, blocks |-> blocks, ct |-> c]
             held == funcdone(Top, start)
  <2>1. /\ Out(Top, rd, held.ct) /\ params' = held.params /\ blocks' = held.blocks
        /\ flow' = [flow EXCEPT !.evalskip = SkipsFunc(skip)] /\ inputs' = inputs /\ mode' = mode
    BY <1>18 DEF Ends
  <2>2. flow' \in Flows
    BY <1>1, <1>12, <2>1 DEF Flows
  <2>3. Len(ct.locals) >= 1 /\ Len(ct.locals) - 1 = Top.lstop
    <3>1. Len(ct.locals) = Top.lstop + 1 /\ Top.lstop \in Nat
      BY <1>1, <1>4, <1>18
    <3> QED
      BY <3>1
  <2>4. Like(ct, c) /\ Len(c.locals) = Top.lstop
    BY <1>1, <2>3, Popped
  <2> HIDE DEF c
  <2>5. HeldRight(start, stack, Top.lstop)
    <3>1. CountsRight(c, stack) /\ c \in Tables
      BY <1>7, <2>4, CountsLike DEF Like
    <3> QED
      BY <1>1, <1>7, <2>4, <3>1 DEF HeldRight
  <2> HIDE DEF start
  <2>6. HeldRight(held, Front(stack), Top.lstop)
    BY <1>1, <1>2, <1>3, <2>5, HeldDone
  <2> HIDE DEF held
  <2>7. /\ held.params \in ParamTypes /\ held.blocks \subseteq 1..MaxBlocks
        /\ held.ct \in Tables /\ Len(held.ct.locals) = Top.lstop
        /\ CountsRight(held.ct, Front(stack)) /\ BlocksRight(held.params, Front(stack), held.blocks)
    BY <2>6 DEF HeldRight
  <2>8. Len(rd.list) >= Depth(Top) /\ Len(held.ct.locals) >= Top.lstop
    BY <1>1, <1>4, <2>7
  <2>9. /\ Descs(rd') /\ Len(rd'.list) = Top.stop
        /\ Like(held.ct, ct') /\ Len(ct'.locals) = Top.lstop
    BY <1>1, <1>3, <2>1, <2>7, <2>8, OutDone
  <2>10. CountsRight(ct', Front(stack)) /\ ct' \in Tables
    BY <2>7, <2>9, CountsLike DEF Like
  <2>11. HeldRight(Now', Front(stack), Top.lstop)
    BY <2>1, <2>7, <2>9, <2>10 DEF HeldRight, Now
  <2>12. Leaves(Top.lstop)
    BY <1>5, <1>9, <1>10, <1>18, <2>1, <2>2, <2>9, <2>11 DEF Leaves, Reading
  <2> QED
    BY <1>5, <1>18, <2>1, <2>12, EndedBase DEF FlowEnds, Leaves
<1> QED
  BY <1>4, <1>14, <1>15, <1>16, <1>17, <1>18

\* The loops without the innermost command.
LEMMA LoopsFront ==
    ASSUME NEW stk \in Seq(Frames), stk # <<>>
    PROVE  LET I == At(Front(stk), {"loop"})
               J == At(stk, {"loop"})
           IN  /\ Cardinality(I) \in Nat /\ Cardinality(J) \in Nat
               /\ Last(stk).kind # "loop" => J = I
               /\ Last(stk).kind = "loop" => /\ J = I \cup {Len(stk)} /\ Cardinality(J) = Cardinality(I) + 1
                                             /\ Count(J, Len(stk)) = 1
                                             /\ \A l \in I : Count(J, l) = Count(I, l) + 1
               /\ \A l \in I : Count(I, l) \in Nat \ {0} /\ l \in 1..Len(Front(stk))
<1> DEFINE I == At(Front(stk), {"loop"})
           J == At(stk, {"loop"})
<1>1. PICK n \in Nat \ {0} : n = Len(stk)
  BY FrontIs
<1>2. PICK m \in Nat : m = n - 1 /\ n = m + 1
  BY <1>1
<1>3. Front(stk) \in Seq(Frames) /\ Len(Front(stk)) = m
  BY <1>1, <1>2, FrontIs
<1>4. I \subseteq 1..m
  BY <1>3, AtFinite
<1>5. /\ Last(stk).kind = "loop" => J = I \cup {m + 1}
      /\ Last(stk).kind # "loop" => J = I
  BY <1>1, <1>2, AtFront
<1>6. Cardinality(J) \in Nat
  BY AtFinite
<1> HIDE DEF I, J
<1>7. /\ IsFiniteSet(I) /\ Cardinality(I) \in Nat
      /\ Cardinality(I \cup {m + 1}) = Cardinality(I) + 1
      /\ Count(I \cup {m + 1}, m + 1) = 1
      /\ \A i \in I : Count(I \cup {m + 1}, i) = Count(I, i) + 1 /\ Count(I, i) \in 1..Cardinality(I)
  BY <1>2, <1>4, CountPush
<1>8. \A l \in I : Count(I, l) \in Nat \ {0} /\ l \in 1..m
  BY <1>4, <1>7
<1> QED
  BY <1>1, <1>2, <1>3, <1>5, <1>6, <1>7, <1>8 DEF I, J

\* A command ends by itself.
LEMMA EndKeeps ==
    ASSUME IInv, End
    PROVE  IInv'
<1>1. mode = "runs" /\ flow.evalskip = "no" /\ Ends("no", flow.skipcount) /\ goal' = NoGoal
  BY DEF End
<1>2. flow.skipcount \in Int /\ goal' \in Int
  BY <1>1 DEF IInv, Base, TypeOK, Flows, NoGoal
<1>3. /\ Base' /\ FlowEnds("no", flow.skipcount) /\ stack' = Front(stack) /\ caught' = caught
      /\ mode' = IF Top.kind = "top" THEN "exited" ELSE "runs"
  BY <1>1, <1>2, EndsBase
<1>4. stack \in Seq(Frames) /\ stack # <<>> /\ Top \in Frames
  BY <1>1, FrontIs DEF IInv, Base, TypeOK, Shaped, Top
<1>5. flow \in Flows
  BY DEF IInv, Base, TypeOK
<1>6. Top.kind \in {"top", "function", "eval", "dot", "group", "loop"}
  BY <1>4, FrameFields
<1>7. flow'.evalskip = "no"
  BY <1>1, <1>3, <1>5, <1>6 DEF FlowEnds, SkipsFunc, Flows
<1>8. ASSUME mode' = "runs", ~caught' PROVE FlowRight(stack', flow', goal')
  <2> DEFINE I == At(Front(stack), {"loop"})
             J == At(stack, {"loop"})
  <2>1. FlowRight(stack, flow, goal)
    BY <1>1, <1>3, <1>8 DEF IInv, Goes
  <2>2. flow.loopnest = Cardinality(J)
    BY <2>1 DEF FlowRight
  <2>3. /\ Cardinality(I) \in Nat
        /\ Top.kind # "loop" => J = I
        /\ Top.kind = "loop" => Cardinality(J) = Cardinality(I) + 1
    BY <1>4, LoopsFront DEF Top
  <2> HIDE DEF I, J
  <2>4. Top.kind = "loop" => flow'.loopnest = Cardinality(J) - 1
    BY <1>3, <2>2 DEF FlowEnds
  <2>5. Top.kind # "loop" => flow'.loopnest = flow.loopnest
    BY <1>3, <1>5, <1>6 DEF FlowEnds, Flows
  <2>6. flow'.loopnest = Cardinality(I)
    BY <2>2, <2>3, <2>4, <2>5
  <2> QED
    BY <1>3, <1>7, <2>6 DEF FlowRight, I
<1>9. SkipsRight'
  BY <1>1 DEF SkipsRight
<1> QED
  BY <1>3, <1>8, <1>9 DEF IInv, Goes

\* What break, continue and return skip ends too, or goes on.
LEMMA SkipKeeps ==
    ASSUME IInv, Skip
    PROVE  IInv'
<1> DEFINE loop == Top.kind = "loop" /\ flow.evalskip # "func"
           count == IF loop THEN flow.skipcount - 1 ELSE flow.skipcount
           done == loop /\ count =< 0
           I == At(Front(stack), {"loop"})
           J == At(stack, {"loop"})
<1>1. /\ mode = "runs" /\ flow.evalskip # "no" /\ goal' = goal
      /\ done /\ flow.evalskip = "cont" =>
           /\ flow' = [flow EXCEPT !.evalskip = "no", !.skipcount = count]
           /\ UNCHANGED <<rd, ct, stack, inputs, params, blocks, world, mode, caught>>
      /\ ~(done /\ flow.evalskip = "cont") => Ends(IF done THEN "no" ELSE flow.evalskip, count)
  BY DEF Skip
<1>2. /\ flow \in Flows /\ goal \in Int /\ count \in Int
      /\ flow.evalskip \in {"break", "cont", "func"} /\ flow.skipcount \in Int
      /\ flow.loopnest \in Int
  BY <1>1 DEF IInv, Base, TypeOK, Flows
<1>3. stack \in Seq(Frames) /\ stack # <<>> /\ Top \in Frames /\ Top = Last(stack)
  BY <1>1, FrontIs DEF IInv, Base, TypeOK, Shaped, Top
<1>4. Top.kind \in {"top", "function", "eval", "dot", "group", "loop"}
  BY <1>3, FrameFields
<1>5. PICK n \in Nat \ {0} : n = Len(stack) /\ Len(Front(stack)) = n - 1
  BY <1>3, FrontIs
<1>6. /\ Cardinality(I) \in Nat /\ Cardinality(J) \in Nat
      /\ Top.kind # "loop" => J = I
      /\ Top.kind = "loop" => /\ J = I \cup {n} /\ Cardinality(J) = Cardinality(I) + 1
                              /\ Count(J, n) = 1
                              /\ \A l \in I : Count(J, l) = Count(I, l) + 1
      /\ \A l \in I : Count(I, l) \in Nat \ {0} /\ l \in 1..n - 1
  BY <1>3, <1>5, LoopsFront
<1>7. ASSUME ~caught
      PROVE  /\ flow.loopnest = Cardinality(J)
             /\ flow.evalskip \in {"break", "cont"} =>
                  \E l \in J : flow.skipcount = Count(J, l) /\ goal = IF flow.evalskip = "cont" THEN l ELSE l - 1
             /\ flow.evalskip = "func" => /\ goal + 1 \in At(stack, Scripting)
                                          /\ \A i \in At(stack, Scripting) : i =< goal + 1
  BY <1>1, <1>7 DEF IInv, Goes, FlowRight
<1> HIDE DEF I, J, count
\* continue goes on with the next turn of this loop.
<1>8. CASE done /\ flow.evalskip = "cont"
  <2>1. /\ flow' = [flow EXCEPT !.evalskip = "no", !.skipcount = count]
        /\ rd' = rd /\ ct' = ct /\ stack' = stack /\ inputs' = inputs /\ params' = params
        /\ blocks' = blocks /\ world' = world /\ mode' = mode /\ caught' = caught
    BY <1>1, <1>8
  <2>2. flow' \in Flows /\ flow'.evalskip = "no" /\ flow'.loopnest = flow.loopnest
    BY <1>2, <2>1 DEF Flows
  <2>3. Base'
    BY <1>1, <2>1, <2>2 DEF IInv, Base, TypeOK, Now, Top
  <2>4. ASSUME ~caught' PROVE FlowRight(stack', flow', goal') /\ Len(stack) = goal
    <3>1. flow.loopnest = Cardinality(J)
      BY <1>7, <2>1, <2>4
    <3>2. PICK l \in J : flow.skipcount = Count(J, l) /\ goal = l
      BY <1>7, <1>8, <2>1, <2>4
    <3>3. count = flow.skipcount - 1 /\ count =< 0 /\ Top.kind = "loop"
      BY <1>8 DEF count
    <3>4. Count(J, l) =< 1
      BY <1>2, <3>2, <3>3
    <3>5. l \notin I
      BY <1>6, <3>3, <3>4
    <3>6. l = n
      BY <1>6, <3>2, <3>3, <3>5
    <3> QED
      BY <1>5, <2>1, <2>2, <3>1, <3>2, <3>6 DEF FlowRight, J
  <2>5. SkipsRight'
    BY <1>1, <1>5, <2>1, <2>4 DEF SkipsRight
  <2> QED
    BY <2>3, <2>4, <2>5 DEF IInv, Goes
<1>9. CASE ~(done /\ flow.evalskip = "cont")
  <2> DEFINE skip == IF done THEN "no" ELSE flow.evalskip
  <2>1. Ends(skip, count) /\ skip \in {"no", "break", "cont", "func"} /\ goal' \in Int
    BY <1>1, <1>2, <1>9
  <2>2. /\ Base' /\ FlowEnds(skip, count) /\ stack' = Front(stack) /\ caught' = caught
        /\ mode' = IF Top.kind = "top" THEN "exited" ELSE "runs"
    BY <1>1, <1>2, <2>1, EndsBase
  <2> HIDE DEF skip
  <2>3. ASSUME ~caught' PROVE FlowRight(stack', flow', goal') /\ Len(stack') >= goal
                              /\ (flow'.evalskip = "no" => Len(stack') = goal)
    <3>1. ~caught /\ flow.loopnest = Cardinality(J)
      BY <1>7, <2>2, <2>3
    <3>2. CASE flow.evalskip = "func"
      <4>1. skip = "func" /\ ~done
        BY <1>2, <3>2 DEF skip
      <4>2. goal + 1 \in At(stack, Scripting) /\ \A i \in At(stack, Scripting) : i =< goal + 1
        BY <1>7, <3>1, <3>2
      <4>3. goal + 1 \in 1..n
        BY <1>5, <4>2 DEF At
      <4>4. CASE Top.kind \in Scripting
        <5>1. n \in At(stack, Scripting)
          BY <1>3, <1>5, <4>4 DEF At, Last
        <5>2. n =< goal + 1
          BY <4>2, <5>1
        <5>3. goal = n - 1
          BY <1>2, <1>5, <4>3, <5>2
        <5>4. flow'.evalskip = "no" /\ flow'.loopnest = Cardinality(I)
          BY <1>2, <1>6, <2>2, <3>1, <4>1, <4>4 DEF FlowEnds, SkipsFunc, Scripting, Flows
        <5> QED
          BY <1>5, <2>2, <5>3, <5>4 DEF FlowRight, I
      <4>5. CASE Top.kind \notin Scripting
        <5>1. At(stack', Scripting) = At(stack, Scripting)
          BY <1>3, <2>2, <4>5, AtFront
        <5>2. goal + 1 \in 1..n - 1
          BY <1>5, <2>2, <4>2, <5>1 DEF At
        <5>3. flow'.evalskip = "func"
          BY <1>4, <2>2, <3>2, <4>1, <4>5 DEF FlowEnds, Scripting
        <5>4. flow'.loopnest = Cardinality(I)
          <6>1. CASE Top.kind = "loop"
            <7>1. flow'.loopnest = Cardinality(J) - 1
              BY <2>2, <3>1, <6>1 DEF FlowEnds
            <7> QED
              BY <1>6, <6>1, <7>1
          <6>2. CASE Top.kind # "loop"
            BY <1>4, <1>6, <2>2, <3>1, <4>5, <6>2 DEF FlowEnds, Scripting
          <6> QED
            BY <6>1, <6>2
        <5>5. n - 1 >= goal
          BY <1>2, <1>5, <5>2
        <5> QED
          BY <1>1, <1>5, <2>2, <4>2, <5>1, <5>3, <5>4, <5>5 DEF FlowRight, I
      <4> QED
        BY <4>4, <4>5
    <3>3. CASE flow.evalskip \in {"break", "cont"}
      <4>1. PICK l \in J : flow.skipcount = Count(J, l) /\ goal = IF flow.evalskip = "cont" THEN l ELSE l - 1
        BY <1>7, <3>1, <3>3
      <4>2. CASE Top.kind = "loop" /\ l = n
        <5>1. count = 0 /\ done
          <6>1. count = flow.skipcount - 1
            BY <3>3, <4>2 DEF count
          <6>2. count = 0
            BY <1>6, <4>1, <4>2, <6>1
          <6> QED
            BY <3>3, <4>2, <6>2
        <5>2. flow.evalskip = "break" /\ skip = "no"
          BY <1>9, <3>3, <5>1 DEF skip
        <5>3. goal = n - 1
          BY <4>1, <4>2, <5>2
        <5>4. flow'.evalskip = "no" /\ flow'.loopnest = Cardinality(J) - 1
          BY <2>2, <3>1, <4>2, <5>2 DEF FlowEnds
        <5>5. flow'.loopnest = Cardinality(I)
          BY <1>6, <4>2, <5>4
        <5> QED
          BY <1>5, <2>2, <5>3, <5>4, <5>5 DEF FlowRight, I
      <4>3. CASE Top.kind = "loop" /\ l # n
        <5>1. l \in I /\ Count(J, l) = Count(I, l) + 1 /\ Count(I, l) \in Nat \ {0} /\ l \in 1..n - 1
          BY <1>6, <4>1, <4>3
        <5>2. count = flow.skipcount - 1
          BY <3>3, <4>3 DEF count
        <5>3. count = Count(I, l)
          BY <4>1, <5>1, <5>2
        <5>4. ~(count =< 0)
          BY <5>1, <5>3
        <5>5. skip = flow.evalskip
          BY <5>4 DEF skip
        <5>6. flow'.evalskip = flow.evalskip /\ flow'.skipcount = Count(I, l) /\ flow'.loopnest = Cardinality(J) - 1
          BY <2>2, <3>1, <4>3, <5>3, <5>5 DEF FlowEnds
        <5>7. flow'.loopnest = Cardinality(I)
          BY <1>6, <4>3, <5>6
        <5>8. n - 1 >= goal
          BY <1>5, <4>1, <5>1
        <5>9. flow'.evalskip \in {"break", "cont"}
          BY <3>3, <5>6
        <5> QED
          BY <1>1, <1>5, <2>2, <4>1, <5>1, <5>6, <5>7, <5>8, <5>9 DEF FlowRight, I
      <4>4. CASE Top.kind # "loop"
        <5>1. l \in I /\ J = I /\ l \in 1..n - 1
          BY <1>6, <4>1, <4>4
        <5>2. skip = flow.evalskip
          BY <4>4 DEF skip
        <5>3. /\ flow'.evalskip = flow.evalskip /\ flow'.skipcount = flow.skipcount
              /\ flow'.loopnest = flow.loopnest
          BY <1>2, <1>4, <2>2, <3>3, <4>4, <5>2 DEF FlowEnds, SkipsFunc, Flows
        <5>4. n - 1 >= goal
          BY <1>5, <4>1, <5>1
        <5>5. flow'.evalskip \in {"break", "cont"}
          BY <3>3, <5>3
        <5> QED
          BY <1>1, <1>5, <2>2, <3>1, <4>1, <5>1, <5>3, <5>4, <5>5 DEF FlowRight, I
      <4> QED
        BY <4>2, <4>3, <4>4
    <3> QED
      BY <1>2, <3>2, <3>3
  <2>4. SkipsRight'
    BY <1>1, <2>3 DEF SkipsRight
  <2> QED
    BY <1>1, <2>2, <2>3, <2>4 DEF IInv, Goes
<1> QED
  BY <1>8, <1>9

\* What only changes evalskip leaves the rest as right as it was.
LEMMA FlowBase ==
    ASSUME IInv, flow' \in Flows, goal' \in Int,
           UNCHANGED <<rd, ct, stack, inputs, params, blocks, world, mode, caught>>
    PROVE  Base'
  BY DEF IInv, Base, TypeOK, Now, Top

\* break and continue.
LEMMA BreakKeeps ==
    ASSUME IInv, NEW n \in 1..2, NEW how \in {"break", "cont"}, breakcmd(n, how)
    PROVE  IInv'
<1> DEFINE levels == Min({n, flow.loopnest})
           J == At(stack, {"loop"})
<1>1. /\ mode = "runs" /\ flow.evalskip = "no"
      /\ flow' = IF levels = 0 THEN flow ELSE [flow EXCEPT !.evalskip = how, !.skipcount = levels]
      /\ goal' = IF Loops = {} THEN Len(stack) ELSE IF how = "cont" THEN NthLoop(n) ELSE NthLoop(n) - 1
      /\ UNCHANGED <<rd, ct, stack, inputs, params, blocks, world, mode, caught>>
  BY DEF breakcmd, Allowed
<1>2. Loops = J
  BY DEF Loops, At
<1>3. /\ flow \in Flows /\ stack \in Seq(Frames) /\ flow.loopnest \in Int /\ n \in Nat \ {0}
      /\ stack # <<>>
  BY <1>1 DEF IInv, Base, TypeOK, Flows, Shaped
<1>4. PICK len \in Nat : len = Len(stack) /\ J \subseteq 1..len
  BY <1>3, AtFinite
<1>5. levels = IF n =< flow.loopnest THEN n ELSE flow.loopnest
  <2>1. PICK k \in Int : k = flow.loopnest
    BY <1>3
  <2>2. \A a, b \in Int : Min({a, b}) = IF a =< b THEN a ELSE b
    BY DEF Min
  <2> QED
    BY <1>3, <2>1, <2>2
<1> HIDE DEF levels, J
<1>6. levels \in Int
  BY <1>3, <1>5
<1>7. flow' \in Flows
  BY <1>1, <1>3, <1>6 DEF Flows
<1>8. J # {} => /\ NthLoop(n) \in J /\ Cardinality(J) \in Nat \ {0} /\ NthLoop(n) \in 1..len
                /\ Count(J, NthLoop(n)) = IF n =< Cardinality(J) THEN n ELSE Cardinality(J)
  <2>1. NthLoop(n) = L!Max({i \in J : n =< Count(J, i)} \cup {L!Min(J)})
    BY <1>2 DEF NthLoop, Count, Max, Min, L!Max, L!Min
  <2> QED
    BY <1>3, <1>4, <2>1, NthCount
<1>9. J = {} => Cardinality(J) = 0
  BY FS_EmptySet
<1>10. goal' \in Int
  BY <1>1, <1>2, <1>4, <1>8
<1>11. Base'
  BY <1>1, <1>7, <1>10, FlowBase
<1>12. ASSUME ~caught
       PROVE  /\ FlowRight(stack, flow', goal')
              /\ Len(stack) >= goal' /\ (flow'.evalskip = "no" => Len(stack) = goal')
  <2>1. flow.loopnest = Cardinality(J)
    BY <1>1, <1>12 DEF IInv, Goes, FlowRight, J
  <2>2. CASE J = {}
    <3>1. levels = 0
      BY <1>3, <1>5, <1>9, <2>1, <2>2
    <3>2. flow' = flow /\ goal' = Len(stack)
      BY <1>1, <1>2, <2>2, <3>1
    <3>3. flow'.evalskip = "no" /\ flow'.loopnest = Cardinality(J)
      BY <1>1, <2>1, <3>2
    <3>4. FlowRight(stack, flow', goal')
      BY <3>3 DEF FlowRight, J
    <3>5. len \in Nat /\ goal' = len /\ Len(stack) = len
      BY <1>4, <3>2
    <3>6. Len(stack) >= goal' /\ Len(stack) = goal'
      BY <3>5
    <3> QED
      BY <3>4, <3>6
  <2>3. CASE J # {}
    <3> DEFINE l == NthLoop(n)
    <3>1. levels = Count(J, l) /\ levels # 0
      BY <1>3, <1>5, <1>8, <2>1, <2>3
    <3>2. goal' = IF how = "cont" THEN l ELSE l - 1
      BY <1>1, <1>2, <2>3
    <3>3. flow'.evalskip = how /\ flow'.skipcount = levels /\ flow'.loopnest = flow.loopnest
      BY <1>1, <1>3, <3>1 DEF Flows
    <3>4. l \in J /\ l \in 1..len
      BY <1>8, <2>3
    <3> HIDE DEF l
    <3>5. Len(stack) >= goal'
      BY <1>4, <3>2, <3>4
    <3> QED
      BY <2>1, <3>1, <3>2, <3>3, <3>4, <3>5 DEF FlowRight, J
  <2> QED
    BY <2>2, <2>3
<1>13. (mode = "runs" /\ ~caught => FlowRight(stack, flow, goal))'
  BY <1>1, <1>12
<1>14. SkipsRight'
  BY <1>1, <1>12 DEF SkipsRight
<1> QED
  BY <1>11, <1>13, <1>14 DEF IInv, Goes

\* return: it leads to the innermost function or dot script.
LEMMA ReturnKeeps ==
    ASSUME IInv, returncmd
    PROVE  IInv'
<1> DEFINE S == At(stack, Scripting)
<1>1. /\ mode = "runs" /\ flow.evalskip = "no"
      /\ flow' = [flow EXCEPT !.evalskip = "func"]
      /\ goal' = Max(Scripts) - 1
      /\ UNCHANGED <<rd, ct, stack, inputs, params, blocks, world, mode, caught>>
  BY DEF returncmd, Allowed
<1>2. Scripts = S /\ Max(Scripts) = L!Max(S)
  BY DEF Scripts, At, Scripting, Max, L!Max
<1>3. flow \in Flows /\ stack \in Seq(Frames) /\ stack # <<>> /\ stack[1].kind = "top"
  BY <1>1 DEF IInv, Base, TypeOK, Shaped
<1>4. PICK len \in Nat \ {0} : len = Len(stack)
  BY <1>3, FrontIs
<1>5. S \subseteq Nat /\ 1 \in S /\ \A i \in S : i =< len
  BY <1>3, <1>4 DEF At, Scripting
<1> HIDE DEF S
<1>6. PICK m \in S : m = Max(Scripts) /\ \A i \in S : m >= i
  BY <1>2, <1>4, <1>5, LMax
<1>7. m \in Nat \ {0} /\ m =< len /\ goal' = m - 1
  BY <1>1, <1>5, <1>6
<1>8. flow' \in Flows /\ flow'.evalskip = "func" /\ flow'.loopnest = flow.loopnest
  BY <1>1, <1>3 DEF Flows
<1>9. Base'
  BY <1>1, <1>7, <1>8, FlowBase
<1>10. goal' + 1 \in S /\ \A i \in S : i =< goal' + 1
  BY <1>5, <1>6, <1>7
<1>11. (mode = "runs" /\ ~caught => FlowRight(stack, flow, goal))'
  BY <1>1, <1>8, <1>10 DEF IInv, Goes, FlowRight, S
<1>12. SkipsRight'
  BY <1>1, <1>4, <1>7, <1>8 DEF SkipsRight
<1> QED
  BY <1>9, <1>11, <1>12 DEF IInv, Goes

(***************************************************************************)
(* The actions that run commands.                                          *)
(***************************************************************************)
\* What the invariant says while the shell runs.
LEMMA Running ==
    ASSUME IInv, mode = "runs"
    PROVE  /\ stack \in Seq(Frames) /\ Shaped(stack) /\ Inputs(stack, inputs) /\ ct \in Tables /\ Descs(rd)
           /\ Len(rd.list) = Depth(Top) /\ Len(ct.locals) = Locals(Top)
           /\ Len(rd.list) \in Nat /\ Len(ct.locals) \in Nat
           /\ params \in ParamTypes /\ blocks \subseteq 1..MaxBlocks /\ inputs \in Seq(Nat) /\ flow \in Flows
           /\ world \in Worlds
           /\ CountsRight(ct, stack) /\ BlocksRight(params, stack, blocks)
<1>1. HeldRight([params |-> params, blocks |-> blocks, ct |-> ct], stack, Len(ct.locals))
  BY DEF IInv, Base, Now
<1>2. CountsRight(ct, stack) /\ BlocksRight(params, stack, blocks)
  BY <1>1, HeldNow
<1>3. ct \in Tables /\ Descs(rd)
  BY DEF IInv, Base, TypeOK
<1>4. Len(rd.list) \in Nat /\ Len(ct.locals) \in Nat
  BY <1>3 DEF Descs, Tables
<1> QED
  BY <1>2, <1>3, <1>4 DEF IInv, Base, TypeOK

\* A set of redirections adds one entry to the list, if there are any.
LEMMA RedirectSafe ==
    ASSUME Descs(rd), world \in Worlds, NEW redirs \in world.redirs
    PROVE  /\ Descs(redirectsafe(redirs).rd)
           /\ redirs = <<>> => redirectsafe(redirs).rd = rd /\ ~redirectsafe(redirs).err
           /\ redirs # <<>> => Len(redirectsafe(redirs).rd.list) = Len(rd.list) + 1
           /\ Len(redirectsafe(redirs).rd.list) >= Len(rd.list)
           /\ Descs(Undone(redirectsafe(redirs).rd, redirs))
           /\ Len(Undone(redirectsafe(redirs).rd, redirs).list) = Len(rd.list)
           /\ \A drop \in {0, 1} : redirs # <<>> =>
                 /\ Descs(R!popredir(redirectsafe(redirs).rd, drop))
                 /\ Len(R!popredir(redirectsafe(redirs).rd, drop).list) = Len(rd.list)
<1> DEFINE r == redirectsafe(redirs)
<1>1. Len(redirs) \in Nat
  BY WorldsAssumption
<1>2. Len(rd.list) \in Nat
  BY DEF Descs
<1>3. CASE redirs = <<>>
  <2>1. r = [rd |-> rd, err |-> FALSE]
    BY <1>3 DEF redirectsafe
  <2>2. r.rd = rd /\ ~r.err /\ Undone(r.rd, redirs) = rd
    BY <1>3, <2>1 DEF Undone
  <2> HIDE DEF r
  <2> QED
    BY <1>2, <1>3, <2>2 DEF r
<1>4. CASE redirs # <<>>
  <2>1. r = R!redirect(R!pushredir(rd), redirs)
    BY <1>4 DEF redirectsafe
  <2>2. Descs(R!pushredir(rd)) /\ Len(R!pushredir(rd).list) = Len(rd.list) + 1
    BY PushedList
  <2>3. Done(r, Len(R!pushredir(rd).list))
    BY <1>1, <2>1, <2>2, RedirectList
  <2>4. Descs(r.rd) /\ Len(r.rd.list) = Len(rd.list) + 1
    BY <2>2, <2>3 DEF Done
  <2> HIDE DEF r
  <2>5. Len(r.rd.list) >= 1 /\ Len(r.rd.list) - 1 = Len(rd.list) /\ Len(r.rd.list) >= Len(rd.list)
    BY <1>2, <2>4
  <2>6. \A drop : Descs(R!popredir(r.rd, drop)) /\ Len(R!popredir(r.rd, drop).list) = Len(rd.list)
    BY <2>4, <2>5, PoppedList
  <2>7. Undone(r.rd, redirs) = R!popredir(r.rd, 0)
    BY <1>4 DEF Undone
  <2> QED
    BY <1>4, <2>4, <2>5, <2>6, <2>7 DEF r
<1> QED
  BY <1>3, <1>4

\* PATH=value before a command touches no function.
LEMMA AssignedLike ==
    ASSUME ct \in Tables, world \in Worlds, NEW path \in world.paths \cup {NoPath}
    PROVE  Like(ct, Assigned(path)) /\ Len(Assigned(path).locals) = Len(ct.locals) + 1
<1> DEFINE c == L!pushlocalvars(ct)
<1>1. Like(ct, c) /\ Len(c.locals) = Len(ct.locals) + 1
  BY Pushed
<1>2. Len(ct.locals) \in Nat /\ c \in Tables
  BY <1>1 DEF Like, Tables
<1> HIDE DEF c
<1>3. CASE path = NoPath
  BY <1>1, <1>3 DEF Assigned, c
<1>4. CASE path # NoPath
  <2>1. path \in Seq(STRING) /\ Len(c.locals) >= 1
    BY <1>1, <1>2, <1>4, WorldsAssumption
  <2>2. Like(c, L!mklocal(c, path)) /\ Len(L!mklocal(c, path).locals) = Len(c.locals)
    BY <1>2, <2>1, MadeLocal
  <2>3. Like(ct, L!mklocal(c, path))
    BY <1>1, <2>2, LikeTwice
  <2>4. Assigned(path) = L!mklocal(c, path)
    BY <1>4 DEF Assigned, c
  <2> QED
    BY <1>1, <2>2, <2>3, <2>4
<1> QED
  BY <1>3, <1>4

\* A function that is found is one of the table.
LEMMA FindLike ==
    ASSUME ct \in Tables, world \in Worlds, NEW path \in world.paths \cup {NoPath},
           NEW name \in Names, NEW nofunc \in BOOLEAN
    PROVE  /\ Like(ct, Find(name, path, nofunc).ct)
           /\ Len(Find(name, path, nofunc).ct.locals) = Len(ct.locals) + 1
           /\ Find(name, path, nofunc).entry.type = "function" =>
                 Find(name, path, nofunc).entry.index \in FuncIds
<1> DEFINE c == Assigned(path)
           p == IF path = NoPath THEN c.path ELSE path
           found == Find(name, path, nofunc)
<1>1. Like(ct, c) /\ Len(c.locals) = Len(ct.locals) + 1 /\ c \in Tables
  BY AssignedLike DEF Like
<1> HIDE DEF c
<1>2. p \in Seq(STRING)
  BY <1>1, WorldsAssumption DEF Tables
<1>3. found = L!find_command(c, world.files, world.builtin, name, p, path # NoPath, nofunc)
  BY DEF Find, c
<1> HIDE DEF p
<1>4. \A alt \in BOOLEAN :
        LET f == L!find_command(c, world.files, world.builtin, name, p, alt, nofunc)
        IN  /\ Like(c, f.ct) /\ f.ct.locals = c.locals
            /\ f.entry \in Entries
  BY <1>1, <1>2, FoundLike
<1>5. PICK alt \in BOOLEAN : found = L!find_command(c, world.files, world.builtin, name, p, alt, nofunc)
  BY <1>3
<1>6. Like(c, found.ct) /\ found.ct.locals = c.locals /\ found.entry \in Entries
  BY <1>4, <1>5
<1> HIDE DEF found
<1>7. Like(ct, found.ct)
  BY <1>1, <1>6, LikeTwice
<1>8. found.entry.type = "function" => found.entry.index \in FuncIds
  BY <1>6, EntryKinds DEF L!Entry
<1> QED
  BY <1>1, <1>6, <1>7, <1>8 DEF found

\* What changes neither what runs nor who owns what.
LEMMA QuietTable ==
    ASSUME IInv, mode = "runs", flow.evalskip = "no", goal' = NoGoal,
           UNCHANGED <<flow, inputs, params, blocks, world, mode, caught>>,
           stack' = stack \/ \E redirs \in world.redirs : stack' = Executed(redirs),
           Descs(rd'), Len(rd'.list) = Len(rd.list),
           Like(ct, ct'), Len(ct'.locals) = Len(ct.locals)
    PROVE  IInv'
<1>1. stack \in Seq(Frames) /\ Shaped(stack) /\ ct \in Tables /\ world \in Worlds
      /\ params \in ParamTypes /\ blocks \subseteq 1..MaxBlocks
      /\ CountsRight(ct, stack) /\ BlocksRight(params, stack, blocks)
  BY Running
<1>2. stack' \in Seq(Frames) /\ Alike(stack, stack') /\ \A n \in UserFds : stack'[1].sees[n] # Same
  <2>1. CASE stack' = stack
    BY <1>1, <2>1 DEF Alike, Shaped
  <2>2. CASE \E redirs \in world.redirs : stack' = Executed(redirs)
    BY <1>1, <2>2, ExecutedAlike
  <2> QED
    BY <2>1, <2>2
<1>3. CountsRight(ct', stack') /\ ct' \in Tables
  <2>1. CountsRight(ct', stack)
    BY <1>1, CountsLike DEF Like
  <2> QED
    BY <1>1, <1>2, <2>1, CountsAlike DEF Like
<1>4. BlocksRight(params, stack', blocks)
  BY <1>1, <1>2, BlocksAlike
<1>5. HeldRight(Now', stack', Len(ct.locals))
  BY <1>1, <1>3, <1>4 DEF HeldRight, Now
<1>6. Quiet
  BY <1>2, <1>5 DEF Quiet
<1> QED
  BY <1>6, QuietKeeps

\* A builtin or program; it ends at once.
LEMMA SimpleKeeps ==
    ASSUME IInv, NEW name \in Names, NEW redirs \in world.redirs, NEW path \in world.paths \cup {NoPath},
           NEW nofunc \in BOOLEAN, Simple(name, redirs, path, nofunc)
    PROVE  IInv'
<1> DEFINE found == Find(name, path, nofunc)
<1>1. /\ mode = "runs" /\ flow.evalskip = "no" /\ goal' = NoGoal
      /\ rd' = Undone(redirectsafe(redirs).rd, redirs)
      /\ ct' = L!unwindlocalvars(found.ct, Len(ct.locals))
      /\ UNCHANGED <<stack, flow, inputs, params, blocks, mode, world, caught>>
  BY DEF Simple, Allowed, Settled
<1>2. ct \in Tables /\ Descs(rd) /\ world \in Worlds /\ Len(ct.locals) \in Nat
  BY <1>1, Running
<1>3. Descs(rd') /\ Len(rd'.list) = Len(rd.list)
  BY <1>1, <1>2, RedirectSafe
<1>4. Like(ct, found.ct) /\ Len(found.ct.locals) = Len(ct.locals) + 1
  BY <1>2, FindLike
<1> HIDE DEF found
<1>5. found.ct \in Tables /\ Len(found.ct.locals) >= Len(ct.locals)
  BY <1>2, <1>4 DEF Like
<1>6. Like(found.ct, ct') /\ Len(ct'.locals) = Len(ct.locals)
  BY <1>1, <1>2, <1>5, UnwoundLike
<1>7. Like(ct, ct')
  BY <1>4, <1>6, LikeTwice
<1> QED
  BY <1>1, <1>3, <1>6, <1>7, QuietTable

\* A special builtin, or exec.
LEMMA SpecialKeeps ==
    ASSUME IInv, NEW redirs \in world.redirs, NEW path \in world.paths \cup {NoPath},
           NEW execcmd \in BOOLEAN, Special(redirs, path, execcmd)
    PROVE  IInv'
<1> DEFINE r == redirectsafe(redirs)
           c == Assigned(path)
           drop == IF execcmd THEN 1 ELSE 0
<1>1. /\ mode = "runs" /\ flow.evalskip = "no" /\ world' = world
      /\ r.err => raise(r.rd, c)
      /\ ~r.err => /\ rd' = IF redirs = <<>> THEN rd ELSE R!popredir(r.rd, drop)
                   /\ ct' = L!poplocalvars(c, 1)
                   /\ stack' = IF execcmd THEN Executed(redirs) ELSE stack
                   /\ goal' = NoGoal
                   /\ UNCHANGED <<flow, inputs, params, blocks, mode, caught>>
  BY DEF Special, Allowed
<1>2. ct \in Tables /\ Descs(rd) /\ world \in Worlds /\ Len(ct.locals) \in Nat
  BY <1>1, Running
<1>3. /\ Descs(r.rd) /\ Len(r.rd.list) >= Len(rd.list)
      /\ \A d \in {0, 1} : redirs # <<>> => /\ Descs(R!popredir(r.rd, d))
                                            /\ Len(R!popredir(r.rd, d).list) = Len(rd.list)
  BY <1>2, RedirectSafe
<1>4. Like(ct, c) /\ Len(c.locals) = Len(ct.locals) + 1
  BY <1>2, AssignedLike
<1> HIDE DEF r, c
<1>5. c \in Tables /\ Len(c.locals) >= Len(ct.locals) /\ Len(c.locals) >= 1 /\ Len(c.locals) - 1 = Len(ct.locals)
  BY <1>2, <1>4 DEF Like
<1>6. CASE r.err
  BY <1>1, <1>3, <1>4, <1>5, <1>6, RaiseKeeps
<1>7. CASE ~r.err
  <2>1. Descs(rd') /\ Len(rd'.list) = Len(rd.list)
    <3>1. drop \in {0, 1}
      OBVIOUS
    <3> HIDE DEF drop
    <3> QED
      BY <1>1, <1>2, <1>3, <1>7, <3>1
  <2>2. ct' = L!poplocalvars(c, 1)
    BY <1>1, <1>7
  <2>3. Like(c, ct') /\ Len(ct'.locals) = Len(ct.locals)
    BY <1>5, <2>2, Popped
  <2>4. Like(ct, ct')
    BY <1>4, <2>3, LikeTwice
  <2>5. stack' = stack \/ \E more \in world.redirs : stack' = Executed(more)
    BY <1>1, <1>7
  <2> QED
    BY <1>1, <1>7, <2>1, <2>3, <2>4, <2>5, QuietTable
<1> QED
  BY <1>6, <1>7

\* A function that is called counts once more.
LEMMA CountsCalled ==
    ASSUME NEW c \in Tables, NEW stk \in Seq(Frames), NEW x \in Frames, x.kind = "function",
           CountsRight(c, stk)
    PROVE  /\ [c EXCEPT !.count[x.func] = @ + 1] \in Tables
           /\ [c EXCEPT !.count[x.func] = @ + 1].locals = c.locals
           /\ CountsRight([c EXCEPT !.count[x.func] = @ + 1], Append(stk, x))
<1> DEFINE f == x.func
           count == [c.count EXCEPT ![f] = @ + 1]
           d == [c EXCEPT !.count = count]
<1>1. f \in FuncIds /\ c.count \in [FuncIds -> Int]
  BY FrameFields DEF Tables
<1>2. count \in [FuncIds -> Int] /\ \A h \in FuncIds : count[h] = IF h = f THEN c.count[h] + 1 ELSE c.count[h]
  BY <1>1
<1>3. [c EXCEPT !.count[f] = @ + 1] = d
  BY DEF Tables
<1> HIDE DEF count
<1>4. d \in Tables /\ d.locals = c.locals /\ d.table = c.table /\ d.count = count
  BY <1>2 DEF Tables
<1> HIDE DEF d, f
<1>5. ASSUME NEW h \in FuncIds
      PROVE  /\ IsFiniteSet(Named(d, h))
             /\ d.count[h] + 1 = Cardinality(Named(d, h)) + Cardinality(Calls(Append(stk, x), h))
  <2> DEFINE was == c.count[h]
             names == Cardinality(Named(c, h))
             calls == Cardinality(Calls(stk, h))
  <2>1. Named(d, h) = Named(c, h)
    BY <1>4 DEF Named
  <2>2. IsFiniteSet(Named(c, h)) /\ was + 1 = names + calls
    BY DEF CountsRight
  <2>3. was \in Int /\ names \in Nat /\ calls \in Nat /\ IsFiniteSet(Calls(stk, h))
    BY <2>2, CallsFinite, FS_CardinalityType DEF Tables
  <2>4. Calls(Append(stk, x), h) = IF h = f THEN Calls(stk, h) \cup {Len(stk) + 1} ELSE Calls(stk, h)
    BY CallsPushed DEF f
  <2>5. Len(stk) + 1 \notin Calls(stk, h)
    BY CallsWithin
  <2>6. h = f => Cardinality(Calls(Append(stk, x), h)) = calls + 1
    BY <2>3, <2>4, <2>5, FS_AddElement
  <2>7. h # f => Cardinality(Calls(Append(stk, x), h)) = calls
    BY <2>4
  <2>8. d.count[h] = IF h = f THEN was + 1 ELSE was
    BY <1>2, <1>4
  <2> HIDE DEF was, names, calls
  <2>9. d.count[h] + 1 = names + Cardinality(Calls(Append(stk, x), h))
    <3>1. CASE h = f
      BY <2>2, <2>3, <2>6, <2>8, <3>1
    <3>2. CASE h # f
      BY <2>2, <2>3, <2>7, <2>8, <3>2
    <3> QED
      BY <3>1, <3>2
  <2> QED
    BY <2>1, <2>2, <2>9 DEF names
<1>6. CountsRight(d, Append(stk, x))
  BY <1>5 DEF CountsRight
<1> QED
  BY <1>3, <1>4, <1>6 DEF f

\* A new command that is no function counts for no function,
LEMMA CountsOtherPushed ==
    ASSUME NEW c, NEW stk \in Seq(Frames), NEW x \in Frames, x.kind # "function", CountsRight(c, stk)
    PROVE  CountsRight(c, Append(stk, x))
<1>1. ASSUME NEW f \in FuncIds PROVE Calls(Append(stk, x), f) = Calls(stk, f)
  BY CallsPushed
<1> QED
  BY <1>1 DEF CountsRight

\* The shell's parameters wait in the function's frame.
LEMMA BlocksCalled ==
    ASSUME NEW p, NEW stk \in Seq(Frames), NEW x \in Frames, NEW live, x.kind = "function",
           x.params = p, NEW q, q.malloc = FALSE, BlocksRight(p, stk, live)
    PROVE  BlocksRight(q, Append(stk, x), live)
<1>1. PICK n \in Nat : n = Len(stk)
  OBVIOUS
<1> DEFINE t == Append(stk, x)
           was(i) == IF i = n + 1 THEN 0 ELSE i
<1>2. Len(t) = n + 1 /\ t[n + 1] = x /\ \A i \in 1..n : t[i] = stk[i]
  BY <1>1, AppendIs
<1> HIDE DEF t
<1>3. ASSUME NEW i \in Heap(q, t)
      PROVE  was(i) \in Heap(p, stk) /\ BlockOf(q, t, i) = BlockOf(p, stk, was(i)) /\ i \in 1..n + 1
  <2>1. i \in 0..n + 1 /\ i # 0
    BY <1>2 DEF Heap
  <2>2. CASE i = n + 1
    BY <1>1, <1>2, <2>1, <2>2 DEF Heap, BlockOf
  <2>3. CASE i # n + 1
    <3>1. i \in 1..n /\ i \in 0..n /\ i \in 1..n + 1
      BY <1>1, <2>1, <2>3
    <3>2. t[i] = stk[i]
      BY <1>2, <3>1
    <3> QED
      BY <1>1, <1>2, <2>1, <2>3, <3>1, <3>2 DEF Heap, BlockOf
  <2> QED
    BY <2>2, <2>3
<1>4. ASSUME NEW k \in Heap(p, stk)
      PROVE  \E i \in Heap(q, t) : was(i) = k
  <2>1. k \in 0..n
    BY <1>1 DEF Heap
  <2>2. CASE k = 0
    <3>1. n + 1 \in Heap(q, t)
      <4>1. p.malloc /\ n + 1 \in 0..n + 1 /\ n + 1 # 0
        BY <1>1, <2>2 DEF Heap
      <4> QED
        BY <1>2, <4>1 DEF Heap
    <3> QED
      BY <2>2, <3>1
  <2>3. CASE k # 0
    <3>1. k \in 1..n /\ k \in 0..n + 1 /\ k # n + 1
      BY <1>1, <2>1, <2>3
    <3>2. k \in Heap(q, t)
      BY <1>1, <1>2, <2>3, <3>1 DEF Heap
    <3> QED
      BY <3>1, <3>2
  <2> QED
    BY <2>2, <2>3
<1>5. ASSUME NEW i \in Heap(q, t), NEW j \in Heap(q, t), BlockOf(q, t, i) = BlockOf(q, t, j)
      PROVE  i = j
  <2>1. was(i) = was(j)
    BY <1>3, <1>5 DEF BlocksRight
  <2>2. i \in 1..n + 1 /\ j \in 1..n + 1
    BY <1>3
  <2> QED
    BY <1>1, <2>1, <2>2
<1>6. \A b \in live : \E i \in Heap(q, t) : BlockOf(q, t, i) = b
  BY <1>3, <1>4 DEF BlocksRight
<1>7. \A i \in Heap(q, t) : BlockOf(q, t, i) \in live
  BY <1>3 DEF BlocksRight
<1> HIDE DEF was
<1>8. BlocksRight(q, t, live)
  BY <1>5, <1>6, <1>7 DEF BlocksRight
<1> QED
  BY <1>8 DEF t

\* and owns no arguments.
LEMMA BlocksOtherPushed ==
    ASSUME NEW p, NEW stk \in Seq(Frames), NEW x \in Frames, x.kind # "function", NEW live,
           BlocksRight(p, stk, live)
    PROVE  BlocksRight(p, Append(stk, x), live)
<1>1. PICK n \in Nat : n = Len(stk)
  OBVIOUS
<1> DEFINE t == Append(stk, x)
<1>2. Len(t) = n + 1 /\ t[n + 1] = x /\ \A i \in 1..n : t[i] = stk[i]
  BY <1>1, AppendIs
<1> HIDE DEF t
<1>3. \A i \in 0..n + 1 : i = 0 \/ i \in 1..n \/ i = n + 1
  BY <1>1
<1>4. \A i \in 0..n : i \in 0..n + 1 /\ (i # 0 => i \in 1..n)
  BY <1>1
<1>5. Heap(p, t) = Heap(p, stk)
  BY <1>1, <1>2, <1>3, <1>4 DEF Heap
<1>6. \A i \in Heap(p, stk) : BlockOf(p, t, i) = BlockOf(p, stk, i)
  BY <1>1, <1>2, <1>4 DEF Heap, BlockOf
<1> QED
  BY <1>5, <1>6 DEF BlocksRight, t

\* Parameters of a command.
LEMMA ParamsTyped ==
    ASSUME NEW b \in Nat, NEW words \in Seq(Seq(STRING))
    PROVE  /\ Params(b, words) \in ParamTypes
           /\ Params(b, words).malloc = (b # 0) /\ Params(b, words).block = b
<1>1. <<>> \in Seq(Reads) /\ G!First \in [ind : Nat \ {0}, off : Int]
  BY DEF G!First
<1>2. (b # 0) \in BOOLEAN
  OBVIOUS
<1> QED
  BY <1>1, <1>2 DEF Params, ParamTypes

\* The frame of a command that begins.
Opens(x, redirs) ==
    /\ x = [kind |-> x.kind, special |-> x.special, redirs |-> x.redirs, sees |-> x.sees,
            stop |-> x.stop, lstop |-> x.lstop, input |-> x.input, func |-> x.func, params |-> x.params]
    /\ redirs = <<>> => ~x.redirs
    /\ redirs # <<>> => x.redirs
    /\ x.redirs \in BOOLEAN
    /\ x.stop = Len(rd.list) /\ x.lstop = Len(ct.locals) /\ x.params = params

\* A new frame remembers what there is,
LEMMA FrameOpens ==
    ASSUME NEW kind, NEW redirs
    PROVE  /\ Opens(Frame(kind, redirs), redirs)
           /\ Frame(kind, redirs).kind = kind /\ ~Frame(kind, redirs).special
           /\ Frame(kind, redirs).special \in BOOLEAN
           /\ Frame(kind, redirs).input = 0 /\ Frame(kind, redirs).func = 0
           /\ Frame(kind, redirs).sees = [n \in UserFds |-> Same]
<1> DEFINE x == Frame(kind, redirs)
<1>1. /\ x.kind = kind /\ x.sees = [n \in UserFds |-> Same] /\ x.stop = Len(rd.list)
      /\ x.lstop = Len(ct.locals) /\ x.input = 0 /\ x.func = 0 /\ x.params = params
  BY DEF Frame
<1>2. x.redirs = (redirs # <<>>) /\ x.special = FALSE
  BY DEF Frame
<1>3. x = [kind |-> x.kind, special |-> x.special, redirs |-> x.redirs, sees |-> x.sees,
           stop |-> x.stop, lstop |-> x.lstop, input |-> x.input, func |-> x.func, params |-> x.params]
  BY DEF Frame
<1> HIDE DEF x
<1>4. ~x.special /\ x.special \in BOOLEAN /\ x.redirs \in BOOLEAN
      /\ (redirs = <<>> => ~x.redirs) /\ (redirs # <<>> => x.redirs)
  BY <1>2
<1>5. Opens(x, redirs)
  BY <1>1, <1>3, <1>4 DEF Opens
<1> QED
  BY <1>1, <1>4, <1>5 DEF x

CalledWith(y, sees, func) == [y EXCEPT !.sees = sees, !.func = func]

\* also that of a function,
LEMMA OpensCalled ==
    ASSUME NEW y, NEW redirs, Opens(y, redirs), NEW sees, NEW func, NEW x, x = CalledWith(y, sees, func)
    PROVE  /\ Opens(x, redirs) /\ x.kind = y.kind /\ x.special = y.special /\ x.sees = sees
           /\ x.input = y.input /\ x.func = func
<1>1. y = [kind |-> y.kind, special |-> y.special, redirs |-> y.redirs, sees |-> y.sees,
           stop |-> y.stop, lstop |-> y.lstop, input |-> y.input, func |-> y.func, params |-> y.params]
  BY DEF Opens
<1>2. /\ x = [kind |-> x.kind, special |-> x.special, redirs |-> x.redirs, sees |-> x.sees,
              stop |-> x.stop, lstop |-> x.lstop, input |-> x.input, func |-> x.func, params |-> x.params]
      /\ x.kind = y.kind /\ x.special = y.special /\ x.sees = sees
           /\ x.input = y.input /\ x.func = func
      /\ x.redirs = y.redirs /\ x.stop = y.stop /\ x.lstop = y.lstop /\ x.params = y.params
  BY <1>1 DEF CalledWith
<1> QED
  BY <1>2 DEF Opens

ReadWith(y, special, sees, input) == [y EXCEPT !.special = special, !.sees = sees, !.input = input]

\* that of eval and a dot script,
LEMMA OpensRead ==
    ASSUME NEW y, NEW redirs, Opens(y, redirs), NEW special, NEW sees, NEW input, NEW x, x = ReadWith(y, special, sees, input)
    PROVE  /\ Opens(x, redirs) /\ x.kind = y.kind /\ x.special = special /\ x.sees = sees
           /\ x.input = input /\ x.func = y.func
<1>1. y = [kind |-> y.kind, special |-> y.special, redirs |-> y.redirs, sees |-> y.sees,
           stop |-> y.stop, lstop |-> y.lstop, input |-> y.input, func |-> y.func, params |-> y.params]
  BY DEF Opens
<1>2. /\ x = [kind |-> x.kind, special |-> x.special, redirs |-> x.redirs, sees |-> x.sees,
              stop |-> x.stop, lstop |-> x.lstop, input |-> x.input, func |-> x.func, params |-> x.params]
      /\ x.kind = y.kind /\ x.special = special /\ x.sees = sees
           /\ x.input = input /\ x.func = y.func
      /\ x.redirs = y.redirs /\ x.stop = y.stop /\ x.lstop = y.lstop /\ x.params = y.params
  BY <1>1 DEF ReadWith
<1> QED
  BY <1>2 DEF Opens

SeeingWith(y, sees) == [y EXCEPT !.sees = sees]

\* and that of a group,
LEMMA OpensSeeing ==
    ASSUME NEW y, NEW redirs, Opens(y, redirs), NEW sees, NEW x, x = SeeingWith(y, sees)
    PROVE  /\ Opens(x, redirs) /\ x.kind = y.kind /\ x.special = y.special /\ x.sees = sees
           /\ x.input = y.input /\ x.func = y.func
<1>1. y = [kind |-> y.kind, special |-> y.special, redirs |-> y.redirs, sees |-> y.sees,
           stop |-> y.stop, lstop |-> y.lstop, input |-> y.input, func |-> y.func, params |-> y.params]
  BY DEF Opens
<1>2. /\ x = [kind |-> x.kind, special |-> x.special, redirs |-> x.redirs, sees |-> x.sees,
              stop |-> x.stop, lstop |-> x.lstop, input |-> x.input, func |-> x.func, params |-> x.params]
      /\ x.kind = y.kind /\ x.special = y.special /\ x.sees = sees
           /\ x.input = y.input /\ x.func = y.func
      /\ x.redirs = y.redirs /\ x.stop = y.stop /\ x.lstop = y.lstop /\ x.params = y.params
  BY <1>1 DEF SeeingWith
<1> QED
  BY <1>2 DEF Opens

\* and so it is a frame, as deep as the tables.
LEMMA OpensFrame ==
    ASSUME IInv, mode = "runs", NEW x, NEW redirs, Opens(x, redirs), x.special \in BOOLEAN,
           x.kind \in {"function", "eval", "dot", "group", "loop"},
           x.sees \in [UserFds -> Seen], x.input \in Nat, x.func \in FuncIds \cup {0},
           x.kind = "function" => x.func \in FuncIds,
           x.kind = "loop" => redirs = <<>>, x.kind = "group" => redirs # <<>>
    PROVE  /\ x \in Frames
           /\ redirs = <<>> => Depth(x) = Len(rd.list)
           /\ redirs # <<>> => Depth(x) = Len(rd.list) + 1
<1>1. Len(rd.list) \in Nat /\ Len(ct.locals) \in Nat /\ params \in ParamTypes
  BY Running
<1>2. x \in Frames
  BY <1>1 DEF Frames, Opens
<1>3. x.stop = Len(rd.list) /\ (redirs = <<>> => ~x.redirs) /\ (redirs # <<>> => x.redirs)
  BY DEF Opens
<1>4. (~x.redirs => Depth(x) = x.stop) /\ (x.redirs => Depth(x) = x.stop + 1)
  BY <1>2, DepthIs
<1> QED
  BY <1>2, <1>3, <1>4

\* A function is called, or an error keeps it from it.
LEMMA CallKeeps ==
    ASSUME IInv, NEW name \in Names, NEW redirs \in world.redirs, NEW path \in world.paths \cup {NoPath},
           NEW words \in world.args, Call(name, redirs, path, words)
    PROVE  IInv'
<1> DEFINE found == Find(name, path, FALSE)
           f == found.entry.index
           r == redirectsafe(redirs)
           y == Frame("function", redirs)
           x == [y EXCEPT !.sees = Sees(redirs), !.func = f]
           c == L!pushlocalvars(L!poplocalvars(found.ct, 1))
<1>1. /\ mode = "runs" /\ flow.evalskip = "no" /\ goal' = NoGoal /\ found.entry.type = "function"
      /\ UNCHANGED <<flow, inputs, blocks, mode, world, caught>>
      /\ r.err => /\ rd' = Undone(r.rd, redirs)
                  /\ ct' = L!unwindlocalvars(found.ct, Len(ct.locals))
                  /\ UNCHANGED <<stack, params>>
      /\ ~r.err => /\ rd' = r.rd
                   /\ ct' = [c EXCEPT !.count[f] = @ + 1]
                   /\ params' = Params(0, words)
                   /\ stack' = Append(stack, [Frame("function", redirs) EXCEPT !.sees = Sees(redirs), !.func = f])
  BY DEF Call, Allowed, Settled
<1>2. /\ stack \in Seq(Frames) /\ Shaped(stack) /\ ct \in Tables /\ Descs(rd) /\ world \in Worlds
      /\ Len(ct.locals) \in Nat /\ Len(rd.list) \in Nat /\ flow \in Flows /\ blocks \subseteq 1..MaxBlocks
      /\ CountsRight(ct, stack) /\ BlocksRight(params, stack, blocks)
  BY <1>1, Running
<1>3. \A nofunc \in BOOLEAN :
         /\ Like(ct, Find(name, path, nofunc).ct)
         /\ Len(Find(name, path, nofunc).ct.locals) = Len(ct.locals) + 1
         /\ Find(name, path, nofunc).entry.type = "function" => Find(name, path, nofunc).entry.index \in FuncIds
  BY <1>2, FindLike
<1>4. Like(ct, found.ct) /\ Len(found.ct.locals) = Len(ct.locals) + 1 /\ f \in FuncIds
  BY <1>1, <1>3
<1>5. /\ Descs(r.rd) /\ Len(Undone(r.rd, redirs).list) = Len(rd.list) /\ Descs(Undone(r.rd, redirs))
      /\ redirs = <<>> => r.rd = rd
      /\ redirs # <<>> => Len(r.rd.list) = Len(rd.list) + 1
  BY <1>2, RedirectSafe
<1>6. Sees(redirs) \in [UserFds -> Seen]
  BY <1>2, SeesSeen
<1>7. ~r.err => stack' = Append(stack, x)
  BY <1>1
<1>8. /\ x \in Frames /\ x.kind = "function" /\ x.stop = Len(rd.list) /\ x.lstop = Len(ct.locals)
      /\ x.func = f /\ x.params = params
      /\ redirs = <<>> => Depth(x) = Len(rd.list)
      /\ redirs # <<>> => Depth(x) = Len(rd.list) + 1
      /\ Locals(x) = Len(ct.locals) + 1
  <2> HIDE DEF y, f, found
  <2>1. Opens(y, redirs) /\ y.kind = "function" /\ y.special \in BOOLEAN /\ y.input = 0
    <3> USE DEF y
    <3>1. Opens(y, redirs) /\ y.kind = "function"
      BY FrameOpens
    <3>2. y.special \in BOOLEAN /\ y.input = 0
      BY FrameOpens
    <3> QED
      BY <3>1, <3>2
  <2>2. x = CalledWith(y, Sees(redirs), f)
    BY DEF x, CalledWith
  <2> HIDE DEF x
  <2>3. /\ Opens(x, redirs) /\ x.kind = "function" /\ x.special \in BOOLEAN /\ x.sees = Sees(redirs)
        /\ x.input = 0 /\ x.func = f
    BY <2>1, <2>2, OpensCalled
  <2>4. /\ x \in Frames
        /\ redirs = <<>> => Depth(x) = Len(rd.list)
        /\ redirs # <<>> => Depth(x) = Len(rd.list) + 1
    BY <1>1, <1>4, <1>6, <2>3, OpensFrame
  <2>5. Locals(x) = x.lstop + 1
    BY <2>3, <2>4, DepthIs
  <2> QED
    BY <2>3, <2>4, <2>5 DEF Opens
<1>9. Like(found.ct, c) /\ Len(c.locals) = Len(ct.locals) + 1
  <2> HIDE DEF found, c
  <2>1. Len(found.ct.locals) >= 1 /\ Len(found.ct.locals) - 1 = Len(ct.locals) /\ found.ct \in Tables
    <3>1. found.ct \in Tables
      BY <1>4 DEF Like
    <3>2. Len(ct.locals) \in Nat /\ Len(found.ct.locals) = Len(ct.locals) + 1
      BY <1>2, <1>4
    <3> QED
      BY <3>1, <3>2
  <2>2. Like(found.ct, L!poplocalvars(found.ct, 1)) /\ Len(L!poplocalvars(found.ct, 1).locals) = Len(ct.locals)
    BY <2>1, Popped
  <2>3. Like(L!poplocalvars(found.ct, 1), c) /\ Len(c.locals) = Len(ct.locals) + 1
    BY <2>2, Pushed DEF Like, c
  <2> QED
    BY <2>2, <2>3, LikeTwice
<1> HIDE DEF found, f, r, x, y, c
<1>10. CASE r.err
  <2>1. found.ct \in Tables /\ Len(found.ct.locals) >= Len(ct.locals)
    BY <1>2, <1>4 DEF Like
  <2>2. Like(found.ct, ct') /\ Len(ct'.locals) = Len(ct.locals)
    BY <1>1, <1>2, <1>10, <2>1, UnwoundLike
  <2>3. Like(ct, ct')
    BY <1>4, <2>2, LikeTwice
  <2> QED
    BY <1>1, <1>5, <1>10, <2>2, <2>3, QuietTable
<1>11. CASE ~r.err
  <2>1. Like(ct, c) /\ c \in Tables
    BY <1>4, <1>9, LikeTwice DEF Like
  <2>2. CountsRight(c, stack)
    BY <1>2, <2>1, CountsLike DEF Like
  <2>3. ct' = [c EXCEPT !.count[x.func] = @ + 1]
    BY <1>1, <1>8, <1>11
  <2>4. ct' \in Tables /\ Len(ct'.locals) = Locals(x) /\ CountsRight(ct', stack')
    <3>1. /\ [c EXCEPT !.count[x.func] = @ + 1] \in Tables
          /\ [c EXCEPT !.count[x.func] = @ + 1].locals = c.locals
          /\ CountsRight([c EXCEPT !.count[x.func] = @ + 1], Append(stack, x))
      BY <1>2, <1>8, <2>1, <2>2, CountsCalled
    <3>2. ct' \in Tables /\ ct'.locals = c.locals /\ CountsRight(ct', Append(stack, x))
      BY <2>3, <3>1
    <3> QED
      BY <1>7, <1>8, <1>9, <1>11, <3>2
  <2>5. words \in Seq(Seq(STRING)) /\ params' = Params(0, words)
    BY <1>1, <1>2, <1>11, WorldsAssumption
  <2>6. params' \in ParamTypes /\ params'.malloc = FALSE
    BY <2>5, ParamsTyped
  <2>7. BlocksRight(params', stack', blocks')
    <3>1. BlocksRight(params', Append(stack, x), blocks)
      BY <1>2, <1>8, <2>6, BlocksCalled
    <3> QED
      BY <1>1, <1>7, <1>11, <3>1
  <2>8. HeldRight(Now', stack', Locals(x))
    BY <1>1, <1>2, <2>4, <2>6, <2>7 DEF HeldRight, Now
  <2>9. Descs(rd') /\ Len(rd'.list) = Depth(x)
    BY <1>1, <1>5, <1>8, <1>11
  <2>10. flow'.loopnest = flow.loopnest + IF x.kind = "loop" THEN 1 ELSE 0
    BY <1>1, <1>2, <1>8 DEF Flows
  <2>11. Pushes(x)
    BY <1>1, <1>2, <1>7, <1>8, <1>11, <2>8, <2>9, <2>10 DEF Pushes, Reading
  <2> QED
    BY <1>8, <2>11, PushesKeeps
<1> QED
  BY <1>10, <1>11

\* eval and dot scripts.
LEMMA ReadKeeps ==
    ASSUME IInv, NEW kind \in {"eval", "dot"}, NEW special \in BOOLEAN, NEW redirs \in world.redirs,
           Read(kind, special, redirs)
    PROVE  IInv'
<1> DEFINE r == redirectsafe(redirs)
           cmds == L!pushlocalvars(ct)
           new == Min((0..Len(inputs)) \ Range(inputs))
           y == Frame(kind, redirs)
           x == [y EXCEPT !.special = special, !.sees = Sees(redirs), !.input = new]
           c == IF special THEN L!poplocalvars(cmds, 1) ELSE cmds
<1>1. /\ mode = "runs" /\ flow.evalskip = "no" /\ world' = world
      /\ ~r.err => /\ rd' = r.rd /\ ct' = c
                   /\ inputs' = <<new>> \o inputs
                   /\ stack' = Append(stack, x)
                   /\ goal' = NoGoal
                   /\ UNCHANGED <<flow, params, blocks, mode, caught>>
      /\ r.err /\ special => raise(r.rd, cmds)
      /\ r.err /\ ~special => /\ rd' = Undone(r.rd, redirs) /\ goal' = NoGoal
                              /\ UNCHANGED <<ct, stack, flow, inputs, params, blocks, mode, caught>>
  BY DEF Read, Allowed
<1>2. /\ stack \in Seq(Frames) /\ Shaped(stack) /\ ct \in Tables /\ Descs(rd) /\ world \in Worlds
      /\ Len(ct.locals) \in Nat /\ Len(rd.list) \in Nat /\ flow \in Flows /\ inputs \in Seq(Nat)
      /\ params \in ParamTypes /\ blocks \subseteq 1..MaxBlocks
      /\ CountsRight(ct, stack) /\ BlocksRight(params, stack, blocks)
  BY <1>1, Running
<1>3. /\ Descs(r.rd) /\ Len(r.rd.list) >= Len(rd.list)
      /\ Len(Undone(r.rd, redirs).list) = Len(rd.list) /\ Descs(Undone(r.rd, redirs))
      /\ redirs = <<>> => r.rd = rd
      /\ redirs # <<>> => Len(r.rd.list) = Len(rd.list) + 1
  BY <1>2, RedirectSafe
<1>4. Like(ct, cmds) /\ Len(cmds.locals) = Len(ct.locals) + 1
  BY <1>2, Pushed
<1>5. new \in Nat /\ \A i \in 1..Len(inputs) : inputs[i] # new
  BY <1>2, NewInput
<1>6. Sees(redirs) \in [UserFds -> Seen]
  BY <1>2, SeesSeen
<1> HIDE DEF r, cmds, new, y
<1>7. /\ Opens(y, redirs) /\ y.kind = kind /\ y.func = 0
  <2> USE DEF y
  <2>1. Opens(y, redirs)
    BY FrameOpens
  <2>2. y.kind = kind /\ y.func = 0
    BY FrameOpens
  <2> QED
    BY <2>1, <2>2
<1>8. x = ReadWith(y, special, Sees(redirs), new)
  BY DEF x, ReadWith
<1> HIDE DEF x
<1>9. /\ Opens(x, redirs) /\ x.kind = kind /\ x.special = special /\ x.sees = Sees(redirs)
      /\ x.input = new /\ x.func = 0
  BY <1>7, <1>8, OpensRead
<1>10. /\ x \in Frames
       /\ redirs = <<>> => Depth(x) = Len(rd.list)
       /\ redirs # <<>> => Depth(x) = Len(rd.list) + 1
  BY <1>1, <1>5, <1>6, <1>9, OpensFrame
<1>11. /\ x.stop = Len(rd.list) /\ x.lstop = Len(ct.locals)
       /\ Locals(x) = Len(ct.locals) + (IF special THEN 0 ELSE 1)
  <2>1. x.stop = Len(rd.list) /\ x.lstop = Len(ct.locals)
    BY <1>9 DEF Opens
  <2>2. Locals(x) = x.lstop + (IF x.special THEN 0 ELSE 1)
    BY <1>9, <1>10, DepthIs
  <2> QED
    BY <1>9, <2>1, <2>2
<1>12. Like(ct, c) /\ Len(c.locals) = Locals(x)
  <2>1. CASE special
    <3>1. cmds \in Tables /\ Len(cmds.locals) >= 1 /\ Len(cmds.locals) - 1 = Len(ct.locals)
      BY <1>2, <1>4 DEF Like
    <3>2. Like(cmds, L!poplocalvars(cmds, 1)) /\ Len(L!poplocalvars(cmds, 1).locals) = Len(ct.locals)
      BY <3>1, Popped
    <3>3. Like(ct, L!poplocalvars(cmds, 1))
      BY <1>4, <3>2, LikeTwice
    <3>4. Locals(x) = Len(ct.locals) + 0
      BY <1>11, <2>1
    <3> QED
      BY <1>2, <2>1, <3>2, <3>3, <3>4
  <2>2. CASE ~special
    BY <1>4, <1>11, <2>2
  <2> QED
    BY <2>1, <2>2
<1> HIDE DEF c
<1>13. CASE r.err /\ special
  <2>1. Len(cmds.locals) >= Len(ct.locals)
    BY <1>2, <1>4
  <2> QED
    BY <1>1, <1>3, <1>4, <1>13, <2>1, RaiseKeeps
<1>14. CASE r.err /\ ~special
  <2>1. Like(ct, ct)
    BY <1>2, LikeItself
  <2> QED
    BY <1>1, <1>3, <1>14, <2>1, QuietTable
<1>15. CASE ~r.err
  <2>1. ct' \in Tables /\ Len(ct'.locals) = Locals(x) /\ CountsRight(ct', stack)
    BY <1>1, <1>2, <1>12, <1>15, CountsLike DEF Like
  <2>2. CountsRight(ct', stack')
    BY <1>1, <1>2, <1>9, <1>10, <1>15, <2>1, CountsOtherPushed
  <2>3. BlocksRight(params', stack', blocks')
    <3>1. BlocksRight(params, Append(stack, x), blocks)
      BY <1>2, <1>9, <1>10, BlocksOtherPushed
    <3> QED
      BY <1>1, <1>15, <3>1
  <2>4. HeldRight(Now', stack', Locals(x))
    BY <1>1, <1>2, <1>15, <2>1, <2>2, <2>3 DEF HeldRight, Now
  <2>5. Descs(rd') /\ Len(rd'.list) = Depth(x)
    BY <1>1, <1>3, <1>10, <1>15
  <2>6. flow' \in Flows /\ flow'.evalskip = "no" /\ flow'.loopnest = flow.loopnest + 0
    BY <1>1, <1>2, <1>15 DEF Flows
  <2>7. x.kind \in Reading /\ x.kind # "loop" /\ x.kind # "top"
    BY <1>9 DEF Reading
  <2>8. Pushes(x)
    BY <1>1, <1>2, <1>5, <1>9, <1>11, <1>15, <2>4, <2>5, <2>6, <2>7 DEF Pushes
  <2> QED
    BY <1>10, <2>7, <2>8, PushesKeeps
<1> QED
  BY <1>13, <1>14, <1>15

\* Groups with redirections.
LEMMA GroupKeeps ==
    ASSUME IInv, NEW redirs \in world.redirs, Group(redirs)
    PROVE  IInv'
<1> DEFINE r == redirectsafe(redirs)
           y == Frame("group", redirs)
           x == [y EXCEPT !.sees = Sees(redirs)]
<1>1. /\ mode = "runs" /\ flow.evalskip = "no" /\ goal' = NoGoal /\ redirs # <<>>
      /\ UNCHANGED <<ct, flow, inputs, params, blocks, mode, world, caught>>
      /\ r.err => rd' = Undone(r.rd, redirs) /\ stack' = stack
      /\ ~r.err => rd' = r.rd /\ stack' = Append(stack, x)
  BY DEF Group, Allowed, Settled
<1>2. /\ stack \in Seq(Frames) /\ Shaped(stack) /\ ct \in Tables /\ Descs(rd) /\ world \in Worlds
      /\ Len(ct.locals) \in Nat /\ Len(rd.list) \in Nat /\ flow \in Flows
      /\ params \in ParamTypes /\ blocks \subseteq 1..MaxBlocks
      /\ CountsRight(ct, stack) /\ BlocksRight(params, stack, blocks)
  BY <1>1, Running
<1>3. /\ Descs(r.rd) /\ Len(r.rd.list) = Len(rd.list) + 1
      /\ Len(Undone(r.rd, redirs).list) = Len(rd.list) /\ Descs(Undone(r.rd, redirs))
  BY <1>1, <1>2, RedirectSafe
<1>4. Sees(redirs) \in [UserFds -> Seen]
  BY <1>2, SeesSeen
<1> HIDE DEF r, y
<1>5. /\ Opens(y, redirs) /\ y.kind = "group" /\ y.special \in BOOLEAN /\ y.func = 0 /\ y.input = 0
  <2> USE DEF y
  <2>1. Opens(y, redirs)
    BY FrameOpens
  <2>2. y.kind = "group" /\ y.special \in BOOLEAN /\ y.func = 0 /\ y.input = 0
    BY FrameOpens
  <2> QED
    BY <2>1, <2>2
<1>6. x = SeeingWith(y, Sees(redirs))
  BY DEF x, SeeingWith
<1> HIDE DEF x
<1>7. /\ Opens(x, redirs) /\ x.kind = "group" /\ x.special \in BOOLEAN /\ x.sees = Sees(redirs)
      /\ x.input = 0 /\ x.func = 0
  BY <1>5, <1>6, OpensSeeing
<1>8. x \in Frames /\ Depth(x) = Len(rd.list) + 1
  BY <1>1, <1>4, <1>7, OpensFrame
<1>9. x.stop = Len(rd.list) /\ x.lstop = Len(ct.locals) /\ Locals(x) = Len(ct.locals)
  BY <1>7, <1>8, DepthIs DEF Opens
<1>10. CASE r.err
  <2>1. Like(ct, ct)
    BY <1>2, LikeItself
  <2> QED
    BY <1>1, <1>3, <1>10, <2>1, QuietTable
<1>11. CASE ~r.err
  <2>1. CountsRight(ct, Append(stack, x)) /\ BlocksRight(params, Append(stack, x), blocks)
    BY <1>2, <1>7, <1>8, CountsOtherPushed, BlocksOtherPushed
  <2>2. HeldRight(Now', stack', Locals(x))
    BY <1>1, <1>2, <1>9, <1>11, <2>1 DEF HeldRight, Now
  <2>3. flow' \in Flows /\ flow'.evalskip = "no" /\ flow'.loopnest = flow.loopnest + 0
    BY <1>1, <1>2 DEF Flows
  <2>4. Pushes(x)
    BY <1>1, <1>3, <1>7, <1>8, <1>9, <1>11, <2>2, <2>3 DEF Pushes, Reading
  <2> QED
    BY <1>7, <1>8, <2>4, PushesKeeps
<1> QED
  BY <1>10, <1>11

\* Loops.
LEMMA LoopKeeps ==
    ASSUME IInv, Loop
    PROVE  IInv'
<1> DEFINE x == Frame("loop", <<>>)
<1>1. /\ mode = "runs" /\ flow.evalskip = "no" /\ goal' = NoGoal
      /\ UNCHANGED <<rd, ct, inputs, params, blocks, mode, world, caught>>
      /\ flow' = [flow EXCEPT !.loopnest = @ + 1] /\ stack' = Append(stack, x)
  BY DEF Loop, Allowed, Settled
<1>2. /\ stack \in Seq(Frames) /\ Shaped(stack) /\ ct \in Tables /\ Descs(rd) /\ world \in Worlds
      /\ Len(ct.locals) \in Nat /\ Len(rd.list) \in Nat /\ flow \in Flows
      /\ params \in ParamTypes /\ blocks \subseteq 1..MaxBlocks
      /\ CountsRight(ct, stack) /\ BlocksRight(params, stack, blocks)
  BY <1>1, Running
<1>3. Opens(x, <<>>) /\ x.kind = "loop" /\ x.special \in BOOLEAN /\ x.func = 0 /\ x.input = 0
      /\ x.sees = [n \in UserFds |-> Same]
  <2>1. Opens(x, <<>>)
    BY FrameOpens
  <2>2. x.kind = "loop" /\ x.special \in BOOLEAN /\ x.func = 0 /\ x.input = 0
        /\ x.sees = [n \in UserFds |-> Same]
    BY FrameOpens
  <2> QED
    BY <2>1, <2>2
<1> HIDE DEF x
<1>4. x.sees \in [UserFds -> Seen]
  BY <1>3 DEF Seen
<1>5. x \in Frames /\ Depth(x) = Len(rd.list)
  BY <1>1, <1>3, <1>4, OpensFrame
<1>6. x.stop = Len(rd.list) /\ x.lstop = Len(ct.locals) /\ Locals(x) = Len(ct.locals)
  BY <1>3, <1>5, DepthIs DEF Opens
<1>7. CountsRight(ct, Append(stack, x)) /\ BlocksRight(params, Append(stack, x), blocks)
  BY <1>2, <1>3, <1>5, CountsOtherPushed, BlocksOtherPushed
<1>8. HeldRight(Now', stack', Locals(x))
  BY <1>1, <1>2, <1>6, <1>7 DEF HeldRight, Now
<1>9. flow' \in Flows /\ flow'.evalskip = "no" /\ flow'.loopnest = flow.loopnest + 1
  BY <1>1, <1>2 DEF Flows
<1>10. Pushes(x)
  BY <1>1, <1>2, <1>3, <1>5, <1>6, <1>8, <1>9 DEF Pushes, Reading
<1> QED
  BY <1>3, <1>5, <1>10, PushesKeeps

\* An error ends commands up to the handler.
LEMMA ErrorKeeps ==
    ASSUME IInv, Error
    PROVE  IInv'
<1>1. mode = "runs" /\ raise(rd, ct) /\ world' = world
  BY DEF Error, Allowed
<1>2. Descs(rd) /\ ct \in Tables /\ Len(rd.list) \in Nat /\ Len(ct.locals) \in Nat
  BY <1>1, Running
<1>3. Like(ct, ct)
  BY <1>2, LikeItself
<1> QED
  BY <1>1, <1>2, <1>3, RaiseKeeps


\* The builtins leave all but the parameters and the table alone.
LEMMA BuiltinKeeps ==
    ASSUME IInv, mode = "runs", flow.evalskip = "no", Keeps,
           params' \in ParamTypes, blocks' \subseteq 1..MaxBlocks, ct' \in Tables,
           Len(ct'.locals) = Len(ct.locals),
           CountsRight(ct', stack), BlocksRight(params', stack, blocks')
    PROVE  IInv'
<1>1. /\ goal' = NoGoal /\ mode' = mode /\ flow' = flow /\ inputs' = inputs /\ world' = world
      /\ caught' = caught /\ rd' = rd /\ stack' = stack
  BY DEF Keeps
<1>2. stack \in Seq(Frames) /\ Shaped(stack) /\ Descs(rd)
  BY Running
<1>3. Alike(stack, stack) /\ \A n \in UserFds : stack[1].sees[n] # Same
  BY <1>2 DEF Alike, Shaped
<1>4. HeldRight(Now', stack', Len(ct.locals))
  BY <1>1 DEF HeldRight, Now
<1>5. Quiet
  BY <1>1, <1>2, <1>3, <1>4 DEF Quiet
<1> QED
  BY <1>5, QuietKeeps

\* There is a free block while there are fewer than MaxBlocks.
LEMMA FreeBlock ==
    ASSUME blocks \subseteq 1..MaxBlocks, Cardinality(blocks) < MaxBlocks
    PROVE  Min((1..MaxBlocks) \ blocks) \in (1..MaxBlocks) \ blocks
<1>1. MaxBlocks \in Nat
  BY BoundsAssumption
<1>2. IsFiniteSet(1..MaxBlocks) /\ Cardinality(1..MaxBlocks) = MaxBlocks
  BY <1>1, FS_Interval
<1>3. (1..MaxBlocks) \ blocks # {} /\ (1..MaxBlocks) \ blocks \subseteq Nat
  <2>1. blocks # 1..MaxBlocks
    BY <1>1, <1>2
  <2>2. ~ (1..MaxBlocks \subseteq blocks)
    BY <2>1
  <2>3. PICK m \in 1..MaxBlocks : m \notin blocks
    BY <2>2
  <2>4. 1..MaxBlocks \subseteq Nat
    BY <1>1
  <2> QED
    BY <2>3, <2>4
<1>4. \E m \in (1..MaxBlocks) \ blocks : \A k \in (1..MaxBlocks) \ blocks : m =< k
  BY <1>3, LeastNumber
<1> QED
  BY <1>4 DEF Min

\* set: the old arguments are freed.
LEMMA SetKeeps ==
    ASSUME IInv, NEW words \in world.args, set(words)
    PROVE  IInv'
<1> DEFINE new == Min((1..MaxBlocks) \ blocks)
           freed == freeparam(params, blocks)
<1>1. /\ mode = "runs" /\ flow.evalskip = "no" /\ Keeps /\ ct' = ct
      /\ Cardinality(blocks) < MaxBlocks
      /\ blocks' = freed \cup {new} /\ params' = Params(new, words)
  BY DEF set, Allowed, setparam
<1>2. /\ stack \in Seq(Frames) /\ world \in Worlds /\ ct \in Tables
      /\ params \in ParamTypes /\ blocks \subseteq 1..MaxBlocks
      /\ CountsRight(ct, stack) /\ BlocksRight(params, stack, blocks)
  BY <1>1, Running
<1>3. new \in (1..MaxBlocks) \ blocks /\ new \in Nat /\ new # 0
  <2>1. new \in (1..MaxBlocks) \ blocks
    BY <1>1, <1>2, FreeBlock
  <2> HIDE DEF new
  <2> QED
    BY <2>1
<1> HIDE DEF new
<1>4. words \in Seq(Seq(STRING))
  BY <1>2, WorldsAssumption
<1>5. params' \in ParamTypes /\ params'.malloc /\ params'.block = new
  BY <1>1, <1>3, <1>4, ParamsTyped
<1>6. freed \subseteq blocks
  BY DEF freeparam
<1>7. BlocksRight(params', stack, blocks')
  <2>1. /\ Heap(params', stack) = Heap(params, stack) \cup {0}
        /\ BlockOf(params', stack, 0) = new
        /\ \A i \in Heap(params, stack) : i # 0 => BlockOf(params', stack, i) = BlockOf(params, stack, i)
    BY <1>2, <1>5 DEF Heap, BlockOf
  <2>2. \A i \in Heap(params, stack) : BlockOf(params, stack, i) \in blocks
    BY <1>2 DEF BlocksRight
  <2>3. ASSUME NEW i \in Heap(params, stack), i # 0
        PROVE  BlockOf(params, stack, i) \in freed
    <3>1. CASE params.malloc
      <4>1. 0 \in Heap(params, stack) /\ BlockOf(params, stack, 0) = params.block
        BY <1>2, <3>1 DEF Heap, BlockOf
      <4>2. BlockOf(params, stack, i) # params.block
        BY <1>2, <2>3, <4>1 DEF BlocksRight
      <4> QED
        BY <2>2, <2>3, <3>1, <4>2 DEF freeparam
    <3>2. CASE ~params.malloc
      BY <2>2, <2>3, <3>2 DEF freeparam
    <3> QED
      BY <3>1, <3>2
  <2>4. ASSUME NEW b \in freed
        PROVE  \E i \in Heap(params', stack) : BlockOf(params', stack, i) = b
    <3>1. PICK i \in Heap(params, stack) : BlockOf(params, stack, i) = b
      BY <1>2, <1>6, <2>4 DEF BlocksRight
    <3>2. i # 0
      BY <2>4, <3>1 DEF Heap, BlockOf, freeparam
    <3> QED
      BY <2>1, <3>1, <3>2
  <2>5. \A i \in Heap(params', stack) : BlockOf(params', stack, i) \in blocks'
    BY <1>1, <2>1, <2>3
  <2>6. \A i, j \in Heap(params', stack) : BlockOf(params', stack, i) = BlockOf(params', stack, j) => i = j
    <3>1. new \notin blocks
      BY <1>3
    <3>2. \A i, j \in Heap(params, stack) : BlockOf(params, stack, i) = BlockOf(params, stack, j) => i = j
      BY <1>2 DEF BlocksRight
    <3> QED
      BY <2>1, <2>2, <3>1, <3>2
  <2>7. \A b \in blocks' : \E i \in Heap(params', stack) : BlockOf(params', stack, i) = b
    BY <1>1, <2>1, <2>4
  <2> QED
    BY <2>5, <2>6, <2>7 DEF BlocksRight
<1>8. blocks' \subseteq 1..MaxBlocks
  BY <1>1, <1>2, <1>3, <1>6
<1> QED
  BY <1>1, <1>2, <1>5, <1>7, <1>8, BuiltinKeeps

\* The parameters may change while their words stay where they are.
LEMMA ParamsKeep ==
    ASSUME IInv, mode = "runs", flow.evalskip = "no", Keeps, UNCHANGED <<ct, blocks>>,
           params' \in ParamTypes, params'.malloc = params.malloc, params'.block = params.block
    PROVE  IInv'
<1>1. /\ stack \in Seq(Frames) /\ ct \in Tables /\ blocks \subseteq 1..MaxBlocks
      /\ CountsRight(ct, stack) /\ BlocksRight(params, stack, blocks)
  BY Running
<1>2. Heap(params', stack) = Heap(params, stack)
      /\ \A i \in Heap(params, stack) : BlockOf(params', stack, i) = BlockOf(params, stack, i)
  BY DEF Heap, BlockOf
<1>3. BlocksRight(params', stack, blocks)
  BY <1>1, <1>2 DEF BlocksRight
<1> QED
  BY <1>1, <1>3, BuiltinKeeps

\* shift, and getopts begun anew.
LEMMA ShiftKeeps ==
    ASSUME IInv, shift \/ getoptsreset
    PROVE  IInv'
<1>1. /\ mode = "runs" /\ flow.evalskip = "no" /\ Keeps /\ UNCHANGED <<ct, blocks>>
      /\ \/ params' = [params EXCEPT !.at = G!First, !.read = <<>>]
         \/ /\ params.words # <<>>
            /\ params' = [params EXCEPT !.words = Tail(@), !.at = G!First, !.read = <<>>]
  BY DEF shift, getoptsreset, Allowed
<1>2. params \in ParamTypes
  BY <1>1, Running
<1>3. <<>> \in Seq(Reads) /\ G!First \in [ind : Nat \ {0}, off : Int]
  BY DEF G!First
<1>4. params.words # <<>> => Tail(params.words) \in Seq(Seq(STRING))
  <2>1. params.words \in Seq(Seq(STRING))
    BY <1>2 DEF ParamTypes
  <2> QED
    BY <2>1, HeadTailOf
<1>5. params' \in ParamTypes /\ params'.malloc = params.malloc /\ params'.block = params.block
  BY <1>1, <1>2, <1>3, <1>4 DEF ParamTypes
<1> QED
  BY <1>1, <1>5, ParamsKeep


\* What getopts returns.
LEMMA Getting ==
    ASSUME NEW words \in Seq(Seq(STRING)), NEW pos \in [ind : Nat \ {0}, off : Int]
    PROVE  LET got == G!getopts(words, pos)
           IN  /\ got.at \in [ind : Nat \ {0}, off : Int]
               /\ got.opt \in Opts /\ got.arg \in Seq(STRING)
<1> DEFINE at == IF pos.ind > Len(words) + 1 THEN G!First ELSE pos
<1>1. at \in [ind : Nat \ {0}, off : Int] /\ at.ind =< Len(words) + 1
  BY DEF G!First
<1>2. at.ind \in Nat \ {0} /\ at.off \in Int /\ Len(words) \in Nat
  BY <1>1
<1> DEFINE inside == at.ind > 1 /\ at.off >= 0 /\ at.off < Len(words[at.ind - 1])
           over == ~inside /\ (at.ind > Len(words) \/ ~G!IsOption(words[at.ind]))
           word == IF inside THEN words[at.ind - 1] ELSE words[at.ind]
           next == IF inside THEN at.ind ELSE at.ind + 1
           p == IF inside THEN at.off + 1 ELSE 2
           opt == word[p]
           got == G!getopts(words, pos)
<1> HIDE DEF at
<1>3. got = IF over THEN G!Got("end", G!NoArg, at.ind, -1)
            ELSE IF ~inside /\ word = <<"-", "-">> THEN G!Got("end", G!NoArg, next, -1)
            ELSE IF opt \notin DOMAIN Options THEN G!Got("?", G!NoArg, next, p)
            ELSE IF ~Options[opt] THEN G!Got(opt, G!NoArg, next, p)
            ELSE IF p < Len(word) THEN G!Got(opt, G!Behind(word, p), next, -1)
            ELSE IF next > Len(words) THEN G!Got("?", G!NoArg, next, -1)
            ELSE G!Got(opt, words[next], next + 1, -1)
  BY DEF G!getopts, at
<1>4. next \in Nat \ {0}
  BY <1>2
<1>5. ~over => word \in Seq(STRING) /\ p \in 1..Len(word)
  <2>1. CASE inside
    <3>1. at.ind - 1 \in 1..Len(words)
      BY <1>1, <1>2, <2>1
    <3>2. words[at.ind - 1] \in Seq(STRING)
      BY <3>1
    <3>3. at.off + 1 \in 1..Len(words[at.ind - 1])
      BY <1>2, <2>1, <3>2
    <3> QED
      BY <2>1, <3>2, <3>3
  <2>2. CASE ~inside /\ ~over
    <3>1. at.ind \in 1..Len(words) /\ Len(words[at.ind]) > 1
      BY <1>2, <2>2 DEF G!IsOption
    <3>2. words[at.ind] \in Seq(STRING)
      BY <3>1
    <3>3. 2 \in 1..Len(words[at.ind])
      BY <3>1, <3>2
    <3> QED
      BY <2>2, <3>2, <3>3
  <2> QED
    BY <2>1, <2>2
<1>6. next =< Len(words) => words[next] \in Seq(STRING)
  BY <1>2, <1>4
<1> HIDE DEF next, p, word, over, inside
<1>7. ~over => p \in Int /\ opt \in Opts /\ Len(word) \in Nat
  BY <1>5 DEF Opts
<1>8. ~over /\ p < Len(word) => G!Behind(word, p) \in Seq(STRING)
  BY <1>5, <1>7 DEF G!Behind
<1>9. \A o \in Opts, a \in Seq(STRING), i \in Nat \ {0}, off \in Int :
         LET x == G!Got(o, a, i, off)
         IN  x.at \in [ind : Nat \ {0}, off : Int] /\ x.opt \in Opts /\ x.arg \in Seq(STRING)
  BY DEF G!Got
<1>10. -1 \in Int /\ "end" \in Opts /\ "?" \in Opts /\ G!NoArg \in Seq(STRING)
  <2>1. -1 \in Int
    OBVIOUS
  <2>2. "end" \in Opts /\ "?" \in Opts
    BY DEF Opts
  <2>3. <<>> \in Seq(STRING)
    OBVIOUS
  <2> QED
    BY <2>1, <2>2, <2>3 DEF G!NoArg
<1>11. next + 1 \in Nat \ {0}
  BY <1>4
<1>12. next \in Int /\ Len(words) \in Nat
  BY <1>2, <1>4
<1> HIDE DEF got, opt
<1>13. got.at \in [ind : Nat \ {0}, off : Int] /\ got.opt \in Opts /\ got.arg \in Seq(STRING)
  <2>1. CASE over \/ (~inside /\ word = <<"-", "-">>)
    <3>1. got = G!Got("end", G!NoArg, at.ind, -1) \/ got = G!Got("end", G!NoArg, next, -1)
      BY <1>3, <2>1
    <3> QED
      BY <1>2, <1>4, <1>9, <1>10, <3>1
  <2>2. CASE ~over /\ ~(~inside /\ word = <<"-", "-">>) /\ (opt \notin DOMAIN Options \/ ~Options[opt])
    <3>1. CASE opt \notin DOMAIN Options
      <4>1. got = G!Got("?", G!NoArg, next, p)
        BY <1>3, <2>2, <3>1
      <4> QED
        BY <1>4, <1>7, <1>9, <1>10, <2>2, <4>1
    <3>2. CASE opt \in DOMAIN Options /\ ~Options[opt]
      <4>1. got = G!Got(opt, G!NoArg, next, p)
        BY <1>3, <2>2, <3>2
      <4> QED
        BY <1>4, <1>7, <1>9, <1>10, <2>2, <4>1
    <3> QED
      BY <2>2, <3>1, <3>2
  <2>3. CASE ~over /\ ~(~inside /\ word = <<"-", "-">>) /\ opt \in DOMAIN Options /\ Options[opt]
    <3>1. CASE p < Len(word)
      <4>1. got = G!Got(opt, G!Behind(word, p), next, -1)
        BY <1>3, <2>3, <3>1
      <4> QED
        BY <1>4, <1>7, <1>8, <1>9, <1>10, <2>3, <3>1, <4>1
    <3>2. CASE ~(p < Len(word)) /\ next > Len(words)
      <4>1. got = G!Got("?", G!NoArg, next, -1)
        BY <1>3, <2>3, <3>2
      <4> QED
        BY <1>4, <1>9, <1>10, <4>1
    <3>3. CASE ~(p < Len(word)) /\ ~(next > Len(words))
      <4>1. got = G!Got(opt, words[next], next + 1, -1)
        BY <1>3, <2>3, <3>3
      <4>2. next =< Len(words)
        BY <1>12, <3>3
      <4> QED
        BY <1>6, <1>7, <1>9, <1>10, <1>11, <2>3, <4>1, <4>2
    <3> QED
      BY <3>1, <3>2, <3>3
  <2> QED
    BY <2>1, <2>2, <2>3
<1> QED
  BY <1>13 DEF got

\* getopts changes where it is.
LEMMA GetoptsKeeps ==
    ASSUME IInv, getopts
    PROVE  IInv'
<1> DEFINE got == G!getopts(params.words, params.at)
           arg == IF got.opt = "end" THEN got.at.ind ELSE got.arg
<1>1. /\ mode = "runs" /\ flow.evalskip = "no" /\ Keeps /\ UNCHANGED <<ct, blocks>>
      /\ params' = [params EXCEPT !.at = got.at, !.read = Append(@, [opt |-> got.opt, arg |-> arg])]
  BY DEF getopts, Allowed
<1>2. params \in ParamTypes
  BY <1>1, Running
<1>3. /\ params.words \in Seq(Seq(STRING)) /\ params.at \in [ind : Nat \ {0}, off : Int]
      /\ params.read \in Seq(Reads)
  BY <1>2 DEF ParamTypes
<1>4. got.at \in [ind : Nat \ {0}, off : Int] /\ got.opt \in Opts /\ got.arg \in Seq(STRING)
  BY <1>3, Getting
<1> HIDE DEF got
<1>5. [opt |-> got.opt, arg |-> arg] \in Reads
  BY <1>4 DEF Reads
<1> HIDE DEF arg
<1>6. Append(params.read, [opt |-> got.opt, arg |-> arg]) \in Seq(Reads)
  BY <1>3, <1>5
<1>7. params' \in ParamTypes /\ params'.malloc = params.malloc /\ params'.block = params.block
  BY <1>1, <1>2, <1>4, <1>6 DEF ParamTypes
<1> QED
  BY <1>1, <1>7, ParamsKeep

\* PATH becomes local to a function.
LEMMA LocalKeeps ==
    ASSUME IInv, NEW path \in world.paths, local(path)
    PROVE  IInv'
<1>1. /\ mode = "runs" /\ flow.evalskip = "no" /\ Keeps /\ UNCHANGED <<params, blocks>>
      /\ ct.locals # <<>> /\ ct' = L!mklocal(ct, path)
  BY DEF local, Allowed
<1>2. /\ stack \in Seq(Frames) /\ world \in Worlds /\ ct \in Tables
      /\ params \in ParamTypes /\ blocks \subseteq 1..MaxBlocks
      /\ CountsRight(ct, stack) /\ BlocksRight(params, stack, blocks)
  BY <1>1, Running
<1>3. path \in Seq(STRING)
  BY <1>2, WorldsAssumption
<1>4. Len(ct.locals) >= 1
  BY <1>1, <1>2 DEF Tables
<1>5. Like(ct, ct') /\ Len(ct'.locals) = Len(ct.locals)
  BY <1>1, <1>2, <1>3, <1>4, MadeLocal
<1>6. ct' \in Tables /\ CountsRight(ct', stack)
  BY <1>2, <1>5, CountsLike DEF Like
<1> QED
  BY <1>1, <1>2, <1>5, <1>6, BuiltinKeeps

\* A step that changes the table only, and no function in it.
LEMMA TableKeeps ==
    ASSUME IInv, mode = "runs", flow.evalskip = "no", NEW c, Table(c), Like(ct, c), c.locals = ct.locals
    PROVE  IInv'
<1>1. ct' = c /\ Keeps /\ UNCHANGED <<params, blocks>>
  BY DEF Table
<1>2. /\ stack \in Seq(Frames) /\ world \in Worlds /\ ct \in Tables
      /\ params \in ParamTypes /\ blocks \subseteq 1..MaxBlocks
      /\ CountsRight(ct, stack) /\ BlocksRight(params, stack, blocks)
  BY Running
<1>3. ct' \in Tables /\ CountsRight(ct', stack) /\ Len(ct'.locals) = Len(ct.locals)
  BY <1>1, <1>2, CountsLike DEF Like
<1> QED
  BY <1>1, <1>2, <1>3, BuiltinKeeps

\* hash, hash -r and cd.
LEMMA HashKeeps ==
    ASSUME IInv, HashR \/ (\E name \in Names : Hash(name)) \/ (\E dir \in world.cwds : Cd(dir))
    PROVE  IInv'
<1>1. mode = "runs" /\ flow.evalskip = "no"
  BY DEF HashR, Hash, Cd, Allowed
<1>2. ct \in Tables /\ world \in Worlds
  BY <1>1, Running
<1>3. CASE HashR
  <2>1. Table(L!clearcmdentry(ct, 0))
    BY <1>3 DEF HashR
  <2>2. 0 \in Int
    OBVIOUS
  <2>3. Like(ct, L!clearcmdentry(ct, 0)) /\ L!clearcmdentry(ct, 0).locals = ct.locals
    BY <1>2, <2>2, Cleared DEF Like
  <2> QED
    BY <1>1, <2>1, <2>3, TableKeeps
<1>4. CASE \E name \in Names : Hash(name)
  <2>1. PICK name \in Names : Hash(name)
    BY <1>4
  <2>2. Table(L!hashcmd(ct, world.files, world.builtin, name))
    BY <2>1 DEF Hash
  <2>3. Like(ct, L!hashcmd(ct, world.files, world.builtin, name))
        /\ L!hashcmd(ct, world.files, world.builtin, name).locals = ct.locals
    BY <1>2, <2>1, HashedLike
  <2> QED
    BY <1>1, <2>2, <2>3, TableKeeps
<1>5. CASE \E dir \in world.cwds : Cd(dir)
  <2>1. PICK dir \in world.cwds : Cd(dir)
    BY <1>5
  <2> DEFINE b == L!hashcd(ct, world.builtin)
             c == [b EXCEPT !.cwd = dir]
  <2>2. Table(c)
    BY <2>1 DEF Cd
  <2>3. Like(ct, b) /\ b.locals = ct.locals
    BY <1>2, CdLike
  <2>4. dir \in STRING
    BY <1>2, <2>1, WorldsAssumption
  <2> HIDE DEF b
  <2>5. c \in Tables /\ c.locals = b.locals /\ c.table = b.table /\ c.count = b.count
    BY <2>3, <2>4 DEF Like, Tables
  <2> HIDE DEF c
  <2>6. Like(ct, c)
    BY <2>3, <2>5 DEF Like, SameFunctions
  <2> QED
    BY <1>1, <2>2, <2>3, <2>5, <2>6, TableKeeps
<1> QED
  BY <1>3, <1>4, <1>5


\* A name is given to another function, or to none.
Names1(c, name, f) == IF c.table[name] = L!Entry("function", f) THEN 1 ELSE 0

\* The names of a function, one of them apart.
LEMMA NamedOthers ==
    ASSUME NEW c \in Tables, NEW name \in Names, NEW f \in FuncIds, IsFiniteSet(Named(c, f))
    PROVE  /\ IsFiniteSet(Named(c, f) \ {name}) /\ Cardinality(Named(c, f) \ {name}) \in Nat
           /\ Cardinality(Named(c, f)) = Cardinality(Named(c, f) \ {name}) + Names1(c, name, f)
<1> DEFINE others == Named(c, f) \ {name}
<1>1. IsFiniteSet(others) /\ Cardinality(others) \in Nat
  BY FS_Subset, FS_CardinalityType
<1>2. CASE c.table[name] = L!Entry("function", f)
  <2>1. Named(c, f) = others \cup {name} /\ name \notin others
    BY <1>2 DEF Named
  <2>2. Cardinality(others \cup {name}) = Cardinality(others) + 1
    BY <1>1, <2>1, FS_AddElement
  <2>3. Cardinality(Named(c, f)) = Cardinality(others) + 1
    BY <2>1, <2>2
  <2> QED
    BY <1>1, <1>2, <2>3 DEF Names1
<1>3. CASE c.table[name] # L!Entry("function", f)
  <2>1. others = Named(c, f)
    BY <1>3 DEF Named
  <2> HIDE DEF others
  <2>2. Cardinality(Named(c, f)) = Cardinality(others) + 0
    BY <1>1, <2>1
  <2> QED
    BY <1>1, <1>3, <2>2 DEF Names1, others
<1> QED
  BY <1>2, <1>3

\* A name given to another function changes the counts of the two.
LEMMA Renamed ==
    ASSUME NEW c \in Tables, NEW d \in Tables, NEW stk \in Seq(Frames), NEW name \in Names,
           \A n \in Names : n # name => d.table[n] = c.table[n],
           \A f \in FuncIds : d.count[f] + Names1(c, name, f) = c.count[f] + Names1(d, name, f),
           CountsRight(c, stk)
    PROVE  CountsRight(d, stk)
<1> SUFFICES ASSUME NEW f \in FuncIds
             PROVE  /\ IsFiniteSet(Named(d, f))
                    /\ d.count[f] + 1 = Cardinality(Named(d, f)) + Cardinality(Calls(stk, f))
  BY DEF CountsRight
<1>1. IsFiniteSet(Named(c, f)) /\ c.count[f] + 1 = Cardinality(Named(c, f)) + Cardinality(Calls(stk, f))
  BY DEF CountsRight
<1>2. Named(d, f) \ {name} = Named(c, f) \ {name}
  BY DEF Named
<1>3. IsFiniteSet(Named(d, f))
  <2>1. IsFiniteSet((Named(c, f) \ {name}) \cup {name})
    BY <1>1, NamedOthers, FS_AddElement
  <2>2. Named(d, f) \subseteq (Named(c, f) \ {name}) \cup {name}
    BY <1>2
  <2> QED
    BY <2>1, <2>2, FS_Subset
<1>4. PICK others \in Nat : others = Cardinality(Named(c, f) \ {name})
  BY <1>1, NamedOthers
<1>5. Cardinality(Named(c, f)) = others + Names1(c, name, f)
  BY <1>1, <1>4, NamedOthers
<1>6. Cardinality(Named(d, f)) = others + Names1(d, name, f)
  BY <1>2, <1>3, <1>4, NamedOthers
<1>7. PICK calls \in Nat : calls = Cardinality(Calls(stk, f))
  BY CallsFinite
<1>8. PICK old \in Int : old = c.count[f]
  BY DEF Tables
<1>9. PICK new \in Int : new = d.count[f]
  BY DEF Tables
<1>10. PICK was \in Nat : was = Names1(c, name, f)
  BY DEF Names1
<1>11. PICK is \in Nat : is = Names1(d, name, f)
  BY DEF Names1
<1>12. new + was = old + is
  BY <1>8, <1>9, <1>10, <1>11
<1>13. old + 1 = (others + was) + calls
  BY <1>1, <1>5, <1>7, <1>8, <1>10
<1>14. new + 1 = (others + is) + calls
  <2>1. new \in Int /\ old \in Int /\ was \in Int /\ is \in Int /\ others \in Int /\ calls \in Int
    BY <1>4, <1>7, <1>8, <1>9, <1>10, <1>11
  <2>2. \A a, b, c1, d1, e, g \in Int : a + b = c1 + d1 /\ c1 + 1 = (e + b) + g => a + 1 = (e + d1) + g
    OBVIOUS
  <2> QED
    BY <1>12, <1>13, <2>1, <2>2
<1> QED
  BY <1>3, <1>6, <1>7, <1>9, <1>11, <1>14

\* A function is defined: the one that had the name loses a reference.
LEMMA DefunKeeps ==
    ASSUME IInv, NEW name \in Names, Defun(name)
    PROVE  IInv'
<1> DEFINE f == Min(L!Unused(ct))
           old == ct.table[name]
           freed == IF old.type = "function" THEN L!freefunc(ct, old.index) ELSE ct
           d == [freed EXCEPT !.count[f] = 0, !.table[name] = L!Entry("function", f)]
<1>1. mode = "runs" /\ flow.evalskip = "no" /\ L!Unused(ct) # {} /\ Table(L!defun(ct, name))
  BY DEF Defun, Allowed
<1>2. /\ stack \in Seq(Frames) /\ world \in Worlds /\ ct \in Tables
      /\ params \in ParamTypes /\ blocks \subseteq 1..MaxBlocks
      /\ CountsRight(ct, stack) /\ BlocksRight(params, stack, blocks)
  BY <1>1, Running
<1>3. f \in FuncIds /\ ct.count[f] = -1
  <2>1. L!Unused(ct) \subseteq Nat
    BY BoundsAssumption DEF L!Unused
  <2>2. \E m \in L!Unused(ct) : \A k \in L!Unused(ct) : m =< k
    BY <1>1, <2>1, LeastNumber
  <2>3. f \in L!Unused(ct)
    BY <2>2 DEF Min
  <2> HIDE DEF f
  <2> QED
    BY <2>3 DEF L!Unused
<1>4. ct' = d /\ Keeps /\ UNCHANGED <<params, blocks>>
  <2>1. L!defun(ct, name) = d
    BY DEF L!defun, L!Min, Min
  <2> QED
    BY <1>1, <2>1 DEF Table
<1> HIDE DEF f
<1>5. old \in Entries /\ \A h : old = L!Entry("function", h) <=> old.type = "function" /\ old.index = h
  <2>1. old \in Entries
    BY <1>2 DEF Tables
  <2>2. /\ old.type = "function" => \E h \in FuncIds : old = L!Entry("function", h)
        /\ \A h : old = L!Entry("function", h) => old.type = "function" /\ old.index = h
    BY <2>1, EntryKinds
  <2> QED
    BY <2>1, <2>2
<1>6. old.type = "function" => old.index \in FuncIds
  BY <1>5, EntryKinds
<1>7. /\ freed \in Tables /\ freed.table = ct.table /\ freed.locals = ct.locals
      /\ \A h \in FuncIds : freed.count[h] = ct.count[h] - Names1(ct, name, h)
  <2>1. CASE old.type = "function"
    <3>1. /\ freed \in Tables /\ freed.table = ct.table /\ freed.locals = ct.locals
          /\ \A h \in FuncIds : freed.count[h] = IF h = old.index THEN ct.count[h] - 1 ELSE ct.count[h]
      BY <1>2, <1>6, <2>1, FreedTable
    <3>2. \A h \in FuncIds : Names1(ct, name, h) = IF h = old.index THEN 1 ELSE 0
      BY <1>5, <2>1 DEF Names1
    <3>3. \A h \in FuncIds : ct.count[h] \in Int
      BY <1>2 DEF Tables
    <3> HIDE DEF freed, old
    <3> QED
      BY <3>1, <3>2, <3>3
  <2>2. CASE old.type # "function"
    <3>1. \A h \in FuncIds : Names1(ct, name, h) = 0 /\ ct.count[h] \in Int
      BY <1>2, <1>5, <2>2 DEF Names1, Tables
    <3>2. freed = ct
      BY <2>2
    <3> HIDE DEF freed
    <3> QED
      BY <1>2, <3>1, <3>2
  <2> QED
    BY <2>1, <2>2
<1> HIDE DEF freed
<1> DEFINE count == [freed.count EXCEPT ![f] = 0]
           table == [freed.table EXCEPT ![name] = L!Entry("function", f)]
<1>8. d = [freed EXCEPT !.count = count, !.table = table]
  BY <1>7 DEF Tables
<1>9. count \in [FuncIds -> Int] /\ \A h \in FuncIds : count[h] = IF h = f THEN 0 ELSE freed.count[h]
  BY <1>3, <1>7 DEF Tables
<1>10. L!Entry("function", f) \in Entries
  BY <1>3 DEF Entries
<1>11. /\ table \in [Names -> Entries] /\ table[name] = L!Entry("function", f)
       /\ \A n \in Names : n # name => table[n] = ct.table[n]
  BY <1>2, <1>7, <1>10 DEF Tables
<1> HIDE DEF count, table, d
<1>12. d \in Tables /\ d.count = count /\ d.table = table /\ d.locals = ct.locals
  BY <1>7, <1>8, <1>9, <1>11 DEF Tables
<1>13. Names1(ct, name, f) = 0
  <2>1. IsFiniteSet(Named(ct, f)) /\ ct.count[f] + 1 = Cardinality(Named(ct, f)) + Cardinality(Calls(stack, f))
    BY <1>2, <1>3 DEF CountsRight
  <2>2. PICK calls \in Nat : calls = Cardinality(Calls(stack, f))
    BY <1>2, CallsFinite
  <2>3. PICK others \in Nat : others = Cardinality(Named(ct, f) \ {name})
    BY <1>2, <1>3, <2>1, NamedOthers
  <2>4. Cardinality(Named(ct, f)) = others + Names1(ct, name, f)
    BY <1>2, <1>3, <2>1, <2>3, NamedOthers
  <2>5. PICK was \in Nat : was = Names1(ct, name, f)
    BY DEF Names1
  <2>6. -1 + 1 = (others + was) + calls
    BY <1>3, <2>1, <2>2, <2>4, <2>5
  <2>7. was = 0
    BY <2>2, <2>3, <2>5, <2>6
  <2> QED
    BY <2>5, <2>7
<1>14. ASSUME NEW h \in FuncIds
       PROVE  d.count[h] + Names1(ct, name, h) = ct.count[h] + Names1(d, name, h)
  <2>1. Names1(d, name, h) = IF h = f THEN 1 ELSE 0
    BY <1>3, <1>11, <1>12 DEF Names1, L!Entry
  <2>2. ct.count[h] \in Int /\ Names1(ct, name, h) \in Nat
    BY <1>2 DEF Tables, Names1
  <2>3. CASE h = f
    <3>1. d.count[h] = 0 /\ Names1(ct, name, h) = 0 /\ ct.count[h] = -1 /\ Names1(d, name, h) = 1
      BY <1>3, <1>9, <1>12, <1>13, <2>1, <2>3
    <3> QED
      BY <3>1
  <2>4. CASE h # f
    <3>1. d.count[h] = ct.count[h] - Names1(ct, name, h) /\ Names1(d, name, h) = 0
      BY <1>7, <1>9, <1>12, <2>1, <2>4
    <3> QED
      BY <2>2, <3>1
  <2> QED
    BY <2>3, <2>4
<1>15. CountsRight(ct', stack)
  BY <1>2, <1>4, <1>11, <1>12, <1>14, Renamed
<1>16. ct' \in Tables /\ Len(ct'.locals) = Len(ct.locals)
  BY <1>4, <1>12
<1> QED
  BY <1>1, <1>2, <1>4, <1>15, <1>16, BuiltinKeeps

\* unset -f: so it does here.
LEMMA UnsetKeeps ==
    ASSUME IInv, NEW name \in Names, Unset(name)
    PROVE  IInv'
<1> DEFINE old == ct.table[name]
           freed == L!freefunc(ct, old.index)
           d == [freed EXCEPT !.table[name] = L!None]
<1>1. mode = "runs" /\ flow.evalskip = "no" /\ Table(L!unsetfunc(ct, name))
  BY DEF Unset, Allowed
<1>2. /\ stack \in Seq(Frames) /\ world \in Worlds /\ ct \in Tables
      /\ params \in ParamTypes /\ blocks \subseteq 1..MaxBlocks
      /\ CountsRight(ct, stack) /\ BlocksRight(params, stack, blocks)
  BY <1>1, Running
<1>3. CASE old.type # "function"
  <2>1. L!unsetfunc(ct, name) = ct
    BY <1>3 DEF L!unsetfunc
  <2>2. Like(ct, ct)
    BY <1>2, LikeItself
  <2> QED
    BY <1>1, <2>1, <2>2, TableKeeps
<1>4. CASE old.type = "function"
  <2>1. ct' = d /\ Keeps /\ UNCHANGED <<params, blocks>>
    BY <1>1, <1>4 DEF Table, L!unsetfunc, L!delete_cmd_entry
  <2>2. PICK f \in FuncIds : old = L!Entry("function", f) /\ old.index = f
    <3>1. old \in Entries
      BY <1>2 DEF Tables
    <3> QED
      BY <1>4, <3>1, EntryKinds
  <2>3. \A h \in FuncIds : Names1(ct, name, h) = IF h = f THEN 1 ELSE 0
    <3>1. old \in Entries
      BY <1>2 DEF Tables
    <3>2. \A h : old = L!Entry("function", h) => old.index = h
      BY <3>1, EntryKinds
    <3> QED
      BY <2>2, <3>2 DEF Names1
  <2>4. /\ freed \in Tables /\ freed.table = ct.table /\ freed.locals = ct.locals
        /\ \A h \in FuncIds : freed.count[h] = IF h = f THEN ct.count[h] - 1 ELSE ct.count[h]
    BY <1>2, <2>2, FreedTable
  <2> DEFINE table == [freed.table EXCEPT ![name] = L!None]
  <2> HIDE DEF freed
  <2>5. d = [freed EXCEPT !.table = table]
    BY <2>4 DEF Tables
  <2>6. /\ table \in [Names -> Entries] /\ table[name] = L!None
        /\ \A n \in Names : n # name => table[n] = ct.table[n]
    BY <1>2, <2>4, NoneEntry DEF Tables
  <2> HIDE DEF table, d
  <2>7. d \in Tables /\ d.count = freed.count /\ d.table = table /\ d.locals = ct.locals
    BY <2>4, <2>5, <2>6 DEF Tables
  <2>8. ASSUME NEW h \in FuncIds
        PROVE  d.count[h] + Names1(ct, name, h) = ct.count[h] + Names1(d, name, h)
    <3>1. Names1(d, name, h) = 0
      BY <2>6, <2>7, NoneEntry DEF Names1
    <3>2. ct.count[h] \in Int
      BY <1>2 DEF Tables
    <3> QED
      BY <2>3, <2>4, <2>7, <3>1, <3>2
  <2>9. CountsRight(ct', stack)
    BY <1>2, <2>1, <2>6, <2>7, <2>8, Renamed
  <2> QED
    BY <1>1, <1>2, <2>1, <2>7, <2>9, BuiltinKeeps
<1> QED
  BY <1>3, <1>4


\* The shell begins with the invariant,
LEMMA InitIInv ==
    ASSUME Init
    PROVE  IInv
<1> DEFINE y == Frame("top", <<>>)
           x == [y EXCEPT !.sees = [n \in UserFds |-> Terminal]]
<1>1. /\ world \in Worlds /\ rd.list = <<>> /\ DOMAIN rd = {"open", "list"}
      /\ blocks = {} /\ stack = <<x>> /\ inputs = <<0>> /\ mode = "runs" /\ goal = NoGoal /\ caught = FALSE
      /\ flow = [evalskip |-> "no", skipcount |-> 0, loopnest |-> 0]
  BY DEF Init
<1>2. Descs(rd)
  <2>1. rd.list \in Seq({})
    BY <1>1
  <2> QED
    BY <1>1, <2>1 DEF Descs
<1>3. ct \in Tables /\ ct.locals = <<>> /\ (\A n \in Names : ct.table[n] = L!None)
      /\ \A f \in FuncIds : ct.count[f] = -1
  <2>1. PICK path \in world.paths :
          ct = [path |-> path, builtinloc |-> L!BuiltinAt(path), cwd |-> CHOOSE dir \in world.cwds : TRUE,
                table |-> [n \in Names |-> L!None],
                count |-> [f \in FuncIds |-> -1], locals |-> <<>>]
    BY DEF Init
  <2>2. path \in Seq(STRING) /\ L!BuiltinAt(path) \in Int
    BY <1>1, <2>1, WorldsAssumption, BuiltinPlace
  <2>3. (CHOOSE dir \in world.cwds : TRUE) \in STRING
    BY <1>1, WorldsAssumption
  <2>4. <<>> \in Seq(Seq(Seq(STRING)))
    OBVIOUS
  <2>5. [n \in Names |-> L!None] \in [Names -> Entries] /\ [f \in FuncIds |-> -1] \in [FuncIds -> Int]
    BY NoneEntry
  <2> QED
    BY <2>1, <2>2, <2>3, <2>4, <2>5 DEF Tables
<1>4. params \in ParamTypes /\ params.malloc = FALSE
  <2>1. PICK words \in world.args : params = Params(0, words)
    BY DEF Init
  <2>2. words \in Seq(Seq(STRING)) /\ 0 \in Nat
    BY <1>1, <2>1, WorldsAssumption
  <2> QED
    BY <2>1, <2>2, ParamsTyped
<1>5. Opens(y, <<>>) /\ y.kind = "top" /\ y.special \in BOOLEAN /\ y.func = 0 /\ y.input = 0
  <2>1. Opens(y, <<>>)
    BY FrameOpens
  <2>2. y.kind = "top" /\ y.special \in BOOLEAN /\ y.func = 0 /\ y.input = 0
    BY FrameOpens
  <2> QED
    BY <2>1, <2>2
<1> DEFINE sees == [n \in UserFds |-> Terminal]
<1>6. x = SeeingWith(y, sees)
  BY DEF SeeingWith
<1>7. sees \in [UserFds -> Seen] /\ \A n \in UserFds : sees[n] # Same
  BY DescriptorsAssumption DEF Seen, Same
<1> HIDE DEF y, x, sees
<1>8. /\ Opens(x, <<>>) /\ x.kind = "top" /\ x.special \in BOOLEAN /\ x.sees = sees
      /\ x.input = 0 /\ x.func = 0
  BY <1>5, <1>6, OpensSeeing
<1>9. x.stop = 0 /\ x.lstop = 0 /\ ~x.redirs /\ x.redirs \in BOOLEAN /\ x.params = params
  BY <1>1, <1>3, <1>8 DEF Opens
<1>10. x \in Frames
  BY <1>4, <1>7, <1>8, <1>9 DEF Frames, Opens
<1>11. Depth(x) = 0 /\ Locals(x) = 0
  BY <1>8, <1>9, <1>10, DepthIs
<1>12. stack \in Seq(Frames) /\ Len(stack) = 1 /\ stack[1] = x /\ 1..Len(stack) = {1} /\ stack # <<>>
  BY <1>1, <1>10
<1>13. Top = x
  BY <1>12 DEF Top, Last
<1>14. Shaped(stack)
  <2>1. \A i \in 2..Len(stack) : FALSE
    BY <1>12
  <2>2. \A i, j \in 1..Len(stack) : i = 1 /\ j = 1
    BY <1>12
  <2>3. 0 =< 0
    OBVIOUS
  <2> QED
    BY <1>7, <1>8, <1>11, <1>12, <2>1, <2>2, <2>3 DEF Shaped
<1>15. \A f : Calls(stack, f) = {} /\ Named(ct, f) = {}
  BY <1>3, <1>8, <1>12, NoneEntry DEF Calls, Named
<1>16. CountsRight(ct, stack)
  <2>1. IsFiniteSet({}) /\ Cardinality({}) = 0
    BY FS_EmptySet
  <2>2. -1 + 1 = 0 + 0
    OBVIOUS
  <2> QED
    BY <1>3, <1>15, <2>1, <2>2 DEF CountsRight
<1>17. BlocksRight(params, stack, blocks)
  <2>1. Heap(params, stack) = {}
    BY <1>4, <1>8, <1>12 DEF Heap
  <2> QED
    BY <1>1, <2>1 DEF BlocksRight
<1>18. HeldRight(Now, stack, Len(ct.locals))
  <2>1. blocks \subseteq 1..MaxBlocks
    BY <1>1
  <2> QED
    BY <1>3, <1>4, <1>16, <1>17, <2>1 DEF HeldRight, Now
<1>19. At(stack, Reading) = {1} /\ At(stack, {"loop"}) = {}
  BY <1>8, <1>12 DEF At, Reading
<1>20. Cardinality({1}) = 1 /\ Cardinality({}) = 0
  BY FS_Singleton, FS_EmptySet
<1>21. inputs \in Seq(Nat) /\ Len(inputs) = 1 /\ inputs[1] = 0 /\ 1..Len(inputs) = {1}
  BY <1>1
<1>22. Inputs(stack, inputs)
  BY <1>19, <1>20, <1>21 DEF Inputs
<1>23. ReadRight(stack, inputs)
  <2>1. {j \in {1} : j >= 1} = {1}
    OBVIOUS
  <2>2. Count({1}, 1) = 1
    BY <1>20, <2>1 DEF Count
  <2> QED
    BY <1>8, <1>12, <1>19, <1>20, <1>21, <2>2 DEF ReadRight
<1>24. flow \in Flows /\ flow.evalskip = "no" /\ flow.loopnest = 0
  BY <1>1 DEF Flows
<1>25. FlowRight(stack, flow, goal)
  BY <1>19, <1>20, <1>24 DEF FlowRight
<1>26. SkipsRight
  BY <1>1 DEF SkipsRight
<1>27. TypeOK
  <2>1. caught \in BOOLEAN /\ blocks \subseteq 1..MaxBlocks
    BY <1>1
  <2>2. -1 \in Int
    OBVIOUS
  <2>3. goal \in Int
    BY <1>1, <2>2 DEF NoGoal
  <2> QED
    BY <1>1, <1>2, <1>3, <1>4, <1>12, <1>21, <1>24, <2>1, <2>3 DEF TypeOK
<1>28. Len(rd.list) = Depth(Top) /\ Len(ct.locals) = Locals(Top)
  BY <1>1, <1>3, <1>11, <1>13
<1>29. Base
  BY <1>14, <1>18, <1>22, <1>23, <1>27, <1>28 DEF Base
<1> QED
  BY <1>25, <1>26, <1>29 DEF IInv, Goes

\* and each step keeps it.
LEMMA NextIInv ==
    ASSUME IInv, [Next]_vars
    PROVE  IInv'
<1>1. CASE UNCHANGED vars
  <2>1. /\ rd' = rd /\ ct' = ct /\ stack' = stack /\ flow' = flow /\ inputs' = inputs /\ params' = params
        /\ blocks' = blocks /\ world' = world /\ mode' = mode /\ goal' = goal /\ caught' = caught
    BY <1>1 DEF vars
  <2>2. Now' = Now /\ Top' = Top
    BY <2>1 DEF Now, Top
  <2>3. TypeOK'
    BY <2>1 DEF IInv, Base, TypeOK
  <2>4. Base'
    BY <2>1, <2>2, <2>3 DEF IInv, Base
  <2>5. Goes'
    BY <2>1 DEF IInv, Goes, SkipsRight
  <2> QED
    BY <2>4, <2>5 DEF IInv
<1>2. CASE Next
  <2>1. CASE \E name \in Names, redirs \in world.redirs, path \in world.paths \cup {NoPath} :
                \E nofunc \in BOOLEAN : Simple(name, redirs, path, nofunc)
    BY <2>1, SimpleKeeps
  <2>2. CASE \E name \in Names, redirs \in world.redirs, path \in world.paths \cup {NoPath} :
                \E words \in world.args : Call(name, redirs, path, words)
    BY <2>2, CallKeeps
  <2>3. CASE \E redirs \in world.redirs, path \in world.paths \cup {NoPath}, execcmd \in BOOLEAN :
                Special(redirs, path, execcmd)
    BY <2>3, SpecialKeeps
  <2>4. CASE \E kind \in {"eval", "dot"}, special \in BOOLEAN, redirs \in world.redirs :
                Read(kind, special, redirs)
    BY <2>4, ReadKeeps
  <2>5. CASE \E redirs \in world.redirs : Group(redirs)
    BY <2>5, GroupKeeps
  <2>6. CASE Loop \/ Error \/ returncmd \/ End \/ Skip
    BY <2>6, LoopKeeps, ErrorKeeps, ReturnKeeps, EndKeeps, SkipKeeps
  <2>7. CASE HashR \/ (\E name \in Names : Hash(name)) \/ (\E dir \in world.cwds : Cd(dir))
    BY <2>7, HashKeeps
  <2>8. CASE shift \/ getoptsreset
    BY <2>8, ShiftKeeps
  <2>9. CASE getopts
    BY <2>9, GetoptsKeeps
  <2>10. CASE \E words \in world.args : set(words)
    BY <2>10, SetKeeps
  <2>11. CASE \E n \in 1..2, how \in {"break", "cont"} : breakcmd(n, how)
    BY <2>11, BreakKeeps
  <2>12. CASE \E path \in world.paths : local(path)
    BY <2>12, LocalKeeps
  <2>13. CASE \E name \in Names : Defun(name) \/ Unset(name)
    BY <2>13, DefunKeeps, UnsetKeeps
  <2> QED
    BY <1>2, <2>1, <2>2, <2>3, <2>4, <2>5, <2>6, <2>7, <2>8, <2>9, <2>10, <2>11, <2>12, <2>13 DEF Next
<1> QED
  BY <1>1, <1>2

\* What the inductive invariant says in the words of the properties.
LEMMA OwnersLemma ==
    ASSUME IInv
    PROVE  ParamsOwned
<1>1. HeldRight([params |-> params, blocks |-> blocks, ct |-> ct], stack, Len(ct.locals)) /\ stack \in Seq(Frames)
  BY DEF IInv, Base, Now, TypeOK
<1>2. BlocksRight(params, stack, blocks) /\ blocks \subseteq 1..MaxBlocks
  BY <1>1, HeldNow
<1>3. PICK n \in Nat : n = Len(stack)
  BY <1>1
<1> DEFINE mine == [i \in 1..n |-> IF stack[i].kind = "function" THEN stack[i].params ELSE Params(0, <<>>)]
           one == <<params>>
<1>4. Len(one) = 1 /\ one[1] = params /\ one \in Seq({params})
  OBVIOUS
<1>5. DOMAIN mine = 1..n /\ Len(mine) = n
  OBVIOUS
<1>6. Owners = one \o mine
  BY <1>3 DEF Owners
<1>7. Params(0, <<>>).malloc = FALSE
  BY DEF Params
<1>8. \A i \in 1..n : mine[i] = IF stack[i].kind = "function" THEN stack[i].params ELSE Params(0, <<>>)
  OBVIOUS
<1> HIDE DEF mine, one
<1>9. /\ DOMAIN Owners = 1..n + 1
      /\ Owners[1] = params /\ \A i \in 1..n : Owners[i + 1] = mine[i]
  <2> DEFINE T == {params} \cup {mine[i] : i \in 1..n}
  <2>1. one \in Seq(T)
    BY DEF one
  <2>2. mine = [i \in 1..n |-> mine[i]]
    BY DEF mine
  <2>3. mine \in [1..n -> T]
    BY <2>2
  <2>4. mine \in Seq(T)
    BY <2>3
  <2> HIDE DEF T
  <2>5. /\ Len(one \o mine) = Len(one) + Len(mine)
        /\ \A i \in 1..Len(one) + Len(mine) : (one \o mine)[i] =
              IF i =< Len(one) THEN one[i] ELSE mine[i - Len(one)]
    BY <2>1, <2>4
  <2>6. Len(Owners) = 1 + n /\ Owners \in Seq(T)
    BY <1>4, <1>5, <1>6, <2>1, <2>4, <2>5
  <2>7. \A i \in 1..1 + n : Owners[i] = IF i =< 1 THEN one[i] ELSE mine[i - 1]
    BY <1>4, <1>5, <1>6, <2>5
  <2>8. 1..1 + n = 1..n + 1 /\ 1 \in 1..1 + n
    BY <1>3
  <2>9. \A i \in 1..n : i + 1 \in 1..1 + n /\ ~(i + 1 =< 1) /\ (i + 1) - 1 = i
    BY <1>3
  <2>10. DOMAIN Owners = 1..n + 1
    BY <2>6, <2>8
  <2> QED
    BY <1>4, <2>7, <2>8, <2>9, <2>10
<1>10. ASSUME NEW i \in 0..n
       PROVE  /\ i \in Heap(params, stack) <=> Owners[i + 1].malloc
              /\ i \in Heap(params, stack) => Owners[i + 1].block = BlockOf(params, stack, i)
              /\ i + 1 \in 1..n + 1
  <2>1. CASE i = 0
    BY <1>3, <1>9, <2>1 DEF Heap, BlockOf
  <2>2. CASE i # 0
    <3>1. i \in 1..n /\ i + 1 \in 1..n + 1
      BY <2>2
    <3>2. Owners[i + 1] = mine[i]
      BY <1>9, <3>1
    <3> QED
      BY <1>3, <1>7, <1>8, <2>2, <3>1, <3>2 DEF Heap, BlockOf
  <2> QED
    BY <2>1, <2>2
<1>11. \A j \in 1..n + 1 : j - 1 \in 0..n /\ (j - 1) + 1 = j
  BY <1>3
<1> SUFFICES ASSUME NEW b \in 1..MaxBlocks
             PROVE  Cardinality({i \in DOMAIN Owners : Owners[i].malloc /\ Owners[i].block = b})
                       = IF b \in blocks THEN 1 ELSE 0
  BY DEF ParamsOwned
<1> DEFINE own == {i \in DOMAIN Owners : Owners[i].malloc /\ Owners[i].block = b}
<1>12. ASSUME NEW j \in own
       PROVE  /\ j \in 1..n + 1 /\ j - 1 \in Heap(params, stack) /\ BlockOf(params, stack, j - 1) = b
  <2>1. j \in 1..n + 1 /\ Owners[j].malloc /\ Owners[j].block = b
    BY <1>9
  <2>2. j - 1 \in 0..n /\ (j - 1) + 1 = j
    BY <1>11, <2>1
  <2> QED
    BY <1>10, <2>1, <2>2
<1>13. CASE b \in blocks
  <2>1. PICK i \in Heap(params, stack) : BlockOf(params, stack, i) = b
    BY <1>2, <1>13 DEF BlocksRight
  <2>2. i \in 0..n
    BY <1>3, <2>1 DEF Heap
  <2>3. i + 1 \in own
    BY <1>9, <1>10, <2>1, <2>2
  <2>4. ASSUME NEW j \in own PROVE j = i + 1
    <3>1. j \in 1..n + 1 /\ j - 1 = i
      BY <1>2, <1>12, <2>1, <2>4 DEF BlocksRight
    <3> QED
      BY <2>2, <3>1
  <2>5. own = {i + 1}
    BY <2>3, <2>4
  <2>6. Cardinality({i + 1}) = 1
    BY FS_Singleton
  <2> QED
    BY <1>13, <2>5, <2>6
<1>14. CASE b \notin blocks
  <2>1. own = {}
    BY <1>2, <1>12, <1>14 DEF BlocksRight
  <2> QED
    BY <1>14, <2>1, FS_EmptySet
<1> QED
  BY <1>13, <1>14

(***************************************************************************)
(* The theorems.                                                           *)
(***************************************************************************)
\* What each command that runs remembers (eval.c: the locals of evalcommand,
\* evalfun and their callers; its setjmp handlers) is what there is.
THEOREM CommandsInvariant == Spec => []IInv
<1>1. Init => IInv
  BY InitIInv
<1>2. IInv /\ [Next]_vars => IInv'
  BY NextIInv
<1> QED
  BY <1>1, <1>2, PTL DEF Spec

\* The descriptors, the table, the stack of commands, the parameters and the
\* inputs keep their types, whatever the functions, redirections and errors.
THEOREM CommandsTypeCorrect == Spec => []TypeOK
<1>1. IInv => TypeOK
  BY DEF IInv, Base
<1> QED
  BY <1>1, CommandsInvariant, PTL

\* The reference counts of functions (exec.c, eval.c: copyfunc and freefunc)
\* count the name of a function and the calls of it that run: a function is
\* not freed while it runs, and is when nothing refers to it.
THEOREM FunctionsKept == Spec => []FunctionsOwned
<1>1. IInv => FunctionsOwned
  <2> SUFFICES ASSUME IInv PROVE FunctionsOwned
    OBVIOUS
  <2>1. HeldRight([params |-> params, blocks |-> blocks, ct |-> ct], stack, Len(ct.locals))
    BY DEF IInv, Base, Now
  <2>2. CountsRight(ct, stack)
    BY <2>1, HeldNow
  <2> QED
    BY <2>2 DEF CountsRight, FunctionsOwned, Named, Calls
<1> QED
  BY <1>1, CommandsInvariant, PTL

\* Each list of arguments on the heap (options.c: setparam and freeparam;
\* evalfun's saveparam) has one owner, the shell or a function that waits:
\* none is freed twice, or never.
THEOREM ArgumentsOwned == Spec => []ParamsOwned
<1>1. IInv => ParamsOwned
  BY OwnersLemma
<1> QED
  BY <1>1, CommandsInvariant, PTL

\* Until `command' catches an error, what is read next is what the innermost
\* reader reads: each eval and dot script pops the input that it pushed
\* (input.c: setinputstring, setinputfile, popfile).
THEOREM InputsAreRead == Spec => []InputsRight
<1>1. IInv => InputsRight
  <2> SUFFICES ASSUME IInv, mode = "runs", ~caught
               PROVE  /\ Len(inputs) = Cardinality(Readers)
                      /\ \A i \in Readers : inputs[Cardinality({j \in Readers : j >= i})] = stack[i].input
    BY DEF InputsRight
  <2>1. ReadRight(stack, inputs)
    BY DEF IInv, Base
  <2>2. Readers = At(stack, Reading)
    BY DEF Readers, At, Reading
  <2> QED
    BY <2>1, <2>2 DEF ReadRight, Count
<1> QED
  BY <1>1, CommandsInvariant, PTL

\* Until `command' catches an error, break, continue and return end as many
\* commands as they should and no more, whatever groups, eval, functions and
\* dot scripts are in between (eval.c: evalskip, skipcount and loopnest).
THEOREM SkipsLeadRight == Spec => []SkipsRight
<1>1. IInv => SkipsRight
  BY DEF IInv, Goes
<1> QED
  BY <1>1, CommandsInvariant, PTL


\* funcdone changes nothing but the counts of functions.
LEMMA DoneRight ==
    ASSUME NEW f \in Frames, NEW held, NEW w, TableRight(held.ct, w)
    PROVE  TableRight(funcdone(f, held).ct, w)
<1> DEFINE c == held.ct
           d == L!freefunc(c, f.func)
<1>1. CASE f.kind # "function"
  BY <1>1 DEF funcdone
<1>2. CASE f.kind = "function"
  <2>1. funcdone(f, held).ct = d
    BY <1>2 DEF funcdone
  <2>2. c \in Tables /\ f.func \in FuncIds /\ c.locals \in Seq(Seq(w.paths))
    BY <1>2, FrameFields DEF TableRight, Placed
  <2>3. d \in Tables /\ d.table = c.table /\ d.locals = c.locals
    BY <2>2, FreedTable
  <2>4. d.path = c.path /\ d.builtinloc = c.builtinloc /\ d.cwd = c.cwd
    BY <2>2 DEF L!freefunc, Tables
  <2> HIDE DEF d
  <2>5. TableRight(d, w)
    BY <2>2, <2>3, <2>4, RightSame
  <2> QED
    BY <2>1, <2>5
<1> QED
  BY <1>1, <1>2

\* Commands that an error ends leave the table right.
LEMMA HeldTable ==
    ASSUME stack \in Seq(Frames), Handler \in 1..Len(stack), NEW held, NEW w, TableRight(held.ct, w)
    PROVE  TableRight(Unwound(held).ct, w)
<1>0. PICK len \in Nat : len = Len(stack)
  OBVIOUS
<1>1. PICK n \in Nat : n = Len(stack) - Handler /\ n < len
  <2>1. len - Handler \in Nat /\ len - Handler < len
    BY <1>0
  <2> QED
    BY <1>0, <2>1
<1>2. PICK g : /\ g[0] = held
               /\ \A k \in 1..Len(stack) - Handler : g[k] = funcdone(stack[Len(stack) - k + 1], g[k - 1])
               /\ Unwound(held) = g[Len(stack) - Handler]
  BY <1>1, Unwinds
<1> DEFINE H == {k \in 0..n : TableRight(g[k].ct, w)}
<1>3. 0 \in H
  BY <1>2
<1>4. ASSUME NEW m \in 1..n, m - 1 \in H PROVE m \in H
  <2>1. TableRight(g[m - 1].ct, w) /\ g[m] = funcdone(stack[len - m + 1], g[m - 1])
    BY <1>0, <1>1, <1>2, <1>4
  <2>2. len - m + 1 \in 1..len
    BY <1>1
  <2>3. stack[len - m + 1] \in Frames
    BY <1>0, <2>2
  <2>4. TableRight(g[m].ct, w)
    BY <2>1, <2>3, DoneRight
  <2> QED
    BY <1>4, <2>4
<1>5. n \in H
  <2>1. n \in Nat /\ n \in 0..n
    BY <1>1
  <2> HIDE DEF H
  <2> QED BY <2>1, <1>3, <1>4, Upward
<1> QED
  BY <1>1, <1>2, <1>5

\* What WorldsAssumption says of PATH and the builtins.
LEMMA WorldIs ==
    ASSUME world \in Worlds
    PROVE  /\ world.paths \subseteq Seq(STRING) /\ NoPath \notin world.paths /\ world.cwds \subseteq STRING
           /\ \A name \in Names : world.builtin[name] \in {"none", "plain", "regular", "special"}
  BY WorldsAssumption DEF NoPath

\* An error leaves the table right.
LEMMA RaiseRight ==
    ASSUME IInv, mode = "runs", NEW io, NEW cmds, TableRight(cmds, world), raise(io, cmds)
    PROVE  TableRight(ct', world)
<1> DEFINE h == stack[Handler]
           start == [params |-> params, blocks |-> blocks, ct |-> cmds]
           held == Unwound(start)
<1>1. stack \in Seq(Frames) /\ Shaped(stack) /\ world \in Worlds
  BY Running
<1>2. Handler \in 1..Len(stack)
  BY <1>1, HandlerIs
<1>3. ct' = L!unwindlocalvars(held.ct, h.lstop)
  BY DEF raise
<1>4. start.ct = cmds
  OBVIOUS
<1> HIDE DEF start
<1>5. TableRight(held.ct, world)
  BY <1>1, <1>2, <1>4, HeldTable
<1>6. h.lstop \in Nat
  BY <1>1, <1>2, FrameFields
<1> HIDE DEF held, h
<1> QED
  BY <1>1, <1>3, <1>5, <1>6, UnwoundRight, WorldIs

\* So does PATH=value before a command,
LEMMA AssignedRight ==
    ASSUME TableRight(ct, world), world \in Worlds, NEW path \in world.paths \cup {NoPath}
    PROVE  TableRight(Assigned(path), world)
<1> DEFINE c == L!pushlocalvars(ct)
<1>1. TableRight(c, world)
  BY PushedRight
<1>2. Len(c.locals) >= 1
  <2>1. ct \in Tables
    BY DEF TableRight
  <2>2. Len(c.locals) = Len(ct.locals) + 1 /\ Len(ct.locals) \in Nat
    BY <2>1, Pushed, SMTT(30) DEF Tables
  <2> QED
    BY <2>2
<1> HIDE DEF c
<1>3. CASE path = NoPath
  BY <1>1, <1>3 DEF Assigned, c
<1>4. CASE path # NoPath
  <2>1. Assigned(path) = L!mklocal(c, path)
    BY <1>4 DEF Assigned, c
  <2>2. TableRight(L!mklocal(c, path), world)
    BY <1>1, <1>2, <1>4, LocalRight, WorldIs
  <2> QED
    BY <2>1, <2>2
<1> QED
  BY <1>3, <1>4

\* and the search for the command.
LEMMA FindRight ==
    ASSUME TableRight(ct, world), world \in Worlds, NEW path \in world.paths \cup {NoPath},
           NEW name \in Names, NEW nofunc \in BOOLEAN
    PROVE  TableRight(Find(name, path, nofunc).ct, world)
<1> DEFINE c == Assigned(path)
           p == IF path = NoPath THEN c.path ELSE path
           found == Find(name, path, nofunc)
<1>1. TableRight(c, world)
  BY AssignedRight
<1>2. found = L!find_command(c, world.files, world.builtin, name, p, path # NoPath, nofunc)
  BY DEF Find
<1> HIDE DEF c, found
<1>3. p \in Seq(STRING)
  BY <1>1, WorldIs DEF TableRight, Tables
<1>4. path = NoPath => p = c.path
  OBVIOUS
<1> HIDE DEF p
<1>5. PICK alt \in BOOLEAN : alt <=> path # NoPath
  OBVIOUS
<1>6. found = L!find_command(c, world.files, world.builtin, name, p, alt, nofunc)
  <2>1. alt = (path # NoPath)
    BY <1>5
  <2> QED
    BY <1>2, <2>1
<1>7. TableRight(L!find_command(c, world.files, world.builtin, name, p, alt, nofunc).ct, world)
  BY <1>1, <1>3, <1>4, <1>5, FoundRight, WorldIs
<1>8. TableRight(found.ct, world)
  BY <1>6, <1>7
<1> QED
  BY <1>8 DEF found

\* A builtin or program.
LEMMA SimpleRight ==
    ASSUME IInv, TableRight(ct, world), NEW name \in Names, NEW redirs \in world.redirs,
           NEW path \in world.paths \cup {NoPath}, NEW nofunc \in BOOLEAN,
           Simple(name, redirs, path, nofunc)
    PROVE  TableRight(ct', world')
<1> DEFINE found == Find(name, path, nofunc)
<1>1. mode = "runs" /\ ct' = L!unwindlocalvars(found.ct, Len(ct.locals)) /\ world' = world
  BY DEF Simple, Allowed, Settled
<1>2. world \in Worlds /\ Len(ct.locals) \in Nat
  BY <1>1, Running
<1>3. TableRight(found.ct, world)
  BY <1>2, FindRight
<1> HIDE DEF found
<1> QED
  BY <1>1, <1>2, <1>3, UnwoundRight, WorldIs

\* A special builtin, or exec.
LEMMA SpecialRight ==
    ASSUME IInv, TableRight(ct, world), NEW redirs \in world.redirs,
           NEW path \in world.paths \cup {NoPath}, NEW execcmd \in BOOLEAN,
           Special(redirs, path, execcmd)
    PROVE  TableRight(ct', world')
<1> DEFINE r == redirectsafe(redirs)
           c == Assigned(path)
<1>1. /\ mode = "runs" /\ world' = world
      /\ r.err => raise(r.rd, c)
      /\ ~r.err => ct' = L!poplocalvars(c, 1)
  BY DEF Special, Allowed
<1>2. world \in Worlds /\ ct \in Tables /\ Len(ct.locals) \in Nat
  BY <1>1, Running
<1>3. TableRight(c, world)
  BY <1>2, AssignedRight
<1>4. Len(c.locals) = Len(ct.locals) + 1
  BY <1>2, AssignedLike
<1> HIDE DEF c, r
<1>5. CASE r.err
  BY <1>1, <1>3, <1>5, RaiseRight
<1>6. CASE ~r.err
  <2>1. Len(c.locals) >= 1
    BY <1>2, <1>4
  <2>2. TableRight(L!poplocalvars(c, 1), world)
    BY <1>2, <1>3, <2>1, PoppedRight, WorldIs
  <2> QED
    BY <1>1, <1>6, <2>2
<1> QED
  BY <1>5, <1>6

\* A call of a function.
LEMMA CallRight ==
    ASSUME IInv, IInv', TableRight(ct, world), NEW name \in Names, NEW redirs \in world.redirs,
           NEW path \in world.paths \cup {NoPath}, NEW words \in world.args,
           Call(name, redirs, path, words)
    PROVE  TableRight(ct', world')
<1> DEFINE found == Find(name, path, FALSE)
           f == found.entry.index
           r == redirectsafe(redirs)
           popped == L!poplocalvars(found.ct, 1)
           c == L!pushlocalvars(popped)
<1>1. /\ mode = "runs" /\ world' = world
      /\ r.err => ct' = L!unwindlocalvars(found.ct, Len(ct.locals))
      /\ ~r.err => ct' = [c EXCEPT !.count[f] = @ + 1]
  BY DEF Call, Allowed, Settled
<1>2. world \in Worlds /\ ct \in Tables /\ Len(ct.locals) \in Nat
  BY <1>1, Running
<1>3. \A nofunc \in BOOLEAN : /\ TableRight(Find(name, path, nofunc).ct, world)
                              /\ Len(Find(name, path, nofunc).ct.locals) = Len(ct.locals) + 1
  BY <1>2, FindRight, FindLike
<1>4. TableRight(found.ct, world) /\ Len(found.ct.locals) = Len(ct.locals) + 1
  BY <1>3
<1>5. ct' \in Tables
  BY DEF IInv, Base, TypeOK
<1> HIDE DEF found, r, f
<1>6. CASE r.err
  BY <1>1, <1>2, <1>4, <1>6, UnwoundRight, WorldIs
<1>7. CASE ~r.err
  <2>1. Len(found.ct.locals) >= 1
    BY <1>2, <1>4
  <2>2. TableRight(popped, world)
    BY <1>2, <1>4, <2>1, PoppedRight, WorldIs
  <2> HIDE DEF popped
  <2>3. TableRight(c, world)
    BY <2>2, PushedRight
  <2> HIDE DEF c
  <2>4. ct' = [c EXCEPT !.count[f] = @ + 1]
    BY <1>1, <1>7
  <2>5. c \in Tables /\ c.locals \in Seq(Seq(world.paths))
    BY <2>3 DEF TableRight, Placed
  <2>6. /\ ct'.table = c.table /\ ct'.path = c.path /\ ct'.builtinloc = c.builtinloc
        /\ ct'.cwd = c.cwd /\ ct'.locals = c.locals
    BY <2>4, <2>5 DEF Tables
  <2> QED
    BY <1>1, <1>5, <2>3, <2>5, <2>6, RightSame
<1> QED
  BY <1>6, <1>7

\* eval and dot scripts.
LEMMA ReadRightTable ==
    ASSUME IInv, TableRight(ct, world), NEW kind \in {"eval", "dot"}, NEW special \in BOOLEAN,
           NEW redirs \in world.redirs, Read(kind, special, redirs)
    PROVE  TableRight(ct', world')
<1> DEFINE r == redirectsafe(redirs)
           cmds == L!pushlocalvars(ct)
<1>1. /\ mode = "runs" /\ world' = world
      /\ \/ ct' = L!poplocalvars(cmds, 1)
         \/ ct' = cmds
         \/ raise(r.rd, cmds)
         \/ ct' = ct
  BY DEF Read, Allowed
<1>2. world \in Worlds /\ ct \in Tables /\ Len(ct.locals) \in Nat
  BY <1>1, Running
<1>3. TableRight(cmds, world) /\ Len(cmds.locals) = Len(ct.locals) + 1
  BY <1>2, PushedRight, Pushed
<1> HIDE DEF cmds, r
<1>4. Len(cmds.locals) >= 1
  BY <1>2, <1>3
<1>5. TableRight(L!poplocalvars(cmds, 1), world)
  BY <1>2, <1>3, <1>4, PoppedRight, WorldIs
<1>6. raise(r.rd, cmds) => TableRight(ct', world)
  BY <1>1, <1>3, RaiseRight
<1> QED
  BY <1>1, <1>3, <1>5, <1>6

\* Errors.
LEMMA ErrorRight ==
    ASSUME IInv, TableRight(ct, world), Error
    PROVE  TableRight(ct', world')
<1>1. mode = "runs" /\ raise(rd, ct) /\ world' = world
  BY DEF Error, Allowed
<1>2. TableRight(ct', world)
  BY <1>1, RaiseRight
<1> QED
  BY <1>1, <1>2

\* A command that ends,
LEMMA EndsRight ==
    ASSUME IInv, mode = "runs", TableRight(ct, world), NEW skip, NEW count, Ends(skip, count)
    PROVE  TableRight(ct', world')
<1>1. stack \in Seq(Frames) /\ Shaped(stack) /\ ct \in Tables /\ Len(ct.locals) = Locals(Top)
      /\ world \in Worlds
  BY Running
<1>2. stack # <<>>
  BY <1>1 DEF Shaped
<1>3. Top \in Frames
  BY <1>1, <1>2, FrontIs DEF Top
<1>4. /\ Top.lstop \in Nat /\ Top.kind \in {"top", "function", "eval", "dot", "group", "loop"}
      /\ Top.kind = "function" => Locals(Top) = Top.lstop + 1
  BY <1>3, FrameFields, DepthIs
<1>5. world' = world
  BY DEF Ends
<1>6. CASE Top.kind \in {"loop", "group", "top"}
  <2>1. ct' = ct
    BY <1>6 DEF Ends
  <2> QED
    BY <1>5, <2>1
<1>7. CASE Top.kind \in {"eval", "dot"}
  <2>1. ct' = L!unwindlocalvars(ct, Top.lstop)
    BY <1>7 DEF Ends, Out
  <2> QED
    BY <1>1, <1>4, <1>5, <2>1, UnwoundRight, WorldIs
<1>8. CASE Top.kind = "function"
  <2> DEFINE c == L!poplocalvars(ct, 0)
             start == [params |-> params, blocks |-> blocks, ct |-> c]
             held == funcdone(Top, start)
  <2>1. ct' = L!unwindlocalvars(held.ct, Top.lstop)
    BY <1>8 DEF Ends, Out
  <2>2. Len(ct.locals) >= 1
    <3>1. Len(ct.locals) = Top.lstop + 1
      BY <1>1, <1>4, <1>8
    <3> QED
      BY <1>4, <3>1
  <2>3. TableRight(c, world)
    BY <1>1, <2>2, PoppedRight, WorldIs
  <2>4. start.ct = c
    OBVIOUS
  <2> HIDE DEF c, start
  <2>5. TableRight(held.ct, world)
    BY <1>3, <2>3, <2>4, DoneRight
  <2> HIDE DEF held
  <2>6. TableRight(L!unwindlocalvars(held.ct, Top.lstop), world)
    BY <1>1, <1>4, <2>5, UnwoundRight, WorldIs
  <2> QED
    BY <1>5, <2>1, <2>6
<1> QED
  BY <1>4, <1>6, <1>7, <1>8

\* whatever it was, or is skipped.
LEMMA EndRight ==
    ASSUME IInv, TableRight(ct, world), End \/ Skip
    PROVE  TableRight(ct', world')
<1>1. mode = "runs"
  BY DEF End, Skip
<1>2. (ct' = ct /\ world' = world) \/ \E skip, count : Ends(skip, count)
  <2>1. CASE End
    BY <2>1 DEF End
  <2>2. CASE Skip
    BY <2>2 DEF Skip
  <2> QED
    BY <2>1, <2>2
<1>3. CASE ct' = ct /\ world' = world
  BY <1>3
<1>4. CASE \E skip, count : Ends(skip, count)
  BY <1>1, <1>4, EndsRight
<1> QED
  BY <1>2, <1>3, <1>4

\* What changes the table itself: definitions, unset, hash, cd and local.
LEMMA TableOpsRight ==
    ASSUME IInv, IInv', TableRight(ct, world),
           \/ HashR
           \/ \E name \in Names : Hash(name) \/ Defun(name) \/ Unset(name)
           \/ \E dir \in world.cwds : Cd(dir)
           \/ \E path \in world.paths : local(path)
    PROVE  TableRight(ct', world')
<1>1. mode = "runs" /\ world' = world
  BY DEF HashR, Hash, Defun, Unset, Cd, local, Allowed, Table, Keeps
<1>2. ct \in Tables /\ world \in Worlds
  BY <1>1, Running
<1>3. ct' \in Tables
  BY DEF IInv, Base, TypeOK
<1>4. CASE HashR
  <2>1. ct' = L!clearcmdentry(ct, 0) /\ 0 \in Int
    BY <1>4 DEF HashR, Table
  <2> QED
    BY <1>1, <2>1, ClearedRight
<1>5. ASSUME NEW name \in Names, Hash(name) PROVE TableRight(ct', world')
  <2>1. ct' = L!hashcmd(ct, world.files, world.builtin, name)
    BY <1>5 DEF Hash, Table
  <2> QED
    BY <1>1, <1>2, <2>1, HashedRight, WorldIs
<1>6. ASSUME NEW dir \in world.cwds, Cd(dir) PROVE TableRight(ct', world')
  <2>1. ct' = [L!hashcd(ct, world.builtin) EXCEPT !.cwd = dir]
    BY <1>6 DEF Cd, Table
  <2>2. TableRight([L!hashcd(ct, world.builtin) EXCEPT !.cwd = dir], world)
    BY <1>2, CdRight, WorldIs
  <2> QED
    BY <1>1, <2>1, <2>2
<1>7. ASSUME NEW path \in world.paths, local(path) PROVE TableRight(ct', world')
  <2>1. ct' = L!mklocal(ct, path) /\ ct.locals # <<>>
    BY <1>7 DEF local
  <2>2. Len(ct.locals) >= 1
    BY <1>2, <2>1 DEF Tables
  <2> QED
    BY <1>1, <1>2, <2>1, <2>2, LocalRight, WorldIs
<1>8. ASSUME NEW name \in Names, Defun(name) PROVE TableRight(ct', world')
  <2> DEFINE f == L!Min(L!Unused(ct))
             old == ct.table[name]
             freed == IF old.type = "function" THEN L!freefunc(ct, old.index) ELSE ct
             e == L!Entry("function", f)
  <2>1. ct' = [freed EXCEPT !.count[f] = 0, !.table[name] = e]
    BY <1>8 DEF Defun, Table, L!defun
  <2>2. /\ freed.table = ct.table /\ freed.path = ct.path /\ freed.cwd = ct.cwd
        /\ freed.locals = ct.locals /\ freed.builtinloc = ct.builtinloc
        /\ DOMAIN freed = DOMAIN ct
    BY <1>2 DEF L!freefunc, Tables
  <2>3. e.type = "function"
    BY DEF L!Entry
  <2> HIDE DEF freed, e, f
  <2>4. /\ ct'.path = ct.path /\ ct'.cwd = ct.cwd /\ ct'.locals = ct.locals
        /\ ct'.builtinloc = ct.builtinloc
        /\ \A n \in Names : ct'.table[n] = IF n = name THEN e ELSE ct.table[n]
    BY <1>2, <2>1, <2>2 DEF Tables
  <2> QED
    BY <1>1, <1>3, <2>3, <2>4, ForgottenRight
<1>9. ASSUME NEW name \in Names, Unset(name) PROVE TableRight(ct', world')
  <2>1. CASE ct.table[name].type # "function"
    <3>1. ct' = ct
      BY <1>9, <2>1 DEF Unset, Table, L!unsetfunc
    <3> QED
      BY <1>1, <3>1
  <2>2. CASE ct.table[name].type = "function"
    <3> DEFINE freed == L!freefunc(ct, ct.table[name].index)
    <3>1. ct' = [freed EXCEPT !.table[name] = L!None]
      BY <1>9, <2>2 DEF Unset, Table, L!unsetfunc, L!delete_cmd_entry
    <3>2. /\ freed.table = ct.table /\ freed.path = ct.path /\ freed.cwd = ct.cwd
          /\ freed.locals = ct.locals /\ freed.builtinloc = ct.builtinloc
          /\ DOMAIN freed = DOMAIN ct
      BY <1>2 DEF L!freefunc, Tables
    <3> HIDE DEF freed
    <3>3. /\ ct'.path = ct.path /\ ct'.cwd = ct.cwd /\ ct'.locals = ct.locals
          /\ ct'.builtinloc = ct.builtinloc
          /\ \A n \in Names : ct'.table[n] = IF n = name THEN L!None ELSE ct.table[n]
      BY <1>2, <3>1, <3>2 DEF Tables
    <3> QED
      BY <1>1, <1>3, <3>3, ForgottenRight
  <2> QED
    BY <2>1, <2>2
<1> QED
  BY <1>4, <1>5, <1>6, <1>7, <1>8, <1>9

\* Each step leaves the table right,
LEMMA NextRight ==
    ASSUME IInv, TableRight(ct, world), [Next]_vars
    PROVE  TableRight(ct', world')
<1>0. IInv'
  BY NextIInv
<1>1. CASE UNCHANGED vars
  BY <1>1 DEF vars
<1>2. CASE Next
  <2>1. CASE \E name \in Names, redirs \in world.redirs, path \in world.paths \cup {NoPath} :
                \E nofunc \in BOOLEAN : Simple(name, redirs, path, nofunc)
    BY <2>1, SimpleRight
  <2>2. CASE \E name \in Names, redirs \in world.redirs, path \in world.paths \cup {NoPath} :
                \E words \in world.args : Call(name, redirs, path, words)
    BY <1>0, <2>2, CallRight
  <2>3. CASE \E redirs \in world.redirs, path \in world.paths \cup {NoPath}, execcmd \in BOOLEAN :
                Special(redirs, path, execcmd)
    BY <2>3, SpecialRight
  <2>4. CASE \E kind \in {"eval", "dot"}, special \in BOOLEAN, redirs \in world.redirs :
                Read(kind, special, redirs)
    BY <2>4, ReadRightTable
  <2>5. CASE \E redirs \in world.redirs : Group(redirs)
    BY <2>5 DEF Group, Settled
  <2>6. CASE Loop \/ returncmd \/ \E n \in 1..2, how \in {"break", "cont"} : breakcmd(n, how)
    BY <2>6 DEF Loop, Settled, returncmd, breakcmd
  <2>7. CASE Error
    BY <2>7, ErrorRight
  <2>8. CASE End \/ Skip
    BY <2>8, EndRight
  <2>9. CASE shift \/ getoptsreset \/ getopts \/ \E words \in world.args : set(words)
    <3>1. ct' = ct /\ world' = world
      BY <2>9 DEF shift, getoptsreset, getopts, set, Keeps
    <3> QED
      BY <3>1
  <2>10. CASE \/ HashR
              \/ \E name \in Names : Hash(name) \/ Defun(name) \/ Unset(name)
              \/ \E dir \in world.cwds : Cd(dir)
              \/ \E path \in world.paths : local(path)
    BY <1>0, <2>10, TableOpsRight
  <2> QED
    BY <1>2, <2>1, <2>2, <2>3, <2>4, <2>5, <2>6, <2>7, <2>8, <2>9, <2>10 DEF Next
<1> QED
  BY <1>1, <1>2

\* and it is when the shell begins.
LEMMA InitRight ==
    ASSUME Init
    PROVE  TableRight(ct, world)
<1>1. PICK path \in world.paths :
         ct = [path |-> path, builtinloc |-> L!BuiltinAt(path), cwd |-> CHOOSE dir \in world.cwds : TRUE,
               table |-> [n \in Names |-> L!None],
               count |-> [f \in FuncIds |-> -1], locals |-> <<>>]
  BY DEF Init
<1>2. world \in Worlds /\ world.cwds # {}
  BY WorldsAssumption DEF Init
<1>3. ct.cwd \in world.cwds
  BY <1>1, <1>2
<1>4. ct.locals \in Seq(Seq(world.paths))
  BY <1>1
<1>5. ct \in Tables
  BY InitIInv DEF IInv, Base, TypeOK
<1>6. \A n \in Names : ct.table[n] = L!None
  BY <1>1
<1>7. \A n \in Names : EntryFits(ct.table[n], ct.path, ct.cwd, world, n)
  BY <1>6 DEF EntryFits, L!None
<1> QED
  BY <1>1, <1>3, <1>4, <1>5, <1>7 DEF TableRight, Placed

\* A command does what a search would make it do.
LEMMA DoesFirst ==
    ASSUME world \in Worlds, NEW c, TableRight(c, world), c.cwd = ct.cwd, NEW name \in Names,
           NEW path \in world.paths, NEW alt \in BOOLEAN, NEW nofunc \in BOOLEAN, ~alt => path = c.path,
           c.table[name].type = "function" <=> ct.table[name].type = "function"
    PROVE  L!Does(c, world.files, world.builtin, name, path, alt, nofunc) = FirstIn(name, path, nofunc)
<1> DEFINE e == L!find_command(c, world.files, world.builtin, name, path, alt, nofunc).entry
           does == L!Does(c, world.files, world.builtin, name, path, alt, nofunc)
           at(what) == {i \in 1..Len(path) : path[i] # "%builtin" /\
                          world.files[L!Dir(ct, path[i]), name] \in what}
           b == world.builtin[name]
           loc == L!BuiltinAt(path)
           builtin == /\ b # "none"
                      /\ b # "plain" \/ \A i \in at({"exe", "plain"}) : loc + 1 < i
           has(i) == Has(c.cwd, world, name, path[i + 1])
           kind(i) == world.files[L!Dir(ct, path[i + 1]), name]
<1>0. PICK len \in Nat : len = Len(path)
  BY WorldIs
<1>1. does = CASE e.type = "normal" -> L!shellexec(c, world.files, name, path, e.index)
               [] e.type = "none" -> <<"status", 127>>
               [] OTHER -> <<e.type, name>>
  BY DEF L!Does
<1>2. FirstIn(name, path, nofunc) =
         IF ct.table[name].type = "function" /\ ~nofunc THEN <<"function", name>>
         ELSE IF builtin THEN <<"builtin", name>>
         ELSE IF at({"exe"}) # {} THEN <<"run", L!Dir(ct, path[Min(at({"exe"}))])>>
         ELSE <<"status", IF at({"plain"}) # {} THEN 126 ELSE 127>>
  BY DEF FirstIn
<1>3. path \in Seq(STRING) /\ b \in {"none", "plain", "regular", "special"} /\ c \in Tables
  BY WorldIs DEF TableRight
<1>4. \A p : L!Dir(c, p) = L!Dir(ct, p)
  BY DEF L!Dir
<1>5. ASSUME NEW i \in 0..len - 1, path[i + 1] # "%builtin"
      PROVE  kind(i) \in {"exe", "plain", "no"} /\ (has(i) <=> kind(i) # "no")
  <2>1. path[i + 1] # "" => path[i + 1] \in (UNION {Range(p) : p \in world.paths}) \ {"", "%builtin"}
    <3>1. i + 1 \in DOMAIN path
      BY <1>0, <1>3
    <3>2. path[i + 1] \in Range(path)
      BY <3>1 DEF Range
    <3> QED
      BY <1>5, <3>2
  <2>2. L!Dir(ct, path[i + 1]) \in world.cwds \cup ((UNION {Range(p) : p \in world.paths}) \ {"", "%builtin"})
    <3>1. ct.cwd \in world.cwds
      BY DEF TableRight, Placed
    <3> QED
      BY <2>1, <3>1 DEF L!Dir
  <2>3. kind(i) \in {"exe", "plain", "no"}
    BY <2>2, FilesAssumption
  <2>4. has(i) <=> kind(i) # "no"
    BY <1>5 DEF Has, L!Dir
  <2> QED
    BY <2>3, <2>4
<1>6. ASSUME NEW i \in 0..len - 1 PROVE path[i + 1] = "%builtin" => ~has(i)
  BY DEF Has
<1>7. \A what : \A i \in Int : i + 1 \in at(what) <=>
                     i \in 0..len - 1 /\ path[i + 1] # "%builtin" /\ kind(i) \in what
  <2> SUFFICES ASSUME NEW i \in Int, NEW what
               PROVE  i + 1 \in at(what) <=>
                        i \in 0..len - 1 /\ path[i + 1] # "%builtin" /\ kind(i) \in what
    OBVIOUS
  <2>1. i + 1 \in 1..len <=> i \in 0..len - 1
    BY <1>0
  <2> QED
    BY <1>0, <2>1
<1>8. \A what : at(what) \subseteq Nat /\ \A j \in at(what) : \E i \in 0..len - 1 : j = i + 1
  <2> SUFFICES ASSUME NEW what, NEW j \in at(what)
               PROVE  j \in Nat /\ \E i \in 0..len - 1 : j = i + 1
    OBVIOUS
  <2>1. j \in 1..len
    BY <1>0
  <2> HIDE DEF at
  <2>2. j - 1 \in 0..len - 1 /\ j = (j - 1) + 1 /\ j \in Nat
    BY <2>1
  <2> QED
    BY <2>2
<1> HIDE DEF at, e, does, loc, has, kind
<1>9. CASE c.table[name].type = "function" /\ ~nofunc
  <2>1. c.table[name] \in Entries
    BY <1>3 DEF Tables
  <2>2. ~c.table[name].rehash
    BY <1>9, <2>1, EntryKinds DEF L!Entry
  <2>3. e = c.table[name]
    BY <1>9, <2>2 DEF e, L!find_command
  <2>4. does = <<"function", name>>
    BY <1>1, <1>9, <2>3
  <2> QED
    BY <1>2, <1>9, <2>4 DEF does
<1>10. CASE ~(c.table[name].type = "function" /\ ~nofunc)
  <2>1. Settles(e, path, c.cwd, world, name)
    BY <1>3, <1>10, FoundSettles DEF e
  <2>2. ~(ct.table[name].type = "function" /\ ~nofunc)
    BY <1>10
  <2>3. /\ e \in Entries /\ e.type \in {"none", "normal", "builtin"} /\ ~e.rehash
        /\ EntryFits(e, path, c.cwd, world, name)
    BY <2>1, EntryKinds DEF Settles
  <2>4. /\ loc \in Int /\ loc >= -1
        /\ loc >= 0 => loc \in 0..len - 1 /\ path[loc + 1] = "%builtin"
    BY <1>0, <1>3, BuiltinIs DEF loc
  <2>5. CASE e.type = "builtin"
    <3>1. b # "none" /\ (b = "plain" => \A i \in 0..loc - 1 : ~has(i))
      BY <2>3, <2>5 DEF EntryFits, Passed, loc, has
    <3>2. ASSUME b = "plain", NEW j \in at({"exe", "plain"}) PROVE loc + 1 < j
      <4>1. PICK i \in 0..len - 1 : j = i + 1
        BY <1>8
      <4>2. path[i + 1] # "%builtin" /\ kind(i) # "no"
        BY <1>7, <4>1
      <4>3. has(i)
        BY <1>5, <4>2
      <4>4. i \notin 0..loc - 1 /\ i # loc
        BY <2>4, <3>1, <3>2, <4>2, <4>3
      <4> QED
        BY <2>4, <4>1, <4>4
    <3>3. builtin
      BY <3>1, <3>2
    <3>4. does = <<"builtin", name>>
      BY <1>1, <2>5
    <3> HIDE DEF builtin
    <3> QED
      BY <1>2, <2>2, <3>3, <3>4 DEF does
  <2>6. CASE e.type = "none"
    <3>1. b = "none" /\ \A i \in 0..len - 1 : ~has(i)
      BY <1>0, <2>1, <2>6 DEF Settles, has
    <3>2. \A what : "no" \notin what => at(what) = {}
      <4> SUFFICES ASSUME NEW what, "no" \notin what, NEW j \in at(what) PROVE FALSE
        OBVIOUS
      <4>1. PICK i \in 0..len - 1 : j = i + 1
        BY <1>8
      <4>2. path[i + 1] # "%builtin" /\ kind(i) # "no"
        BY <1>7, <4>1
      <4> QED
        BY <1>5, <3>1, <4>2
    <3>3. at({"exe"}) = {} /\ at({"plain"}) = {}
      BY <3>2
    <3>4. ~builtin
      BY <3>1
    <3>5. does = <<"status", 127>>
      BY <1>1, <2>6
    <3> HIDE DEF builtin
    <3> QED
      BY <1>2, <2>2, <3>3, <3>4, <3>5 DEF does
  <2>7. CASE e.type = "normal"
    <3>1. PICK k \in 0..len - 1 : k = e.index
      BY <1>0, <2>3, <2>7 DEF EntryFits
    <3>2. /\ path[k + 1] # "%builtin" /\ has(k) /\ \A i \in 0..k - 1 : ~has(i)
          /\ b \in {"none", "plain"} /\ (b = "plain" => k < loc)
      BY <2>3, <2>7, <3>1 DEF EntryFits, Passed, Reached, loc, has
    <3>3. k + 1 \in at({"exe", "plain"})
      <4>1. kind(k) \in {"exe", "plain"}
        BY <1>5, <3>1, <3>2
      <4> QED
        BY <1>7, <3>1, <3>2, <4>1
    <3>4. ~builtin
      <4> SUFFICES ASSUME builtin PROVE FALSE
        OBVIOUS
      <4>1. b = "plain"
        BY <3>2
      <4>2. loc + 1 < k + 1
        BY <3>3, <4>1
      <4> QED
        BY <2>4, <3>1, <3>2, <4>1, <4>2
    <3> HIDE DEF builtin
    <3> DEFINE tried == {i \in 0..Len(path) - 1 : i >= k /\ path[i + 1] # "%builtin"}
               runs == {i \in tried : L!Executable(c, world.files, path[i + 1], name)}
    <3>5. does = IF runs # {} THEN <<"run", L!Dir(c, path[L!Min(runs) + 1])>>
                 ELSE IF \E i \in tried : L!Stat(c, world.files, path[i + 1], name) THEN <<"status", 126>>
                 ELSE <<"status", 127>>
      <4>1. does = L!shellexec(c, world.files, name, path, e.index)
        BY <1>1, <2>7
      <4> QED
        BY <3>1, <4>1 DEF L!shellexec
    <3>6. ASSUME NEW i \in Int PROVE i \in runs <=> i + 1 \in at({"exe"})
      <4>1. i \in runs <=> i \in 0..len - 1 /\ i >= k /\ path[i + 1] # "%builtin" /\ kind(i) = "exe"
        BY <1>0, <1>4 DEF L!Executable, kind
      <4>2. i + 1 \in at({"exe"}) <=> i \in 0..len - 1 /\ path[i + 1] # "%builtin" /\ kind(i) = "exe"
        BY <1>7
      <4>3. i \in 0..len - 1 /\ path[i + 1] # "%builtin" /\ kind(i) = "exe" => has(i)
        BY <1>5
      <4>4. i \in 0..len - 1 /\ has(i) => i >= k
        BY <3>1, <3>2
      <4> HIDE DEF runs
      <4> QED
        BY <4>1, <4>2, <4>3, <4>4
    <3>7. runs \subseteq Nat /\ k \in tried
      BY <1>0, <3>1, <3>2
    <3>8. L!Stat(c, world.files, path[k + 1], name)
      BY <3>2, StatIs DEF has
    <3>9. CASE runs # {}
      <4> HIDE DEF runs, tried
      <4>1. L!Min(runs) \in runs /\ \A i \in runs : L!Min(runs) =< i
        BY <3>7, <3>9, LMin
      <4>2. PICK m \in runs : m = L!Min(runs) /\ \A i \in runs : m =< i
        BY <4>1
      <4>3. m \in Int /\ m + 1 \in at({"exe"})
        BY <3>6, <3>7, <4>2
      <4>4. \A j \in at({"exe"}) : m + 1 =< j
        <5> SUFFICES ASSUME NEW j \in at({"exe"}) PROVE m + 1 =< j
          OBVIOUS
        <5>1. PICK i \in 0..len - 1 : j = i + 1
          BY <1>8
        <5>2. i \in runs
          BY <3>6, <5>1
        <5>3. m =< i
          BY <4>2, <5>2
        <5> QED
          BY <4>3, <5>1, <5>3
      <4>5. Min(at({"exe"})) = m + 1
        <5>1. at({"exe"}) \subseteq Nat /\ at({"exe"}) # {}
          BY <1>8, <4>3
        <5>2. L!Min(at({"exe"})) \in at({"exe"}) /\ \A j \in at({"exe"}) : L!Min(at({"exe"})) =< j
          BY <5>1, LMin
        <5>3. Min(at({"exe"})) = L!Min(at({"exe"}))
          BY DEF Min, L!Min
        <5>4. PICK n \in at({"exe"}) : n = Min(at({"exe"})) /\ n =< m + 1
          BY <4>3, <5>2, <5>3
        <5>5. m + 1 =< n /\ n \in Nat
          BY <4>4, <5>1
        <5> QED
          BY <4>3, <5>4, <5>5
      <4>6. does = <<"run", L!Dir(c, path[m + 1])>>
        BY <3>5, <3>9, <4>2
      <4>7. FirstIn(name, path, nofunc) = <<"run", L!Dir(ct, path[m + 1])>>
        BY <1>2, <2>2, <3>4, <4>3, <4>5
      <4> QED
        BY <1>4, <4>6, <4>7 DEF does
    <3>10. CASE runs = {}
      <4>1. does = <<"status", 126>>
        BY <3>5, <3>7, <3>8, <3>10
      <4>2. at({"exe"}) = {}
        <5> SUFFICES ASSUME NEW j \in at({"exe"}) PROVE FALSE
          OBVIOUS
        <5> HIDE DEF runs
        <5>1. PICK i \in 0..len - 1 : j = i + 1
          BY <1>8
        <5>2. i \in runs
          BY <3>6, <5>1
        <5> QED
          BY <3>10, <5>2
      <4>3. k + 1 \in at({"plain"})
        <5>1. kind(k) \in {"exe", "plain"} /\ kind(k) \notin {"exe"}
          BY <1>5, <1>7, <3>1, <3>2, <4>2
        <5> QED
          BY <1>7, <3>1, <3>2, <5>1
      <4>4. FirstIn(name, path, nofunc) = <<"status", 126>>
        BY <1>2, <2>2, <3>4, <4>2, <4>3
      <4> QED
        BY <4>1, <4>4 DEF does
    <3> QED
      BY <3>9, <3>10
  <2> QED
    BY <2>3, <2>5, <2>6, <2>7
<1> QED
  BY <1>9, <1>10

\* The cwd and the functions are the same with a PATH for one command.
LEMMA AssignedSame ==
    ASSUME world \in Worlds, TableRight(ct, world), NEW path \in world.paths
    PROVE  /\ TableRight(Assigned(path), world) /\ Assigned(path).cwd = ct.cwd
           /\ \A name \in Names :
                 Assigned(path).table[name].type = "function" <=> ct.table[name].type = "function"
<1> DEFINE d == Assigned(path)
           c == L!pushlocalvars(ct)
           b == L!changepath(c, path)
<1>1. ct \in Tables /\ path \in Seq(STRING) /\ path # NoPath
  BY WorldIs DEF TableRight
<1>2. TableRight(d, world) /\ Like(ct, d) /\ d \in Tables
  BY AssignedRight, AssignedLike, <1>1 DEF Like
<1>3. c \in Tables /\ c.cwd = ct.cwd
  BY <1>1, Pushed DEF Like, L!pushlocalvars, Tables
<1>4. d = [b EXCEPT !.locals[1] = <<c.path>> \o @]
  BY <1>1 DEF Assigned, L!mklocal
<1> HIDE DEF c
<1>5. b \in Tables /\ b.cwd = c.cwd
  BY <1>1, <1>3, PathChanged
<1> HIDE DEF b
<1>6. d.cwd = b.cwd
  BY <1>4, <1>5 DEF Tables
<1> HIDE DEF d
<1>7. ASSUME NEW name \in Names
      PROVE  d.table[name].type = "function" <=> ct.table[name].type = "function"
  <2>1. d.table[name] \in Entries /\ ct.table[name] \in Entries
    BY <1>1, <1>2 DEF Tables
  <2>2. \A x \in Entries : x.type = "function" <=> \E f \in FuncIds : x = L!Entry("function", f)
    BY EntryKinds
  <2> QED
    BY <1>2, <2>1, <2>2 DEF Like, SameFunctions
<1> QED
  BY <1>2, <1>3, <1>5, <1>6, <1>7 DEF d

\* What a command does is what a search without a table would find.
THEOREM CommandsAreFound == Spec => []LookupRight
<1>1. Init => IInv /\ TableRight(ct, world)
  BY InitIInv, InitRight
<1>2. IInv /\ TableRight(ct, world) /\ [Next]_vars => (IInv /\ TableRight(ct, world))'
  BY NextIInv, NextRight
<1>3. IInv /\ TableRight(ct, world) => LookupRight
  <2> SUFFICES ASSUME IInv, TableRight(ct, world), NEW name \in Names, NEW nofunc \in BOOLEAN
               PROVE  /\ L!Does(ct, world.files, world.builtin, name, ct.path, FALSE, nofunc)
                           = FirstIn(name, ct.path, nofunc)
                      /\ \A path \in world.paths :
                           L!Does(Assigned(path), world.files, world.builtin, name, path, TRUE, nofunc)
                             = FirstIn(name, path, nofunc)
    BY DEF LookupRight
  <2>1. world \in Worlds /\ ct.path \in world.paths
    BY DEF IInv, Base, TypeOK, TableRight, Placed
  <2>2. \A alt \in BOOLEAN : ~alt =>
           L!Does(ct, world.files, world.builtin, name, ct.path, alt, nofunc)
             = FirstIn(name, ct.path, nofunc)
    BY <2>1, DoesFirst
  <2>3. ASSUME NEW path \in world.paths, NEW alt \in BOOLEAN, alt
        PROVE  L!Does(Assigned(path), world.files, world.builtin, name, path, alt, nofunc)
                 = FirstIn(name, path, nofunc)
    <3> DEFINE c == Assigned(path)
    <3>1. /\ TableRight(c, world) /\ c.cwd = ct.cwd
          /\ c.table[name].type = "function" <=> ct.table[name].type = "function"
      BY <2>1, AssignedSame
    <3> HIDE DEF c
    <3>2. L!Does(c, world.files, world.builtin, name, path, alt, nofunc) = FirstIn(name, path, nofunc)
      BY <2>1, <2>3, <3>1, DoesFirst
    <3> QED
      BY <3>2 DEF c
  <2> QED
    BY <2>2, <2>3
<1> QED
  BY <1>1, <1>2, <1>3, PTL DEF Spec

(***************************************************************************)
(* Descriptors: each step keeps that the tables give each command that     *)
(* runs its descriptors back.                                              *)
(***************************************************************************)
Follows(V) == Linked(stack, V) /\ Restores(rd, V, world)
Restored ==
    /\ \E V : Restores(rd, V, world)
    /\ mode = "runs" => Len(stack) =< world.depth /\ \E V : Follows(V)

\* A sequence is the first part of it and more.
LEMMA PartOfAppend ==
    ASSUME NEW S, NEW V \in Seq(S), NEW s \in S
    PROVE  /\ Front(Append(V, s)) = V /\ SubSeq(V, 1, Len(V)) = V
           /\ \A k \in 0..Len(V) : SubSeq(Append(V, s), 1, k) = SubSeq(V, 1, k)
<1>1. PICK len \in Nat : len = Len(V)
  OBVIOUS
<1> DEFINE W == Append(V, s)
<1>2. W \in Seq(S) /\ Len(W) = len + 1 /\ \A i \in 1..len : W[i] = V[i]
  BY <1>1, AppendIs
<1> HIDE DEF W
<1>3. ASSUME NEW k \in 0..len PROVE SubSeq(W, 1, k) = SubSeq(V, 1, k)
  <2>1. k \in 0..len + 1 /\ \A i \in 1..k : i \in 1..len
    BY <1>1
  <2>2. SubSeq(W, 1, k) \in Seq(S) /\ Len(SubSeq(W, 1, k)) = k /\ \A i \in 1..k : SubSeq(W, 1, k)[i] = W[i]
    BY <1>2, <2>1, FirstPart
  <2>3. SubSeq(V, 1, k) \in Seq(S) /\ Len(SubSeq(V, 1, k)) = k /\ \A i \in 1..k : SubSeq(V, 1, k)[i] = V[i]
    BY <1>1, FirstPart
  <2> QED
    BY <1>2, <2>1, <2>2, <2>3
<1>4. SubSeq(V, 1, len) = V
  <2>1. len \in 0..len
    BY <1>1
  <2>2. SubSeq(V, 1, len) \in Seq(S) /\ Len(SubSeq(V, 1, len)) = len /\ \A i \in 1..len : SubSeq(V, 1, len)[i] = V[i]
    BY <1>1, <2>1, FirstPart
  <2> QED
    BY <1>1, <2>2
<1>5. len \in 0..len /\ len + 1 - 1 = len
  BY <1>1
<1>6. Front(W) = SubSeq(W, 1, len)
  BY <1>2, <1>5 DEF Front
<1>7. Front(W) = V
  BY <1>3, <1>4, <1>5, <1>6
<1> QED
  BY <1>1, <1>3, <1>4, <1>7 DEF W

\* A command without redirections sees nothing of its own.
LEMMA SeesNothing == Sees(<<>>) = NothingSeen
<1>1. Len(<<>>) = 0 /\ 0 \in Nat
  OBVIOUS
<1>2. PICK g : g[0] = NothingSeen /\ Sees(<<>>) = g[Len(<<>>)]
  BY <1>1, Seeing
<1> QED
  BY <1>1, <1>2

\* What follows from the invariant while the shell runs.
LEMMA Descended ==
    ASSUME IInv, mode = "runs", Restored
    PROVE  \E V : /\ Follows(V) /\ V \in Seq(Views) /\ Len(V) = Len(rd.list) + 1 /\ Room(Len(V))
                  /\ \A n \in UserFds : Shows(V, Len(V), n, View(n))
<1>1. PICK V : Follows(V)
  BY DEF Restored
<1>2. stack \in Seq(Frames) /\ Shaped(stack) /\ world \in Worlds
  BY Running
<1>3. Linked(stack, V) /\ Restores(rd, V, world)
  BY <1>1 DEF Follows
<1>4. V \in Seq(Views) /\ Len(V) = Len(rd.list) + 1
  BY <1>3 DEF Restores, DescTypes
<1>5. Room(Len(V))
  BY <1>2, <1>3, RoomEnough DEF Restored
<1>6. \A n \in UserFds : Shows(V, Len(V), n, View(n))
  BY <1>2, <1>3, ViewShown
<1> QED
  BY <1>1, <1>4, <1>5, <1>6

\* A command's redirections, and how they are undone.
LEMMA Redirects ==
    ASSUME world \in Worlds, Lasting(world), NEW redirs \in world.redirs,
           NEW V, V \in Seq(Views), Restores(rd, V, world), Room(Len(V)),
           \A n \in UserFds : Shows(V, Len(V), n, View(n))
    PROVE  /\ Restores(Undone(redirectsafe(redirs).rd, redirs), V, world)
           /\ redirs = <<>> => redirectsafe(redirs).rd = rd
           /\ redirs # <<>> => \E s \in Views :
                 /\ Restores(redirectsafe(redirs).rd, Append(V, s), world)
                 /\ ~redirectsafe(redirs).err => s = Sees(redirs)
                 /\ "exec" \in world.program => \A m \in Shuts(world) : s[m] \in {Same, Closed}
<1> DEFINE r == redirectsafe(redirs)
<1>1. CASE redirs = <<>>
  BY <1>1 DEF redirectsafe, Undone
<1>2. CASE redirs # <<>>
  <2>1. PICK s \in Views :
          /\ Restores(r.rd, Append(V, s), world)
          /\ ~r.err => s = Sees(redirs)
          /\ "exec" \in world.program => \A m \in Shuts(world) : s[m] \in {Same, Closed}
    BY <1>2, RedirectSafeRestores
  <2>2. Undone(r.rd, redirs) = R!popredir(r.rd, 0)
    BY <1>2 DEF Undone
  <2> HIDE DEF r
  <2>3. r.rd.list # <<>>
    <3>1. PICK k \in Nat \ {0} : k = Len(V)
      <4>1. Len(V) = Len(rd.list) + 1 /\ rd.list \in Seq(RedirTabs)
        BY DEF Restores, DescTypes
      <4> QED
        BY <4>1
    <3>2. Len(Append(V, s)) = k + 1 /\ Len(Append(V, s)) = Len(r.rd.list) + 1 /\ r.rd.list \in Seq(RedirTabs)
      <4>1. Len(Append(V, s)) = k + 1
        BY <3>1, AppendIs
      <4> QED
        BY <2>1, <4>1 DEF Restores, DescTypes
    <3>3. Len(r.rd.list) = k
      BY <3>1, <3>2
    <3> QED
      BY <3>1, <3>2, <3>3
  <2>4. Restores(R!popredir(r.rd, 0), Front(Append(V, s)), world)
    BY <2>1, <2>3, PopRestores
  <2>5. Front(Append(V, s)) = V
    BY PartOfAppend
  <2> QED
    BY <1>2, <2>1, <2>2, <2>4, <2>5 DEF r
<1> QED
  BY <1>1, <1>2

\* What a command undoes as it ends.
LEMMA OutRestores ==
    ASSUME NEW f \in Frames, NEW io, NEW W, NEW w, Restores(io, W, w), Len(io.list) >= Depth(f)
    PROVE  /\ Restores(R!unwindredir(IF f.redirs THEN R!popredir(io, 0) ELSE io, f.stop),
                       SubSeq(W, 1, f.stop + 1), w)
           /\ f.stop \in Nat /\ f.stop + 1 \in 1..Len(W)
<1>1. f.stop \in Nat /\ f.redirs \in BOOLEAN
      /\ (f.redirs => Depth(f) = f.stop + 1) /\ (~f.redirs => Depth(f) = f.stop)
  BY FrameFields, DepthIs
<1>2. W \in Seq(Views) /\ io.list \in Seq(RedirTabs) /\ Len(W) = Len(io.list) + 1
  BY DEF Restores, DescTypes
<1>3. PICK len \in Nat : len = Len(io.list)
  BY <1>2
<1>4. f.stop + 1 \in 1..Len(W)
  BY <1>1, <1>2, <1>3
<1>5. CASE f.redirs
  <2>1. len >= f.stop + 1 /\ io.list # <<>> /\ W # <<>>
    <3>1. len >= f.stop + 1
      BY <1>1, <1>3, <1>5
    <3>2. len # 0
      BY <1>1, <1>3, <3>1
    <3> QED
      BY <1>2, <1>3, <3>1, <3>2
  <2>2. Restores(R!popredir(io, 0), Front(W), w)
    BY <2>1, PopRestores
  <2>3. Front(W) \in Seq(Views) /\ Len(Front(W)) = len
    <3>1. Front(W) \in Seq(Views) /\ Len(Front(W)) = Len(W) - 1
      BY <1>2, <2>1, FrontIs
    <3> QED
      BY <1>2, <1>3, <3>1
  <2>4. Len(R!popredir(io, 0).list) + 1 = len /\ R!popredir(io, 0).list \in Seq(RedirTabs)
    BY <2>2, <2>3 DEF Restores, DescTypes
  <2>5. f.stop =< Len(R!popredir(io, 0).list)
    BY <1>1, <1>3, <2>1, <2>4
  <2>6. Restores(R!unwindredir(R!popredir(io, 0), f.stop), SubSeq(Front(W), 1, f.stop + 1), w)
    BY <1>1, <2>2, <2>5, UnwindRestores
  <2>7. SubSeq(Front(W), 1, f.stop + 1) = SubSeq(W, 1, f.stop + 1)
    <3>1. PICK k \in Nat : k = f.stop + 1 /\ k \in 0..len /\ k \in 0..Len(W) /\ \A i \in 1..k : i \in 1..len
      BY <1>1, <1>2, <1>3, <2>1
    <3>2. Front(W) = SubSeq(W, 1, len)
      BY <1>2, <1>3 DEF Front
    <3>3. /\ SubSeq(W, 1, k) \in Seq(Views) /\ Len(SubSeq(W, 1, k)) = k
          /\ \A i \in 1..k : SubSeq(W, 1, k)[i] = W[i]
      BY <1>2, <3>1, FirstPart
    <3>4. /\ SubSeq(Front(W), 1, k) \in Seq(Views) /\ Len(SubSeq(Front(W), 1, k)) = k
          /\ \A i \in 1..k : SubSeq(Front(W), 1, k)[i] = Front(W)[i]
      BY <2>3, <3>1, FirstPart
    <3>5. \A i \in 1..len : Front(W)[i] = W[i]
      <4>1. \A i \in 1..Len(W) - 1 : Front(W)[i] = W[i]
        BY <1>2, <2>1, FrontIs
      <4> QED
        BY <1>2, <1>3, <4>1
    <3> QED
      BY <3>1, <3>3, <3>4, <3>5
  <2> QED
    BY <1>1, <1>4, <1>5, <2>6, <2>7
<1>6. CASE ~f.redirs
  <2>1. f.stop =< Len(io.list)
    BY <1>1, <1>6
  <2>2. Restores(R!unwindredir(io, f.stop), SubSeq(W, 1, f.stop + 1), w)
    BY <1>1, <2>1, UnwindRestores
  <2> QED
    BY <1>1, <1>4, <1>6, <2>2
<1> QED
  BY <1>1, <1>5, <1>6

\* Of an error.
LEMMA RaiseRestored ==
    ASSUME IInv, mode = "runs", Len(stack) =< world.depth,
           NEW V \in Seq(Views), Linked(stack, V), Len(V) = Len(rd.list) + 1,
           NEW io, NEW W, Restores(io, W, world), W = V \/ \E s \in Views : W = Append(V, s),
           NEW cmds, raise(io, cmds), world' = world
    PROVE  Restored'
<1> DEFINE h == stack[Handler]
<1>1. /\ stack \in Seq(Frames) /\ Shaped(stack) /\ Len(rd.list) = Depth(Last(stack)) /\ world \in Worlds
      /\ Len(rd.list) \in Nat
  BY Running DEF Top
<1>2. /\ Handler \in 1..Len(stack)
      /\ \/ h.kind = "top" /\ Handler = 1
         \/ h.kind \in {"eval", "dot"} /\ ~h.special /\ Handler # 1
  BY <1>1, HandlerIs
<1>3. /\ h \in Frames /\ Depth(h) =< Depth(Last(stack))
      /\ Handler # 1 => Depth(stack[Handler - 1]) = h.stop /\ Handler - 1 \in 1..Len(stack)
  BY <1>1, <1>2, ShapedPart
<1>4. /\ rd' = R!unwindredir(IF h.redirs THEN R!popredir(io, 0) ELSE io, h.stop)
      /\ h.kind = "top" => stack' = <<h>>
      /\ h.kind # "top" => stack' = SubSeq(stack, 1, Handler - 1)
  BY DEF raise
<1>5. PICK len \in Nat : len = Len(rd.list) /\ Len(V) = len + 1
  BY <1>1
<1>6. Len(io.list) >= Depth(h) /\ Depth(h) \in Nat /\ Depth(h) =< len
  <2>1. Len(W) = Len(io.list) + 1 /\ io.list \in Seq(RedirTabs)
    BY DEF Restores, DescTypes
  <2>2. Len(W) = len + 1 \/ Len(W) = len + 2
    <3>1. ASSUME NEW s \in Views, W = Append(V, s) PROVE Len(W) = len + 2
      <4>1. Len(W) = Len(V) + 1
        BY <3>1, AppendIs
      <4> QED
        BY <1>5, <4>1
    <3> QED
      BY <1>5, <3>1
  <2>3. Depth(h) \in Nat /\ Depth(h) =< len
    BY <1>1, <1>3, <1>5, DepthIs
  <2>4. Len(io.list) \in Nat /\ Len(io.list) >= len
    BY <1>5, <2>1, <2>2
  <2> QED
    BY <1>5, <2>3, <2>4
<1> HIDE DEF h
<1>7. /\ Restores(rd', SubSeq(W, 1, h.stop + 1), world) /\ h.stop \in Nat
  BY <1>3, <1>4, <1>6, OutRestores
<1>8. SubSeq(W, 1, h.stop + 1) = SubSeq(V, 1, h.stop + 1)
  <2>1. h.stop =< Depth(h)
    BY <1>3, DepthIs
  <2>2. h.stop + 1 \in 0..Len(V)
    BY <1>5, <1>6, <1>7, <2>1
  <2>3. PICK k \in 0..Len(V) : k = h.stop + 1
    BY <2>2
  <2>4. ASSUME NEW s \in Views, W = Append(V, s) PROVE SubSeq(W, 1, k) = SubSeq(V, 1, k)
    BY <2>4, PartOfAppend
  <2> QED
    BY <2>3, <2>4
<1>9. Restores(rd', SubSeq(V, 1, h.stop + 1), world')
  BY <1>7, <1>8
<1>10. CASE h.kind = "top"
  <2>1. h = stack[1] /\ Depth(h) = 0 /\ 1 \in 1..Len(stack)
    BY <1>1, <1>2, <1>10 DEF Shaped, h
  <2>2. h.stop = 0
    <3>1. h.stop =< Depth(h)
      BY <1>3, DepthIs
    <3> QED
      BY <1>7, <2>1, <3>1
  <2>3. SubSeq(stack, 1, 1) = <<h>>
    <3>1. 1 \in 0..Len(stack)
      BY <2>1
    <3>2. PICK t : t = SubSeq(stack, 1, 1)
      OBVIOUS
    <3>3. t \in Seq(Frames) /\ Len(t) = 1 /\ t[1] = h
      BY <1>1, <2>1, <3>1, <3>2, FirstPart
    <3>4. t = <<h>>
      BY <3>3
    <3> QED
      BY <3>2, <3>4
  <2>4. Linked(stack', SubSeq(V, 1, h.stop + 1))
    <3>1. Linked(SubSeq(stack, 1, 1), SubSeq(V, 1, Depth(stack[1]) + 1))
      BY <1>1, <2>1, LinkedPart
    <3> QED
      BY <1>4, <1>10, <2>1, <2>2, <2>3, <3>1
  <2>5. Len(stack') =< world'.depth
    <3>1. Len(stack') = 1 /\ Len(stack) >= 1
      BY <1>1, <1>4, <1>10, <2>1
    <3>2. world.depth \in Nat
      BY <1>1, WorldsAssumption
    <3>3. 1 =< world.depth
      BY <1>1, <3>1, <3>2
    <3> QED
      BY <3>1, <3>3
  <2> QED
    BY <1>9, <2>4, <2>5 DEF Restored, Follows
<1>11. CASE h.kind # "top"
  <2>1. PICK m \in 1..Len(stack) : m = Handler - 1 /\ Depth(stack[m]) = h.stop
    <3>1. Handler # 1
      BY <1>2, <1>11 DEF h
    <3> QED
      BY <1>3, <3>1
  <2>2. Linked(SubSeq(stack, 1, m), SubSeq(V, 1, h.stop + 1))
    <3>1. Linked(SubSeq(stack, 1, m), SubSeq(V, 1, Depth(stack[m]) + 1))
      BY <1>1, LinkedPart
    <3> QED
      BY <2>1, <3>1
  <2>3. stack' = SubSeq(stack, 1, m)
    BY <1>4, <1>11, <2>1
  <2>4. Len(stack') =< world'.depth
    <3>1. m \in 0..Len(stack)
      OBVIOUS
    <3>2. Len(stack') = m
      BY <1>1, <2>3, <3>1, FirstPart
    <3>3. world.depth \in Nat /\ Len(stack) \in Nat /\ m =< Len(stack)
      BY <1>1, WorldsAssumption
    <3>4. m =< world.depth
      BY <3>3
    <3> QED
      BY <3>2, <3>4
  <2> QED
    BY <1>9, <2>2, <2>3, <2>4 DEF Restored, Follows
<1> QED
  BY <1>10, <1>11

\* Of a command that others run in.
LEMMA PushRestored ==
    ASSUME IInv, mode = "runs", Len(stack) < world.depth, world \in Worlds,
           NEW V \in Seq(Views), Linked(stack, V), NEW redirs, NEW x \in Frames, Opens(x, redirs),
           stack' = Append(stack, x), world' = world,
           x.sees = Sees(redirs),
           redirs = <<>> => Restores(rd', V, world),
           redirs # <<>> => Restores(rd', Append(V, Sees(redirs)), world)
    PROVE  Restored'
<1>1. /\ stack \in Seq(Frames) /\ Shaped(stack) /\ Len(rd.list) = Depth(Last(stack))
  BY Running DEF Top
<1>2. x.stop = Depth(Last(stack)) /\ (redirs = <<>> => ~x.redirs) /\ (redirs # <<>> => x.redirs)
  BY <1>1 DEF Opens
<1>3. /\ x.redirs => Linked(stack', Append(V, x.sees))
      /\ ~x.redirs /\ x.sees = NothingSeen => Linked(stack', V)
  BY <1>1, <1>2, LinkedPush
<1>4. \E U : Linked(stack', U) /\ Restores(rd', U, world')
  <2>1. CASE redirs = <<>>
    BY <1>2, <1>3, <2>1, SeesNothing
  <2>2. CASE redirs # <<>>
    BY <1>2, <1>3, <2>2
  <2> QED
    BY <2>1, <2>2
<1>5. Len(stack') =< world'.depth
  <2>1. Len(stack') = Len(stack) + 1 /\ Len(stack) \in Nat
    BY <1>1, AppendIs
  <2>2. world.depth \in Nat
    BY WorldsAssumption
  <2>3. Len(stack) + 1 =< world.depth
    BY <2>1, <2>2
  <2> QED
    BY <2>1, <2>3
<1> QED
  BY <1>4, <1>5 DEF Restored, Follows

\* Of a step that leaves the commands that run as they are.
LEMMA SameRestored ==
    ASSUME IInv, mode = "runs", Restored, NEW V, Linked(stack, V), Restores(rd', V, world),
           stack' = stack, world' = world
    PROVE  Restored'
  BY DEF Restored, Follows

\* A builtin or program.
LEMMA SimpleRestored ==
    ASSUME IInv, Restored, Lasting(world), NEW name \in Names, NEW redirs \in world.redirs,
           NEW path \in world.paths \cup {NoPath}, NEW nofunc \in BOOLEAN,
           Simple(name, redirs, path, nofunc)
    PROVE  Restored'
<1>1. mode = "runs" /\ rd' = Undone(redirectsafe(redirs).rd, redirs) /\ stack' = stack /\ world' = world
  BY DEF Simple, Allowed, Settled
<1>2. PICK V : /\ Follows(V) /\ V \in Seq(Views) /\ Len(V) = Len(rd.list) + 1 /\ Room(Len(V))
               /\ \A n \in UserFds : Shows(V, Len(V), n, View(n))
  BY <1>1, Descended
<1>3. world \in Worlds /\ Linked(stack, V) /\ Restores(rd, V, world)
  BY <1>1, <1>2, Running DEF Follows
<1>4. Restores(rd', V, world)
  BY <1>1, <1>2, <1>3, Redirects
<1> QED
  BY <1>1, <1>3, <1>4, SameRestored

\* exec without redirections changes nothing.
LEMMA PassedNothing ==
    ASSUME NEW V \in Seq(Views)
    PROVE  PassedOn(V, NothingSeen) = V
<1> DEFINE U == PassedOn(V, NothingSeen)
<1>1. NothingSeen \in Views
  BY DEF NothingSeen, Views, Seen
<1>2. Passes(U, V, NothingSeen)
  BY <1>1, PassedPasses
<1> HIDE DEF U
<1>3. PICK len \in Nat : len = Len(V) /\ Len(U) = len /\ U \in Seq(Views)
  BY <1>2 DEF Passes
<1>4. ASSUME NEW i \in 1..len PROVE U[i] = V[i]
  <2>1. U[i] \in [UserFds -> Seen] /\ V[i] \in [UserFds -> Seen]
    BY <1>3 DEF Views
  <2>2. ASSUME NEW n \in UserFds PROVE U[i][n] = V[i][n]
    <3>1. NothingSeen[n] = Same
      BY DEF NothingSeen
    <3> QED
      BY <1>2, <1>3, <3>1 DEF Passes
  <2> QED
    BY <2>1, <2>2
<1>5. U = V
  BY <1>3, <1>4
<1> QED
  BY <1>5 DEF U

\* A special builtin, or exec.
LEMMA SpecialRestored ==
    ASSUME IInv, Restored, Lasting(world), NEW redirs \in world.redirs,
           NEW path \in world.paths \cup {NoPath}, NEW execcmd \in BOOLEAN,
           Special(redirs, path, execcmd)
    PROVE  Restored'
<1> DEFINE r == redirectsafe(redirs)
<1>1. /\ mode = "runs" /\ world' = world
      /\ execcmd => "exec" \in world.program
      /\ r.err => raise(r.rd, Assigned(path))
      /\ ~r.err => /\ rd' = IF redirs = <<>> THEN rd ELSE R!popredir(r.rd, IF execcmd THEN 1 ELSE 0)
                   /\ stack' = IF execcmd THEN Executed(redirs) ELSE stack
                   /\ mode' = mode
  BY DEF Special, Allowed
<1>2. PICK V : /\ Follows(V) /\ V \in Seq(Views) /\ Len(V) = Len(rd.list) + 1 /\ Room(Len(V))
               /\ \A n \in UserFds : Shows(V, Len(V), n, View(n))
  BY <1>1, Descended
<1>3. world \in Worlds /\ Linked(stack, V) /\ Restores(rd, V, world) /\ stack \in Seq(Frames) /\ Shaped(stack)
  BY <1>1, <1>2, Running DEF Follows
<1>4. /\ Restores(Undone(r.rd, redirs), V, world)
      /\ redirs = <<>> => r.rd = rd
      /\ redirs # <<>> => \E s \in Views :
            /\ Restores(r.rd, Append(V, s), world)
            /\ ~r.err => s = Sees(redirs)
            /\ "exec" \in world.program => \A m \in Shuts(world) : s[m] \in {Same, Closed}
  BY <1>2, <1>3, Redirects
<1>5. redirs = <<>> => ~r.err
  BY DEF redirectsafe
<1> HIDE DEF r
<1>6. CASE r.err
  <2>1. PICK s \in Views : Restores(r.rd, Append(V, s), world)
    BY <1>4, <1>5, <1>6
  <2>2. Len(stack) =< world.depth
    BY <1>1 DEF Restored
  <2> QED
    BY <1>1, <1>2, <1>3, <1>6, <2>1, <2>2, RaiseRestored
<1>7. CASE ~r.err /\ ~execcmd
  <2>1. rd' = Undone(r.rd, redirs) /\ stack' = stack
    BY <1>1, <1>4, <1>7 DEF Undone
  <2> QED
    BY <1>1, <1>3, <1>4, <2>1, SameRestored
<1>8. CASE ~r.err /\ execcmd
  <2> DEFINE U == PassedOn(V, Sees(redirs))
  <2>1. stack' = Executed(redirs) /\ Linked(stack', U)
    BY <1>1, <1>3, <1>8, LinkedExecuted
  <2>2. Restores(rd', U, world)
    <3>1. CASE redirs = <<>>
      <4>1. rd' = rd
        BY <1>1, <1>8, <3>1
      <4>2. U = V
        BY <1>2, <3>1, SeesNothing, PassedNothing
      <4> QED
        BY <1>3, <4>1, <4>2
    <3>2. CASE redirs # <<>>
      <4>1. rd' = R!popredir(r.rd, 1)
        BY <1>1, <1>8, <3>2
      <4>2. PICK s \in Views : /\ Restores(r.rd, Append(V, s), world) /\ s = Sees(redirs)
                               /\ \A m \in Shuts(world) : s[m] \in {Same, Closed}
        BY <1>1, <1>4, <1>8, <3>2
      <4>3. Passes(U, V, s)
        BY <1>2, <4>2, PassedPasses
      <4>4. r.rd.list # <<>>
        <5>1. Len(Append(V, s)) = Len(V) + 1 /\ Len(V) \in Nat
          BY <1>2, AppendIs
        <5>2. Len(Append(V, s)) = Len(r.rd.list) + 1 /\ r.rd.list \in Seq(RedirTabs)
          BY <4>2 DEF Restores, DescTypes
        <5>3. Len(V) = Len(rd.list) + 1 /\ rd.list \in Seq(RedirTabs)
          BY <1>2, <1>3 DEF Restores, DescTypes
        <5>4. Len(r.rd.list) = Len(V) /\ Len(V) # 0
          BY <5>1, <5>2, <5>3, SMTT(30)
        <5> QED
          BY <5>4
      <4> HIDE DEF U
      <4>5. Restores(R!popredir(r.rd, 1), U, world)
        BY <1>1, <1>2, <1>8, <4>2, <4>3, <4>4, ExecRestores
      <4> QED
        BY <4>1, <4>5
    <3> QED
      BY <3>1, <3>2
  <2>3. Len(stack') = Len(stack)
    BY <1>3, <2>1, ExecutedAlike DEF Alike
  <2> QED
    BY <1>1, <1>8, <2>1, <2>2, <2>3 DEF Restored, Follows
<1> QED
  BY <1>6, <1>7, <1>8

\* A command begins, or its redirections fail.
LEMMA BeginRestored ==
    ASSUME IInv, Restored, Lasting(world), mode = "runs", world' = world,
           NEW redirs \in world.redirs,
           \/ redirectsafe(redirs).err /\ rd' = Undone(redirectsafe(redirs).rd, redirs) /\ stack' = stack
           \/ /\ ~redirectsafe(redirs).err /\ rd' = redirectsafe(redirs).rd /\ Nests
              /\ \E x \in Frames : Opens(x, redirs) /\ x.sees = Sees(redirs) /\ stack' = Append(stack, x)
    PROVE  Restored'
<1> DEFINE r == redirectsafe(redirs)
<1>1. PICK V : /\ Follows(V) /\ V \in Seq(Views) /\ Len(V) = Len(rd.list) + 1 /\ Room(Len(V))
               /\ \A n \in UserFds : Shows(V, Len(V), n, View(n))
  BY Descended
<1>2. world \in Worlds /\ Linked(stack, V) /\ Restores(rd, V, world)
  BY <1>1, Running DEF Follows
<1>3. /\ Restores(Undone(r.rd, redirs), V, world)
      /\ redirs = <<>> => r.rd = rd
      /\ redirs # <<>> => \E s \in Views :
            /\ Restores(r.rd, Append(V, s), world)
            /\ ~r.err => s = Sees(redirs)
            /\ "exec" \in world.program => \A m \in Shuts(world) : s[m] \in {Same, Closed}
  BY <1>1, <1>2, Redirects
<1> HIDE DEF r
<1>4. CASE r.err /\ rd' = Undone(r.rd, redirs) /\ stack' = stack
  BY <1>2, <1>3, <1>4, SameRestored
<1>5. ASSUME ~r.err, rd' = r.rd, Nests,
             NEW x \in Frames, Opens(x, redirs), x.sees = Sees(redirs), stack' = Append(stack, x)
      PROVE  Restored'
  <2>1. redirs = <<>> => Restores(rd', V, world)
    BY <1>2, <1>3, <1>5
  <2>2. redirs # <<>> => Restores(rd', Append(V, Sees(redirs)), world)
    BY <1>3, <1>5
  <2>3. Len(stack) < world.depth
    BY <1>5 DEF Nests
  <2> QED
    BY <1>1, <1>2, <1>5, <2>1, <2>2, <2>3, PushRestored
<1> QED
  BY <1>4, <1>5 DEF r

\* What was put on the stack is a frame.
LEMMA PushedFrame ==
    ASSUME NEW stk \in Seq(Frames), NEW x, Append(stk, x) \in Seq(Frames)
    PROVE  x \in Frames
<1>1. PICK k \in Nat : k = Len(stk)
  OBVIOUS
<1>2. Len(Append(stk, x)) = k + 1 /\ Append(stk, x)[k + 1] = x /\ k + 1 \in 1..k + 1
  BY <1>1
<1> QED
  BY <1>2

\* A call of a function.
LEMMA CallRestored ==
    ASSUME IInv, IInv', Restored, Lasting(world), NEW name \in Names, NEW redirs \in world.redirs,
           NEW path \in world.paths \cup {NoPath}, NEW words \in world.args,
           Call(name, redirs, path, words)
    PROVE  Restored'
<1> DEFINE f == Find(name, path, FALSE).entry.index
           r == redirectsafe(redirs)
           y == Frame("function", redirs)
           x == [y EXCEPT !.sees = Sees(redirs), !.func = f]
<1>1. /\ mode = "runs" /\ world' = world /\ Nests
      /\ r.err => rd' = Undone(r.rd, redirs) /\ stack' = stack
      /\ ~r.err => rd' = r.rd /\ stack' = Append(stack, x)
  BY DEF Call, Allowed, Settled
<1>2. Opens(y, redirs)
  BY FrameOpens
<1>3. x = CalledWith(y, Sees(redirs), f)
  BY DEF CalledWith
<1> HIDE DEF x, y, f, r
<1>4. Opens(x, redirs) /\ x.sees = Sees(redirs)
  BY <1>2, <1>3, OpensCalled
<1>5. stack \in Seq(Frames) /\ stack' \in Seq(Frames)
  BY DEF IInv, Base, TypeOK
<1>6. ~r.err => x \in Frames
  BY <1>1, <1>5, PushedFrame
<1> QED
  BY <1>1, <1>4, <1>6, BeginRestored DEF r

\* eval and dot scripts.
LEMMA ReadRestored ==
    ASSUME IInv, IInv', Restored, Lasting(world), NEW kind \in {"eval", "dot"}, NEW special \in BOOLEAN,
           NEW redirs \in world.redirs, Read(kind, special, redirs)
    PROVE  Restored'
<1> DEFINE r == redirectsafe(redirs)
           new == Min((0..Len(inputs)) \ Range(inputs))
           y == Frame(kind, redirs)
           x == [y EXCEPT !.special = special, !.sees = Sees(redirs), !.input = new]
<1>1. /\ mode = "runs" /\ world' = world /\ Nests
      /\ r.err /\ ~special => rd' = Undone(r.rd, redirs) /\ stack' = stack
      /\ r.err /\ special => raise(r.rd, L!pushlocalvars(ct))
      /\ ~r.err => rd' = r.rd /\ stack' = Append(stack, x)
  BY DEF Read, Allowed
<1>2. Opens(y, redirs)
  BY FrameOpens
<1>3. x = ReadWith(y, special, Sees(redirs), new)
  BY DEF ReadWith
<1>4. redirs = <<>> => ~r.err
  BY DEF redirectsafe
<1> HIDE DEF x, y, new, r
<1>5. Opens(x, redirs) /\ x.sees = Sees(redirs)
  BY <1>2, <1>3, OpensRead
<1>6. stack \in Seq(Frames) /\ stack' \in Seq(Frames)
  BY DEF IInv, Base, TypeOK
<1>7. ~r.err => x \in Frames
  BY <1>1, <1>6, PushedFrame
<1>8. CASE r.err /\ special
  <2>1. PICK V : /\ Follows(V) /\ V \in Seq(Views) /\ Len(V) = Len(rd.list) + 1 /\ Room(Len(V))
                 /\ \A n \in UserFds : Shows(V, Len(V), n, View(n))
    BY <1>1, Descended
  <2>2. world \in Worlds /\ Linked(stack, V) /\ Restores(rd, V, world)
    BY <1>1, <2>1, Running DEF Follows
  <2>3. PICK s \in Views : Restores(r.rd, Append(V, s), world)
    BY <1>4, <1>8, <2>1, <2>2, Redirects DEF r
  <2>4. Len(stack) =< world.depth
    BY <1>1 DEF Restored
  <2> QED
    BY <1>1, <1>8, <2>1, <2>2, <2>3, <2>4, RaiseRestored
<1>9. CASE ~(r.err /\ special)
  BY <1>1, <1>5, <1>7, <1>9, BeginRestored DEF r
<1> QED
  BY <1>8, <1>9

\* Groups with redirections.
LEMMA GroupRestored ==
    ASSUME IInv, IInv', Restored, Lasting(world), NEW redirs \in world.redirs, Group(redirs)
    PROVE  Restored'
<1> DEFINE r == redirectsafe(redirs)
           y == Frame("group", redirs)
           x == [y EXCEPT !.sees = Sees(redirs)]
<1>1. /\ mode = "runs" /\ world' = world /\ Nests
      /\ r.err => rd' = Undone(r.rd, redirs) /\ stack' = stack
      /\ ~r.err => rd' = r.rd /\ stack' = Append(stack, x)
  BY DEF Group, Allowed, Settled
<1>2. Opens(y, redirs)
  BY FrameOpens
<1>3. x = SeeingWith(y, Sees(redirs))
  BY DEF SeeingWith
<1> HIDE DEF x, y, r
<1>4. Opens(x, redirs) /\ x.sees = Sees(redirs)
  BY <1>2, <1>3, OpensSeeing
<1>5. stack \in Seq(Frames) /\ stack' \in Seq(Frames)
  BY DEF IInv, Base, TypeOK
<1>6. ~r.err => x \in Frames
  BY <1>1, <1>5, PushedFrame
<1> QED
  BY <1>1, <1>4, <1>6, BeginRestored DEF r

\* Loops.
LEMMA LoopRestored ==
    ASSUME IInv, IInv', Restored, Loop
    PROVE  Restored'
<1> DEFINE x == Frame("loop", <<>>)
<1>1. mode = "runs" /\ world' = world /\ Nests /\ rd' = rd /\ stack' = Append(stack, x)
  BY DEF Loop, Allowed, Settled
<1>2. Opens(x, <<>>) /\ x.sees = NothingSeen
  <2>1. Opens(x, <<>>)
    BY FrameOpens
  <2>2. x.sees = NothingSeen
    BY FrameOpens DEF NothingSeen
  <2> QED
    BY <2>1, <2>2
<1> HIDE DEF x
<1>3. stack \in Seq(Frames) /\ stack' \in Seq(Frames) /\ world \in Worlds
  BY DEF IInv, Base, TypeOK
<1>4. x \in Frames
  BY <1>1, <1>3, PushedFrame
<1>5. PICK V : Follows(V) /\ V \in Seq(Views)
  BY <1>1, Descended
<1>6. Linked(stack, V) /\ Restores(rd', V, world)
  BY <1>1, <1>5 DEF Follows
<1>7. Len(stack) < world.depth
  BY <1>1 DEF Nests
<1>8. \A redirs : redirs = <<>> => x.sees = Sees(redirs)
  BY <1>2, SeesNothing
<1> QED
  BY <1>1, <1>2, <1>3, <1>4, <1>5, <1>6, <1>7, <1>8, PushRestored

\* Errors: unwindredir.
LEMMA ErrorRestored ==
    ASSUME IInv, Restored, Error
    PROVE  Restored'
<1>1. mode = "runs" /\ raise(rd, ct) /\ world' = world
  BY DEF Error, Allowed
<1>2. PICK V : Follows(V) /\ V \in Seq(Views) /\ Len(V) = Len(rd.list) + 1
  BY <1>1, Descended
<1>3. Linked(stack, V) /\ Restores(rd, V, world) /\ Len(stack) =< world.depth
  BY <1>1, <1>2 DEF Follows, Restored
<1> QED
  BY <1>1, <1>2, <1>3, RaiseRestored

\* The innermost command ends.
LEMMA EndsRestored ==
    ASSUME IInv, mode = "runs", Restored, NEW skip, NEW count, Ends(skip, count)
    PROVE  Restored'
<1>1. /\ stack \in Seq(Frames) /\ Shaped(stack) /\ Len(rd.list) = Depth(Top) /\ Len(rd.list) \in Nat
      /\ world \in Worlds
  BY Running
<1>2. PICK len \in Nat \ {0} : len = Len(stack) /\ Top = stack[len] /\ len \in 1..len
  BY <1>1, Depths DEF Top
<1>3. /\ Top \in Frames /\ Top.kind \in {"top", "function", "eval", "dot", "group", "loop"}
      /\ Top.kind = "loop" => ~Top.redirs
      /\ Top.kind = "group" => Top.redirs
      /\ Top.redirs \in BOOLEAN /\ Top.stop \in Nat
  BY <1>1, <1>2, Depths, FrameFields
<1>4. stack' = Front(stack) /\ world' = world
  BY DEF Ends
<1>5. PICK V : Follows(V) /\ V \in Seq(Views) /\ Len(V) = Len(rd.list) + 1
  BY Descended
<1>6. Linked(stack, V) /\ Restores(rd, V, world)
  BY <1>5 DEF Follows
<1>7. CASE Top.kind = "top"
  <2>1. rd' = rd /\ mode' = "exited"
    BY <1>7 DEF Ends
  <2> QED
    BY <1>4, <1>6, <2>1 DEF Restored
<1>8. CASE Top.kind # "top"
  <2>1. PICK m \in 1..len : m = len - 1 /\ Depth(stack[m]) = Top.stop
    <3>1. len # 1
      BY <1>1, <1>2, <1>8 DEF Shaped
    <3>2. len - 1 \in 1..len
      BY <3>1
    <3>3. Depth(stack[len - 1]) = stack[len].stop
      BY <1>1, <1>2, <3>1, ShapedPart
    <3> QED
      BY <1>2, <3>2, <3>3
  <2>2. Linked(stack', SubSeq(V, 1, Top.stop + 1))
    <3>1. Linked(SubSeq(stack, 1, m), SubSeq(V, 1, Depth(stack[m]) + 1))
      BY <1>1, <1>2, <1>6, LinkedPart
    <3> QED
      BY <1>2, <1>4, <2>1, <3>1 DEF Front
  <2>3. Len(rd.list) >= Depth(Top)
    BY <1>1
  <2>4. Restores(R!unwindredir(IF Top.redirs THEN R!popredir(rd, 0) ELSE rd, Top.stop),
                 SubSeq(V, 1, Top.stop + 1), world)
    BY <1>3, <1>6, <2>3, OutRestores
  <2>5. Restores(rd', SubSeq(V, 1, Top.stop + 1), world)
    <3>1. CASE Top.kind = "loop"
      <4>1. rd' = rd
        BY <3>1 DEF Ends
      <4>2. Top.stop + 1 = Len(V)
        BY <1>1, <1>3, <1>5, <3>1, DepthIs
      <4>3. SubSeq(V, 1, Len(V)) = V
        <5>1. NothingSeen \in Views
          BY DEF NothingSeen, Views, Seen
        <5> QED
          BY <1>5, <5>1, PartOfAppend
      <4> QED
        BY <1>6, <4>1, <4>2, <4>3
    <3>2. CASE Top.kind = "group"
      <4>1. rd' = R!popredir(rd, 0)
        BY <3>2 DEF Ends
      <4>2. Depth(Top) = Top.stop + 1
        BY <1>3, <3>2, DepthIs
      <4>3. rd.list # <<>> /\ Len(V) - 1 = Top.stop + 1
        <5>1. Len(rd.list) = Top.stop + 1 /\ Len(V) = Top.stop + 2
          BY <1>1, <1>3, <1>5, <4>2
        <5>2. Len(rd.list) # 0 /\ Len(V) - 1 = Top.stop + 1
          BY <1>3, <5>1
        <5> QED
          BY <5>2
      <4>4. Restores(R!popredir(rd, 0), Front(V), world)
        BY <1>6, <4>3, PopRestores
      <4>5. Front(V) = SubSeq(V, 1, Top.stop + 1)
        BY <4>3 DEF Front
      <4> QED
        BY <4>1, <4>4, <4>5
    <3>3. CASE Top.kind \in {"function", "eval", "dot"}
      <4>1. rd' = R!unwindredir(IF Top.redirs THEN R!popredir(rd, 0) ELSE rd, Top.stop)
        BY <3>3 DEF Ends, Out
      <4> QED
        BY <2>4, <4>1
    <3> QED
      BY <1>3, <1>8, <3>1, <3>2, <3>3
  <2>6. Len(stack') =< world'.depth
    <3>1. Len(stack') = len - 1
      BY <1>1, <1>2, <1>4, FrontIs
    <3>2. world.depth \in Nat /\ len =< world.depth
      BY <1>1, <1>2, WorldsAssumption DEF Restored
    <3>3. len - 1 =< world.depth
      BY <3>2
    <3> QED
      BY <1>4, <3>1, <3>3
  <2> QED
    BY <1>4, <2>2, <2>5, <2>6 DEF Restored, Follows
<1> QED
  BY <1>7, <1>8

\* A command that ends, or is skipped: popredir.
LEMMA EndRestored ==
    ASSUME IInv, Restored, End \/ Skip
    PROVE  Restored'
<1>1. mode = "runs"
  BY DEF End, Skip
<1>2. (rd' = rd /\ stack' = stack /\ world' = world /\ mode' = mode) \/ \E skip, count : Ends(skip, count)
  <2>1. CASE End
    BY <2>1 DEF End
  <2>2. CASE Skip
    BY <2>2 DEF Skip
  <2> QED
    BY <2>1, <2>2
<1>3. CASE rd' = rd /\ stack' = stack /\ world' = world /\ mode' = mode
  BY <1>3 DEF Restored, Follows
<1>4. CASE \E skip, count : Ends(skip, count)
  BY <1>1, <1>4, EndsRestored
<1> QED
  BY <1>2, <1>3, <1>4

\* Each step keeps that the tables give all descriptors back,
LEMMA NextRestored ==
    ASSUME IInv, Restored, \A w \in Worlds : Lasting(w), [Next]_vars
    PROVE  Restored'
<1>0. IInv' /\ Lasting(world)
  BY NextIInv DEF IInv, Base, TypeOK
<1>1. ASSUME rd' = rd, stack' = stack, mode' = mode, world' = world PROVE Restored'
  BY <1>1 DEF Restored, Follows
<1>2. CASE UNCHANGED vars
  BY <1>1, <1>2 DEF vars
<1>3. CASE Next
  <2>1. CASE \E name \in Names, redirs \in world.redirs, path \in world.paths \cup {NoPath} :
                \E nofunc \in BOOLEAN : Simple(name, redirs, path, nofunc)
    BY <1>0, <2>1, SimpleRestored
  <2>2. CASE \E name \in Names, redirs \in world.redirs, path \in world.paths \cup {NoPath} :
                \E words \in world.args : Call(name, redirs, path, words)
    BY <1>0, <2>2, CallRestored
  <2>3. CASE \E redirs \in world.redirs, path \in world.paths \cup {NoPath}, execcmd \in BOOLEAN :
                Special(redirs, path, execcmd)
    BY <1>0, <2>3, SpecialRestored
  <2>4. CASE \E kind \in {"eval", "dot"}, special \in BOOLEAN, redirs \in world.redirs :
                Read(kind, special, redirs)
    BY <1>0, <2>4, ReadRestored
  <2>5. CASE \E redirs \in world.redirs : Group(redirs)
    BY <1>0, <2>5, GroupRestored
  <2>6. CASE Loop \/ Error \/ End \/ Skip
    BY <1>0, <2>6, LoopRestored, ErrorRestored, EndRestored
  <2>7. CASE returncmd \/ \E n \in 1..2, how \in {"break", "cont"} : breakcmd(n, how)
    BY <1>1, <2>7 DEF returncmd, breakcmd
  <2>8. CASE HashR \/ shift \/ getoptsreset \/ getopts \/ (\E words \in world.args : set(words))
    BY <1>1, <2>8 DEF HashR, Table, shift, getoptsreset, getopts, set, Keeps
  <2>9. CASE (\E path \in world.paths : local(path)) \/ (\E dir \in world.cwds : Cd(dir))
    BY <1>1, <2>9 DEF local, Cd, Table, Keeps
  <2>10. CASE \E name \in Names : Defun(name) \/ Unset(name) \/ Hash(name)
    BY <1>1, <2>10 DEF Defun, Unset, Hash, Table, Keeps
  <2> QED
    BY <1>3, <2>1, <2>2, <2>3, <2>4, <2>5, <2>6, <2>7, <2>8, <2>9, <2>10 DEF Next
<1> QED
  BY <1>2, <1>3

\* and they do when the shell begins.
LEMMA InitRestored ==
    ASSUME Init
    PROVE  Restored
<1> DEFINE v == [n \in UserFds |-> Terminal]
           V == <<v>>
           x == stack[1]
<1>1. /\ world \in Worlds /\ rd.list = <<>> /\ DOMAIN rd = {"open", "list"}
      /\ rd.open = [n \in AllFds |-> IF n \in UserFds THEN Terminal ELSE Closed]
      /\ Len(stack) = 1 /\ mode = "runs"
  BY DEF Init
<1>2. stack \in Seq(Frames) /\ Shaped(stack) /\ Len(rd.list) = Depth(Top)
  BY <1>1, InitIInv DEF IInv, Base, TypeOK
<1>3. x.sees = v
  <2> DEFINE y == Frame("top", <<>>)
  <2>1. stack = <<SeeingWith(y, v)>>
    BY DEF Init, SeeingWith
  <2>2. Opens(y, <<>>)
    BY FrameOpens
  <2> HIDE DEF y, v
  <2>3. PICK z : z = SeeingWith(y, v)
    OBVIOUS
  <2>4. z.sees = v
    BY <2>2, <2>3, OpensSeeing
  <2> QED
    BY <2>1, <2>3, <2>4
<1>4. v \in Views /\ Terminal # Same /\ Terminal \in Contents /\ Closed \in Contents
  BY DescriptorsAssumption DEF Views, Seen, Contents, Same
<1>5. \A n \in UserFds : v[n] = Terminal
  OBVIOUS
<1> HIDE DEF v
<1>6. V \in Seq(Views) /\ Len(V) = 1 /\ V[1] = v /\ 1 \in 1..1 /\ 1 + 1..1 = {}
  BY <1>4
<1>7. Len(rd.list) = 0 /\ rd.list \in Seq(RedirTabs) /\ 1..0 = {}
  BY <1>1
<1> HIDE DEF V
<1>8. DescTypes(rd, V)
  <2>1. rd.open \in [AllFds -> Contents]
    BY <1>1, <1>4
  <2>2. Len(V) = Len(rd.list) + 1
    BY <1>6, <1>7
  <2> QED
    BY <1>1, <1>6, <1>7, <2>1, <2>2 DEF DescTypes
<1>9. SavedRight(rd, V, world) /\ CopiesApart(rd)
  BY <1>7 DEF SavedRight, CopiesApart
<1>10. OpenRight(rd, V)
  <2>1. ASSUME NEW n \in UserFds PROVE rd.open[n] = Terminal
    BY <1>1 DEF AllFds
  <2> QED
    BY <1>4, <1>5, <1>6, <2>1 DEF OpenRight, Shows
<1>11. NoneLeft(rd)
  BY <1>1 DEF NoneLeft
<1>12. Restores(rd, V, world)
  BY <1>8, <1>9, <1>10, <1>11 DEF Restores
<1>13. Linked(stack, V)
  <2>1. Top = x /\ Depth(x) = 0
    BY <1>1, <1>2, Depths DEF Top
  <2>2. \A i \in 1..Len(stack) : i = 1 /\ Seer(stack, i)
    BY <1>1 DEF Seer
  <2>3. Len(V) = Depth(Last(stack)) + 1 /\ Depth(stack[1]) + 1 = 1
    BY <1>6, <2>1 DEF Top
  <2> QED
    BY <1>3, <1>6, <2>2, <2>3 DEF Linked
<1>14. Len(stack) =< world.depth
  <2>1. world.depth \in Nat \ {0}
    BY <1>1, WorldsAssumption
  <2> QED
    BY <1>1, <2>1
<1> QED
  BY <1>12, <1>13, <1>14 DEF Restored, Follows

\* What a table restores is what the commands are to see, and keeps no more
\* copies than that takes.
LEMMA RestoredSeen ==
    ASSUME IInv, Restored
    PROVE  DescriptorsRight
<1> SUFFICES ASSUME mode = "runs", NEW n \in UserFds PROVE rd.open[n] = View(n)
  BY DEF DescriptorsRight
<1>1. PICK V : /\ Follows(V) /\ V \in Seq(Views) /\ Len(V) = Len(rd.list) + 1 /\ Room(Len(V))
               /\ \A m \in UserFds : Shows(V, Len(V), m, View(m))
  BY Descended
<1>2. Shows(V, Len(V), n, rd.open[n])
  BY <1>1 DEF Follows, Restores, OpenRight
<1>3. Shows(V, Len(V), n, View(n)) /\ Len(V) \in Nat
  BY <1>1
<1> QED
  BY <1>2, <1>3, ShowsOne

\* The copies that are open are the marks in the tables.
LEMMA RestoredCopies ==
    ASSUME Restored
    PROVE  NoCopyLeft
<1>1. PICK V : Restores(rd, V, world)
  BY DEF Restored
<1>2. rd.list \in Seq(RedirTabs) /\ SavedRight(rd, V, world) /\ NoneLeft(rd)
  BY <1>1 DEF Restores, DescTypes
<1> DEFINE len == Len(rd.list)
<1>3. len \in Nat
  BY <1>2
<1> DEFINE needed == (UNION {Range(rd.list[i]) : i \in 1..Len(rd.list)}) \cap SaveFds
           held == {n \in AllFds \ UserFds : rd.open[n] # Closed}
<1>4. ASSUME NEW c PROVE c \in needed <=> c \in SaveFds /\ \E k \in 1..len, n \in UserFds : TableAt(rd.list, k)[n] = c
  <2>1. \A i \in 1..len : rd.list[i] \in RedirTabs
    BY <1>2, <1>3
  <2>2. \A i \in 1..len : Range(rd.list[i]) = {rd.list[i][n] : n \in UserFds}
    BY <2>1 DEF RedirTabs, Range
  <2>3. c \in needed <=> c \in SaveFds /\ \E i \in 1..len : \E n \in UserFds : rd.list[i][n] = c
    <3> DEFINE all == UNION {Range(rd.list[i]) : i \in 1..len}
    <3>1. needed = all \cap SaveFds
      OBVIOUS
    <3>2. c \in all <=> \E i \in 1..len : c \in Range(rd.list[i])
      OBVIOUS
    <3> HIDE DEF needed, all
    <3> QED
      BY <2>2, <3>1, <3>2
  <2>4. ASSUME NEW i \in 1..len PROVE len + 1 - i \in 1..len /\ TableAt(rd.list, len + 1 - i) = rd.list[i]
    <3>1. len + 1 - i \in 1..len /\ len + 1 - (len + 1 - i) = i
      BY <1>3
    <3> QED
      BY <1>3, <3>1 DEF TableAt
  <2>5. ASSUME NEW k \in 1..len PROVE len + 1 - k \in 1..len /\ TableAt(rd.list, k) = rd.list[len + 1 - k]
    <3>1. len + 1 - k \in 1..len
      BY <1>3
    <3> QED
      BY <1>3, <3>1 DEF TableAt
  <2> HIDE DEF needed
  <2> QED
    BY <2>3, <2>4, <2>5
<1> HIDE DEF needed
<1>5. ASSUME NEW c \in held PROVE c \in needed
  <2>1. PICK k \in 1..len, n \in UserFds : TableAt(rd.list, k)[n] = c
    BY <1>2, <1>3, <1>5 DEF NoneLeft
  <2>2. TableAt(rd.list, k)[n] \in Marks
    <3>1. len + 1 - k \in 1..len
      BY <1>3
    <3>2. rd.list[len + 1 - k] \in RedirTabs
      BY <1>2, <1>3, <3>1
    <3> QED
      BY <1>3, <3>2 DEF TableAt, RedirTabs
  <2>3. c \in SaveFds
    <3>1. c \in UserFds \cup LowFds \cup SaveFds /\ c \notin UserFds
      BY <1>5 DEF AllFds
    <3> QED
      BY <2>1, <2>2, <3>1, FdsApart DEF Marks
  <2> QED
    BY <1>4, <2>1, <2>3
<1>6. ASSUME NEW c \in needed PROVE c \in held
  <2>1. c \in SaveFds
    BY <1>4
  <2>2. PICK k \in 1..len, n \in UserFds : TableAt(rd.list, k)[n] = c
    BY <1>4
  <2>3. rd.open[c] # Closed
    BY <1>2, <1>3, <2>1, <2>2 DEF SavedRight, Saved
  <2>4. c \in AllFds \ UserFds
    BY <2>1, FdsApart
  <2> QED
    BY <2>3, <2>4
<1>7. held = needed
  BY <1>5, <1>6
<1> QED
  BY <1>7 DEF NoCopyLeft, needed

\* The tables of redirections that popredir goes by (redir.c), of all commands
\* that run, are enough to give each its descriptors back.  (The hypothesis
\* leaves out what is known not to work: see Lasting.)
THEOREM TablesRestore ==
    ASSUME \A w \in Worlds : Lasting(w)
    PROVE  Spec => []Restored
<1>1. Init => Restored
  BY InitRestored
<1>2. IInv /\ Restored /\ [Next]_vars => Restored'
  BY NextRestored
<1> QED
  BY <1>1, <1>2, CommandsInvariant, PTL DEF Spec

\* Every descriptor is to a command what the commands around it made it,
\* through functions, groups, eval, dot scripts, exec and errors: popredir and
\* unwindredir (redir.c) undo just what each command's redirections did.
THEOREM DescriptorsRestored ==
    ASSUME \A w \in Worlds : Lasting(w)
    PROVE  Spec => []DescriptorsRight
<1>1. Spec => []Restored
  BY TablesRestore
<1>2. IInv /\ Restored => DescriptorsRight
  BY RestoredSeen
<1> QED
  BY <1>1, <1>2, CommandsInvariant, PTL

\* A copy from 10 on is open just as long as a command that runs needs it, also
\* after errors and exec (redir.c: savefd, popredir).
THEOREM CopiesClosed ==
    ASSUME \A w \in Worlds : Lasting(w)
    PROVE  Spec => []NoCopyLeft
<1>1. Spec => []Restored
  BY TablesRestore
<1>2. Restored => NoCopyLeft
  BY RestoredCopies
<1> QED
  BY <1>1, <1>2, PTL

=============================================================================
