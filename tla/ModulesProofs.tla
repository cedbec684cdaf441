--------------------------- MODULE ModulesProofs ----------------------------
(***************************************************************************)
(* Proofs about Modules, for every set of modules and every acyclic graph  *)
(* of them: the list is in order, and complete.                            *)
(*                                                                         *)
(* Two facts carry the induction.  What a module on the stack depends on   *)
(* is listed, or still to do, or the call above it (Waiting); and ranks    *)
(* fall along the stack (Falling), so no module is on it twice and one     *)
(* that is listed cannot be open as well (OpenUnlisted).                   *)
(***************************************************************************)
EXTENDS Modules, ListsProofs

Frames == [mod : Nodes, todo : Seq(Modules)]
Shape ==
    /\ depends \in Graphs
    /\ list \in Seq(Modules)
    /\ frames \in Seq(Frames) /\ Len(frames) >= 1
    /\ frames[1].mod = Project
    /\ \A i \in 2 .. Len(frames) : frames[i].mod \in Modules

Asked(m) == ToSet(depends[m])
Called(i) == IF i < Len(frames) THEN {frames[i + 1].mod} ELSE {}

TodoAsked == \A i \in DOMAIN frames : ToSet(frames[i].todo) \subseteq Asked(frames[i].mod)
Waiting   == \A i \in DOMAIN frames :
                Asked(frames[i].mod) \subseteq ToSet(list) \cup ToSet(frames[i].todo) \cup Called(i)

\* Ranks that show a graph to be acyclic.
IsRank(rank, g) ==
    /\ rank \in [Nodes -> Nat]
    /\ \A m \in Nodes : \A d \in ToSet(g[m]) : rank[d] < rank[m]
RankOf(g) == CHOOSE rank : IsRank(rank, g)
Rank(m) == RankOf(depends)[m]

Falling == \A i, j \in DOMAIN frames : i < j => Rank(frames[j].mod) < Rank(frames[i].mod)
OpenUnlisted == \A i \in 2 .. Len(frames) : frames[i].mod \notin ToSet(list)

ModulesInv == Shape /\ TodoAsked /\ Waiting /\ Falling /\ OpenUnlisted /\ ModulesInOrder

-----------------------------------------------------------------------------

\* Every graph has ranks, as it is acyclic.
LEMMA GraphRanked ==
    ASSUME NEW g \in Graphs
    PROVE  IsRank(RankOf(g), g)
  <1>1. PICK rank \in [Nodes -> 0 .. Cardinality(Modules)] :
            \A m \in Nodes : \A d \in ToSet(g[m]) : rank[d] < rank[m]
    BY ModulesAssumption DEF Ranked
  <1>2. Cardinality(Modules) \in Nat
    BY FS_CardinalityType, ModulesAssumption
  <1>3. rank \in [Nodes -> Nat]
    BY <1>1, <1>2
  <1> QED
    BY <1>1, <1>3 DEF IsRank, RankOf

\* The DEPENDS lists name modules, of lower rank.
LEMMA AskedRanked ==
    ASSUME Shape, NEW m \in Nodes
    PROVE  /\ depends[m] \in Seq(Modules) /\ Asked(m) \subseteq Modules
           /\ Rank(m) \in Nat
           /\ \A d \in Asked(m) : Rank(d) < Rank(m)
  <1>1. depends \in [Nodes -> Seq(Modules)]
    BY ModulesAssumption DEF Shape
  <1>2. IsRank(RankOf(depends), depends)
    BY GraphRanked DEF Shape
  <1> QED
    BY <1>1, <1>2 DEF Asked, Rank, IsRank, ToSet

\* What Top is, and the sequence of frames.
LEMMA TopFrame ==
    ASSUME Shape
    PROVE  /\ Len(frames) \in Nat /\ DOMAIN frames = 1 .. Len(frames)
           /\ Len(frames) \in DOMAIN frames
           /\ \A i \in DOMAIN frames : /\ frames[i] \in Frames /\ frames[i].mod \in Nodes
                                       /\ frames[i].todo \in Seq(Modules)
           /\ Top = frames[Len(frames)]
  <1>1. frames \in Seq(Frames) /\ Len(frames) >= 1
    BY DEF Shape
  <1>2. Len(frames) \in Nat /\ DOMAIN frames = 1 .. Len(frames)
    BY <1>1, LenProperties
  <1>3. \A i \in 1 .. Len(frames) : frames[i] \in Frames
    BY <1>1, ElementOfSeq
  <1>4. \A f \in Frames : f.mod \in Nodes /\ f.todo \in Seq(Modules)
    BY DEF Frames
  <1>5. Len(frames) \in 1 .. Len(frames)
    BY <1>1, <1>2
  <1> QED
    BY <1>2, <1>3, <1>4, <1>5 DEF Top

\* Remaining differs from the frames in what Top has to do.
LEMMA RestFrames ==
    ASSUME Shape, Top.todo # <<>>
    PROVE  /\ Remaining \in Seq(Frames) /\ Len(Remaining) = Len(frames)
           /\ DOMAIN Remaining = 1 .. Len(frames)
           /\ \A i \in 1 .. Len(frames) : Remaining[i].mod = frames[i].mod
           /\ \A i \in 1 .. Len(frames) :
                 Remaining[i].todo = IF i = Len(frames) THEN Tail(Top.todo) ELSE frames[i].todo
           /\ Tail(Top.todo) \in Seq(Modules)
           /\ Head(Top.todo) \in Modules
           /\ ToSet(Top.todo) = {Head(Top.todo)} \cup ToSet(Tail(Top.todo))
  <1> DEFINE new == [mod |-> Top.mod, todo |-> Tail(Top.todo)]
  <1>1. /\ frames \in Seq(Frames) /\ Len(frames) \in 1 .. Len(frames)
        /\ Top = frames[Len(frames)] /\ Top \in Frames /\ Top.todo \in Seq(Modules)
        /\ Top.mod \in Nodes
    BY TopFrame DEF Shape
  <1>2. /\ Tail(Top.todo) \in Seq(Modules) /\ Head(Top.todo) \in Modules
        /\ ToSet(Top.todo) = {Head(Top.todo)} \cup ToSet(Tail(Top.todo))
    BY <1>1, HeadTailElements
  <1>3. new \in Frames
    BY <1>1, <1>2 DEF Frames
  <1>4. [Top EXCEPT !.todo = Tail(Top.todo)] = new
    <2>1. \A f \in Frames : \A t : [f EXCEPT !.todo = t] = [mod |-> f.mod, todo |-> t]
      BY DEF Frames
    <2> QED
      BY <1>1, <2>1
  <1>5. Remaining = [frames EXCEPT ![Len(frames)] = new]
    BY <1>1, <1>4 DEF Remaining
  <1>6. /\ Remaining \in Seq(Frames) /\ Len(Remaining) = Len(frames)
        /\ \A i \in 1 .. Len(frames) : Remaining[i] = IF i = Len(frames) THEN new ELSE frames[i]
    BY <1>1, <1>3, <1>5, ExceptSeq
  <1>7. DOMAIN Remaining = 1 .. Len(frames)
    BY <1>6, LenProperties
  <1>8. new.mod = Top.mod /\ new.todo = Tail(Top.todo)
    OBVIOUS
  <1> HIDE DEF new
  <1>9. \A i \in 1 .. Len(frames) : Remaining[i].mod = frames[i].mod
    BY <1>1, <1>6, <1>8
  <1>10. \A i \in 1 .. Len(frames) :
            Remaining[i].todo = IF i = Len(frames) THEN Tail(Top.todo) ELSE frames[i].todo
    BY <1>6, <1>8
  <1> QED
    BY <1>2, <1>6, <1>7, <1>9, <1>10

-----------------------------------------------------------------------------

\* The invariant holds when the walk starts.
THEOREM InitModules == ModulesInit => ModulesInv
  <1> SUFFICES ASSUME ModulesInit PROVE ModulesInv
    OBVIOUS
  <1>1. depends \in [Nodes -> Seq(Modules)] /\ Project \in Nodes
    BY ModulesAssumption DEF ModulesInit, Nodes
  <1>2. Frame(Project, depends[Project]) \in Frames
    BY <1>1 DEF Frame, Frames
  <1>3. /\ Len(frames) = 1 /\ DOMAIN frames = {1}
        /\ frames[1] = [mod |-> Project, todo |-> depends[Project]]
    BY DEF ModulesInit, Frame
  <1>4. Shape
    BY <1>1, <1>2, <1>3 DEF Shape, ModulesInit
  <1>5. TodoAsked /\ Waiting /\ Falling /\ OpenUnlisted
    BY <1>3 DEF TodoAsked, Waiting, Falling, OpenUnlisted, Asked
  <1>6. ModulesInOrder
    BY DEF ModulesInit, ModulesInOrder
  <1> QED
    BY <1>4, <1>5, <1>6 DEF ModulesInv

\* A module that is listed already is passed over.
LEMMA SkipStep == ModulesInv /\ Skip => ModulesInv'
  <1> SUFFICES ASSUME ModulesInv, Skip PROVE ModulesInv'
    OBVIOUS
  <1>1. Shape /\ TodoAsked /\ Waiting /\ Falling /\ OpenUnlisted /\ ModulesInOrder
    BY DEF ModulesInv
  <1>2. /\ frames' = Remaining /\ depends' = depends /\ list' = list
        /\ Top.todo # <<>> /\ Head(Top.todo) \in ToSet(list)
    BY DEF Skip
  <1>3. /\ frames' \in Seq(Frames) /\ Len(frames') = Len(frames)
        /\ DOMAIN frames' = 1 .. Len(frames)
        /\ \A i \in 1 .. Len(frames) : frames'[i].mod = frames[i].mod
        /\ \A i \in 1 .. Len(frames) :
              frames'[i].todo = IF i = Len(frames) THEN Tail(Top.todo) ELSE frames[i].todo
        /\ ToSet(Top.todo) = {Head(Top.todo)} \cup ToSet(Tail(Top.todo))
    BY <1>1, <1>2, RestFrames
  <1>4. /\ Len(frames) \in Nat /\ Len(frames) >= 1 /\ DOMAIN frames = 1 .. Len(frames)
        /\ Top = frames[Len(frames)]
    BY <1>1, TopFrame DEF Shape
  <1>5. Shape'
    <2>1. 1 \in 1 .. Len(frames) /\ \A i \in 2 .. Len(frames) : i \in 1 .. Len(frames)
      BY <1>4
    <2>2. frames'[1].mod = Project
      BY <1>1, <1>3, <2>1 DEF Shape
    <2>3. \A i \in 2 .. Len(frames) : frames'[i].mod \in Modules
      BY <1>1, <1>3, <2>1 DEF Shape
    <2> QED
      BY <1>1, <1>2, <1>3, <1>4, <2>2, <2>3 DEF Shape
  <1>6. TodoAsked'
    <2> SUFFICES ASSUME NEW i \in 1 .. Len(frames)
                 PROVE  ToSet(frames'[i].todo) \subseteq ToSet(depends[frames[i].mod])
      BY <1>2, <1>3 DEF TodoAsked, Asked
    <2>1. ToSet(frames[i].todo) \subseteq ToSet(depends[frames[i].mod])
      BY <1>1, <1>4 DEF TodoAsked, Asked
    <2>2. CASE i = Len(frames)
      BY <1>3, <1>4, <2>1, <2>2
    <2>3. CASE i # Len(frames)
      BY <1>3, <2>1, <2>3
    <2> QED
      BY <2>2, <2>3
  <1>7. Waiting'
    <2> SUFFICES ASSUME NEW i \in 1 .. Len(frames)
                 PROVE  ToSet(depends[frames[i].mod])
                           \subseteq ToSet(list) \cup ToSet(frames'[i].todo) \cup Called(i)'
      BY <1>2, <1>3 DEF Waiting, Asked
    <2>1. ToSet(depends[frames[i].mod])
             \subseteq ToSet(list) \cup ToSet(frames[i].todo) \cup Called(i)
      BY <1>1, <1>4 DEF Waiting, Asked
    <2>2. Called(i)' = Called(i)
      <3>1. CASE i < Len(frames)
        <4>1. i + 1 \in 1 .. Len(frames)
          BY <1>4, <3>1
        <4> QED
          BY <1>3, <3>1, <4>1 DEF Called
      <3>2. CASE ~ i < Len(frames)
        BY <1>3, <3>2 DEF Called
      <3> QED
        BY <3>1, <3>2
    <2>3. CASE i = Len(frames)
      BY <1>2, <1>3, <1>4, <2>1, <2>2, <2>3
    <2>4. CASE i # Len(frames)
      BY <1>3, <2>1, <2>2, <2>4
    <2> QED
      BY <2>3, <2>4
  <1>8. Falling'
    <2> SUFFICES ASSUME NEW i \in 1 .. Len(frames), NEW j \in 1 .. Len(frames), i < j
                 PROVE  Rank(frames[j].mod) < Rank(frames[i].mod)
      BY <1>2, <1>3 DEF Falling, Rank
    <2> QED
      BY <1>1, <1>4 DEF Falling
  <1>9. OpenUnlisted'
    <2> SUFFICES ASSUME NEW i \in 2 .. Len(frames)
                 PROVE  frames'[i].mod \notin ToSet(list)
      BY <1>2, <1>3 DEF OpenUnlisted
    <2>1. i \in 1 .. Len(frames)
      BY <1>4
    <2> QED
      BY <1>1, <1>3, <2>1 DEF OpenUnlisted
  <1>10. ModulesInOrder'
    BY <1>1, <1>2 DEF ModulesInOrder
  <1> QED
    BY <1>5, <1>6, <1>7, <1>8, <1>9, <1>10 DEF ModulesInv

\* A module that is not listed is opened, below the one that asks for it.
LEMMA LoadStep == ModulesInv /\ Load => ModulesInv'
  <1> SUFFICES ASSUME ModulesInv, Load PROVE ModulesInv'
    OBVIOUS
  <1> DEFINE m == Head(Top.todo)
             new == [mod |-> m, todo |-> depends[m]]
  <1>1. Shape /\ TodoAsked /\ Waiting /\ Falling /\ OpenUnlisted /\ ModulesInOrder
    BY DEF ModulesInv
  <1>2. /\ frames' = Append(Remaining, new) /\ depends' = depends /\ list' = list
        /\ Top.todo # <<>> /\ m \notin ToSet(list)
    BY DEF Load, Frame
  <1>3. /\ Len(frames) \in Nat /\ Len(frames) >= 1 /\ DOMAIN frames = 1 .. Len(frames)
        /\ Top = frames[Len(frames)] /\ Len(frames) \in 1 .. Len(frames)
        /\ \A i \in 1 .. Len(frames) : frames[i].mod \in Nodes
    BY <1>1, TopFrame DEF Shape
  <1>4. m \in Modules /\ m \in Nodes /\ ToSet(Top.todo) = {m} \cup ToSet(Tail(Top.todo))
    BY <1>1, <1>2, RestFrames DEF Nodes
  <1>5. m \in Asked(Top.mod)
    BY <1>1, <1>3, <1>4 DEF TodoAsked
  <1>6. depends[m] \in Seq(Modules) /\ Rank(m) \in Nat
    BY <1>1, <1>4, AskedRanked
  <1>7. new \in Frames /\ new.mod = m /\ new.todo = depends[m]
    BY <1>4, <1>6 DEF Frames
  <1> HIDE DEF new, m
  <1>8. /\ frames' \in Seq(Frames) /\ Len(frames') = Len(frames) + 1
        /\ \A i \in 1 .. Len(frames) : frames'[i] = Remaining[i]
        /\ frames'[Len(frames) + 1] = new
    <2>1. Remaining \in Seq(Frames) /\ Len(Remaining) = Len(frames)
      BY <1>1, <1>2, RestFrames
    <2> QED
      BY <1>2, <1>7, <2>1, AppendProperties
  <1>9. DOMAIN frames' = 1 .. (Len(frames) + 1)
    BY <1>8, LenProperties
  <1>10. \A i \in 1 .. Len(frames) :
           /\ frames'[i].mod = frames[i].mod
           /\ frames'[i].todo = IF i = Len(frames) THEN Tail(Top.todo) ELSE frames[i].todo
    <2>1. \A i \in 1 .. Len(frames) :
             /\ Remaining[i].mod = frames[i].mod
             /\ Remaining[i].todo = IF i = Len(frames) THEN Tail(Top.todo) ELSE frames[i].todo
      BY <1>1, <1>2, RestFrames
    <2> QED
      BY <1>8, <2>1
  <1>11. Shape'
    <2>1. frames'[1].mod = Project
      <3>1. 1 \in 1 .. Len(frames)
        BY <1>3
      <3> QED
        BY <1>1, <1>10, <3>1 DEF Shape
    <2>2. ASSUME NEW i \in 2 .. (Len(frames) + 1)
          PROVE  frames'[i].mod \in Modules
      <3>1. CASE i = Len(frames) + 1
        BY <1>4, <1>7, <1>8, <3>1
      <3>2. CASE i # Len(frames) + 1
        <4>1. i \in 2 .. Len(frames) /\ i \in 1 .. Len(frames)
          BY <1>3, <3>2
        <4> QED
          BY <1>1, <1>10, <4>1 DEF Shape
      <3> QED
        BY <3>1, <3>2
    <2> QED
      BY <1>1, <1>2, <1>3, <1>8, <2>1, <2>2 DEF Shape
  <1>12. TodoAsked'
    <2> SUFFICES ASSUME NEW i \in 1 .. (Len(frames) + 1)
                 PROVE  ToSet(frames'[i].todo) \subseteq ToSet(depends[frames'[i].mod])
      BY <1>2, <1>9 DEF TodoAsked, Asked
    <2>1. CASE i = Len(frames) + 1
      BY <1>7, <1>8, <2>1
    <2>2. CASE i # Len(frames) + 1
      <3>1. i \in 1 .. Len(frames)
        BY <1>3, <2>2
      <3>2. ToSet(frames[i].todo) \subseteq ToSet(depends[frames[i].mod])
        BY <1>1, <1>3, <3>1 DEF TodoAsked, Asked
      <3> QED
        BY <1>3, <1>4, <1>10, <3>1, <3>2
    <2> QED
      BY <2>1, <2>2
  <1>13. Waiting'
    <2> SUFFICES ASSUME NEW i \in 1 .. (Len(frames) + 1)
                 PROVE  ToSet(depends[frames'[i].mod])
                           \subseteq ToSet(list) \cup ToSet(frames'[i].todo) \cup Called(i)'
      BY <1>2, <1>9 DEF Waiting, Asked
    <2>1. CASE i = Len(frames) + 1
      BY <1>7, <1>8, <2>1
    <2>2. CASE i # Len(frames) + 1
      <3>1. i \in 1 .. Len(frames)
        BY <1>3, <2>2
      <3>2. ToSet(depends[frames[i].mod])
               \subseteq ToSet(list) \cup ToSet(frames[i].todo) \cup Called(i)
        BY <1>1, <1>3, <3>1 DEF Waiting, Asked
      <3>3. CASE i = Len(frames)
        <4>1. Called(i) = {} /\ Called(i)' = {m}
          BY <1>3, <1>7, <1>8, <3>3 DEF Called
        <4> QED
          BY <1>3, <1>4, <1>10, <3>1, <3>2, <3>3, <4>1
      <3>4. CASE i # Len(frames)
        <4>1. i + 1 \in 1 .. Len(frames) /\ i < Len(frames) /\ i < Len(frames) + 1
          <5>1. Len(frames) \in Nat
            BY <1>3
          <5> QED
            BY <3>1, <3>4, <5>1
        <4>2. Called(i)' = Called(i)
          BY <1>8, <1>10, <4>1 DEF Called
        <4> QED
          BY <1>10, <3>1, <3>2, <3>4, <4>2
      <3> QED
        BY <3>3, <3>4
    <2> QED
      BY <2>1, <2>2
  <1>14. Falling'
    <2> SUFFICES ASSUME NEW i \in 1 .. (Len(frames) + 1), NEW j \in 1 .. (Len(frames) + 1), i < j
                 PROVE  Rank(frames'[j].mod) < Rank(frames'[i].mod)
      BY <1>2, <1>9 DEF Falling, Rank
    <2>0. Len(frames) \in Nat
      BY <1>3
    <2>1. i \in 1 .. Len(frames) /\ frames'[i].mod = frames[i].mod
      <3>1. i \in 1 .. Len(frames)
        BY <2>0
      <3> QED
        BY <1>10, <3>1
    <2>2. CASE j = Len(frames) + 1
      <3>1. frames'[j].mod = m
        BY <1>7, <1>8, <2>2
      <3>2. Rank(m) < Rank(frames[Len(frames)].mod)
        BY <1>1, <1>3, <1>5, AskedRanked
      <3>3. Rank(frames[i].mod) \in Nat /\ Rank(frames[Len(frames)].mod) \in Nat
        BY <1>1, <1>3, <2>1, AskedRanked
      <3>4. CASE i = Len(frames)
        BY <2>1, <3>1, <3>2, <3>4
      <3>5. CASE i # Len(frames)
        <4>1. i < Len(frames)
          BY <2>0, <2>1, <3>5
        <4>2. Rank(frames[Len(frames)].mod) < Rank(frames[i].mod)
          BY <1>1, <1>3, <2>1, <4>1 DEF Falling
        <4> QED
          BY <1>6, <2>1, <3>1, <3>2, <3>3, <4>2
      <3> QED
        BY <3>4, <3>5
    <2>3. CASE j # Len(frames) + 1
      <3>1. j \in 1 .. Len(frames)
        BY <2>0, <2>3
      <3>2. frames'[j].mod = frames[j].mod
        BY <1>10, <3>1
      <3> QED
        BY <1>1, <1>3, <2>1, <3>1, <3>2 DEF Falling
    <2> QED
      BY <2>2, <2>3
  <1>15. OpenUnlisted'
    <2> SUFFICES ASSUME NEW i \in 2 .. (Len(frames) + 1)
                 PROVE  frames'[i].mod \notin ToSet(list)
      BY <1>2, <1>8 DEF OpenUnlisted
    <2>1. CASE i = Len(frames) + 1
      BY <1>2, <1>7, <1>8, <2>1
    <2>2. CASE i # Len(frames) + 1
      <3>1. i \in 1 .. Len(frames) /\ i \in 2 .. Len(frames)
        BY <1>3, <2>2
      <3> QED
        BY <1>1, <1>10, <3>1 DEF OpenUnlisted
    <2> QED
      BY <2>1, <2>2
  <1>16. ModulesInOrder'
    BY <1>1, <1>2 DEF ModulesInOrder
  <1> QED
    BY <1>11, <1>12, <1>13, <1>14, <1>15, <1>16 DEF ModulesInv

\* A module is listed once nothing it asks for is left to do.
LEMMA DoneStep == ModulesInv /\ Done => ModulesInv'
  <1> SUFFICES ASSUME ModulesInv, Done PROVE ModulesInv'
    OBVIOUS
  <1> DEFINE n == Len(frames)
             m == Top.mod
  <1>0. Shape
    BY DEF ModulesInv
  <1>1. /\ n \in Nat /\ n > 1 /\ DOMAIN frames = 1 .. n /\ Top = frames[n]
        /\ \A i \in 1 .. n : frames[i] \in Frames /\ frames[i].mod \in Nodes
        /\ m \in Modules /\ m \in Nodes
    BY <1>0, TopFrame DEF Shape, Done
  <1>2. /\ Front(frames) \in Seq(Frames) /\ Len(Front(frames)) = n - 1
        /\ \A i \in 1 .. (n - 1) : Front(frames)[i] = frames[i]
    BY <1>0, <1>1 DEF Front, Shape
  <1>3. depends' = depends /\ list' = Append(list, m) /\ frames' = Front(frames)
    BY DEF Done, Loaded
  <1>4. /\ DOMAIN frames' = 1 .. (n - 1) /\ Len(frames') = n - 1
        /\ \A i \in 1 .. (n - 1) : frames'[i] = frames[i]
    BY <1>2, <1>3, LenProperties
  <1>5. /\ list' \in Seq(Modules) /\ ToSet(list') = ToSet(list) \cup {m}
        /\ Len(list') = Len(list) + 1 /\ Len(list) \in Nat
        /\ DOMAIN list = 1 .. Len(list) /\ DOMAIN list' = 1 .. (Len(list) + 1)
        /\ \A i \in 1 .. Len(list) : list'[i] = list[i]
        /\ list'[Len(list) + 1] = m
    BY <1>0, <1>1, <1>3, AppendElements, AppendProperties DEF Shape
  <1>6. Shape'
    BY <1>0, <1>1, <1>2, <1>3, <1>4, <1>5 DEF Shape
  <1>7. TodoAsked'
    <2> SUFFICES ASSUME NEW i \in 1 .. (n - 1)
                 PROVE  ToSet(frames[i].todo) \subseteq ToSet(depends[frames[i].mod])
      BY <1>3, <1>4 DEF TodoAsked, Asked
    <2> QED
      BY <1>1 DEF ModulesInv, TodoAsked, Asked
  <1>8. Waiting'
    <2>1. ASSUME NEW i \in 1 .. (n - 1)
          PROVE  Called(i) \subseteq Called(i)' \cup {m}
      BY <1>1, <1>4 DEF Called
    <2> QED
      BY <1>1, <1>3, <1>4, <1>5, <2>1 DEF ModulesInv, Waiting, Asked
  <1>9. Falling'
    BY <1>1, <1>3, <1>4 DEF ModulesInv, Falling, Rank
  <1>10. OpenUnlisted'
    <2>1. \A i \in 1 .. (n - 1) : frames[i].mod # m
      <3>1. \A i \in 1 .. (n - 1) : Rank(m) < Rank(frames[i].mod)
        BY <1>1 DEF ModulesInv, Falling
      <3>2. Rank(m) \in Nat
        BY <1>0, <1>1, AskedRanked
      <3> QED
        BY <3>1, <3>2
    <2> QED
      BY <1>1, <1>4, <1>5, <2>1 DEF ModulesInv, OpenUnlisted
  <1>11. m \notin ToSet(list)
    BY <1>1 DEF ModulesInv, OpenUnlisted
  <1>12. ToSet(depends[m]) \subseteq ToSet(list)
    <2>1. ToSet(Top.todo) = {} /\ Called(n) = {}
      BY <1>1 DEF Done, ToSet, Called
    <2> QED
      BY <1>1, <2>1 DEF ModulesInv, Waiting, Asked
  <1>13. ModulesInOrder'
    <2>1. \A i \in DOMAIN list : list[i] # m
      BY <1>11 DEF ToSet
    <2>2. ASSUME NEW i \in DOMAIN list', NEW j \in DOMAIN list', list'[i] = list'[j]
          PROVE  i = j
      BY <1>5, <2>1, <2>2 DEF ModulesInv, ModulesInOrder
    <2>3. ASSUME NEW i \in DOMAIN list', NEW d \in ToSet(depends'[list'[i]])
          PROVE  \E j \in DOMAIN list' : j < i /\ list'[j] = d
      <3>1. CASE i \in DOMAIN list
        <4>1. PICK j \in DOMAIN list : j < i /\ list[j] = d
          BY <1>3, <1>5, <2>3, <3>1 DEF ModulesInv, ModulesInOrder
        <4> QED
          BY <1>5, <4>1
      <3>2. CASE i = Len(list) + 1
        <4>1. PICK j \in DOMAIN list : list[j] = d
          BY <1>3, <1>5, <1>12, <2>3, <3>2 DEF ToSet
        <4> QED
          BY <1>5, <3>2, <4>1
      <3> QED
        BY <1>5, <3>1, <3>2
    <2> QED
      BY <2>2, <2>3 DEF ModulesInOrder
  <1> QED
    BY <1>6, <1>7, <1>8, <1>9, <1>10, <1>13 DEF ModulesInv

\* Every step of the walk keeps the invariant.
THEOREM NextModules == ModulesInv /\ [ModulesNext]_moduleVars => ModulesInv'
  <1> SUFFICES ASSUME ModulesInv, [ModulesNext]_moduleVars PROVE ModulesInv'
    OBVIOUS
  <1>1. CASE Skip
    BY <1>1, SkipStep
  <1>2. CASE Load
    BY <1>2, LoadStep
  <1>3. CASE Done
    BY <1>3, DoneStep
  <1>4. CASE UNCHANGED moduleVars
    BY <1>4 DEF moduleVars, ModulesInv, Shape, TodoAsked, Waiting, Falling, OpenUnlisted,
                ModulesInOrder, Asked, Called, Rank
  <1> QED
    BY <1>1, <1>2, <1>3, <1>4 DEF ModulesNext

\* MK_MODULE_LIST has every module after what it DEPENDS on, and once, at any
\* time of the walk (_mk_modules_rec).
THEOREM ModuleListInOrder == ModulesSpec => []ModulesInOrder
  <1>1. ModulesInv => ModulesInOrder
    BY DEF ModulesInv
  <1> QED
    BY <1>1, InitModules, NextModules, PTL DEF ModulesSpec

\* When the walk is over, every list of DEPENDS has been gone through.
LEMMA CompleteList == ModulesInv => ModulesComplete
  <1> SUFFICES ASSUME ModulesInv, AllLoaded, NEW m \in ToSet(list) \cup {Project}
               PROVE  ToSet(depends[m]) \subseteq ToSet(list)
    BY DEF ModulesComplete
  <1>1. CASE m \in ToSet(list)
    BY <1>1 DEF ModulesInv, ModulesInOrder, ToSet
  <1>2. CASE m = Project
    <2>1. 1 \in DOMAIN frames /\ frames[1].mod = Project /\ frames[1].todo = <<>>
      BY TopFrame DEF ModulesInv, Shape, AllLoaded, Top
    <2>2. ToSet(frames[1].todo) = {} /\ Called(1) = {}
      BY <2>1 DEF ToSet, Called, AllLoaded
    <2> QED
      BY <1>2, <2>1, <2>2 DEF ModulesInv, Waiting, Asked
  <1> QED
    BY <1>1, <1>2

\* When _mk_module_list returns, nothing that was asked for is missing.
THEOREM ModuleListComplete == ModulesSpec => []ModulesComplete
  BY CompleteList, InitModules, NextModules, PTL DEF ModulesSpec

=============================================================================
