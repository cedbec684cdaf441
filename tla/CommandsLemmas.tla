--------------------------- MODULE CommandsLemmas ---------------------------
(***************************************************************************)
(* Facts about what Commands is built from: numbers and sequences, the     *)
(* table of Lookup, the lists of Redir, and the stack of commands with     *)
(* who owns and who reads what.                                            *)
(***************************************************************************)
EXTENDS Commands, FiniteSetTheorems, WellFoundedInduction, TLAPS

\* A set of numbers that is not empty has a least one.
LEMMA LeastNumber ==
    ASSUME NEW I, I \subseteq Nat, I # {}
    PROVE  \E n \in I : \A k \in I : n =< k
<1>1. PICK m \in I : \A k \in I : ~ (<<k, m>> \in OpToRel(<, Nat))
  BY NatLessThanWellFounded, WFMin
<1>2. \A k \in I : m =< k
  <2> SUFFICES ASSUME NEW k \in I PROVE m =< k
    OBVIOUS
  <2>1. k \in Nat /\ m \in Nat
    OBVIOUS
  <2>2. ~(k < m)
    BY <1>1, <2>1 DEF OpToRel
  <2> QED
    BY <2>1, <2>2
<1> QED
  BY <1>2

\* What holds of 0 and of the next of each number it holds of up to n.
LEMMA Upward ==
    ASSUME NEW n \in Nat, NEW H, 0 \in H,
           \A m \in 1..n : m - 1 \in H => m \in H
    PROVE  \A m \in 0..n : m \in H
<1> DEFINE Bad == (0..n) \ H
<1>1. SUFFICES ASSUME Bad # {} PROVE FALSE
  OBVIOUS
<1>2. PICK m \in Bad : \A j \in Bad : m =< j
  <2>1. Bad \subseteq Nat
    OBVIOUS
  <2> HIDE DEF Bad
  <2> QED
    BY <1>1, <2>1, LeastNumber
<1>3. m \in 1..n
  BY <1>2
<1>4. m - 1 \notin Bad /\ m - 1 \in 0..n
  BY <1>2, <1>3
<1> QED
  BY <1>2, <1>3, <1>4

PopSteps(g, c, m) == g = [k \in 0..m |-> IF k = 0 THEN c ELSE L!poplocalvars(g[k - 1], 0)]

\* unwindlocalvars is a chain of calls of poplocalvars, of any length.
LEMMA PoppedSteps ==
    ASSUME NEW c, NEW n \in Nat
    PROVE  \E g : PopSteps(g, c, n)
<1> DEFINE Steps(g, m) == PopSteps(g, c, m)
           H == {m \in 0..n : \E g : Steps(g, m)}
<1>1. 0 \in H
  <2>1. Steps([k \in 0..0 |-> c], 0)
    BY DEF PopSteps
  <2> HIDE DEF Steps
  <2> QED
    BY <2>1
<1>2. ASSUME NEW m \in 1..n, m - 1 \in H
      PROVE  m \in H
  <2>1. PICK g : Steps(g, m - 1)
    BY <1>2
  <2> DEFINE h == [k \in 0..m |-> IF k = 0 THEN c ELSE L!poplocalvars(g[k - 1], 0)]
  <2>2. \A k \in 0..m - 1 : g[k] = IF k = 0 THEN c ELSE L!poplocalvars(g[k - 1], 0)
    BY <2>1 DEF PopSteps
  <2>3. \A k \in 0..m - 1 : h[k] = g[k]
    BY <2>2
  <2>4. \A k \in 0..m : k # 0 => k - 1 \in 0..m - 1
    OBVIOUS
  <2>5. Steps(h, m)
    BY <2>3, <2>4 DEF PopSteps
  <2> HIDE DEF Steps, h
  <2> QED
    BY <2>5
<1>3. n \in H
  <2> HIDE DEF H
  <2> QED BY <1>1, <1>2, Upward
<1> QED
  BY <1>3

\* What unwindlocalvars returns is the end of such a chain.
LEMMA Unwinding ==
    ASSUME NEW c, NEW stop, Len(c.locals) - stop \in Nat
    PROVE  \E g : /\ g[0] = c
                  /\ \A k \in 1..Len(c.locals) - stop : g[k] = L!poplocalvars(g[k - 1], 0)
                  /\ L!unwindlocalvars(c, stop) = g[Len(c.locals) - stop]
<1> DEFINE n == Len(c.locals) - stop
           Steps(g) == g = [k \in 0..n |-> IF k = 0 THEN c ELSE L!poplocalvars(g[k - 1], 0)]
           Left == CHOOSE g : Steps(g)
<1>1. L!unwindlocalvars(c, stop) = IF n =< 0 THEN c ELSE Left[n]
  BY DEF L!unwindlocalvars
<1>2. n \in Nat
  OBVIOUS
<1> HIDE DEF n
<1>3. \E g : Steps(g)
  <2>1. \E g : PopSteps(g, c, n)
    BY <1>2, PoppedSteps
  <2> QED
    BY <2>1 DEF PopSteps
<1>4. Steps(Left)
  <2> HIDE DEF Steps
  <2> QED BY <1>3
<1> HIDE DEF Left
<1>5. Left[0] = c
  BY <1>2, <1>4
<1>6. \A k \in 1..n : Left[k] = L!poplocalvars(Left[k - 1], 0)
  BY <1>2, <1>4
<1>7. L!unwindlocalvars(c, stop) = Left[n]
  BY <1>1, <1>2, <1>5
<1> QED
  BY <1>5, <1>6, <1>7 DEF n

\* A set of numbers with a bound has a greatest one.
LEMMA GreatestNumber ==
    ASSUME NEW I, I \subseteq Nat, I # {}, NEW b \in Nat, \A k \in I : k =< b
    PROVE  \E n \in I : \A k \in I : k =< n
<1> DEFINE J == {b - k : k \in I}
<1>1. J \subseteq Nat /\ J # {}
  <2>1. \A k \in I : k \in Nat /\ k =< b
    OBVIOUS
  <2>2. \A k \in I : b - k \in Nat
    BY <2>1
  <2> QED
    BY <2>2
<1>2. PICK j \in J : \A k \in J : j =< k
  <2> HIDE DEF J
  <2> QED
    BY <1>1, LeastNumber
<1>3. PICK n \in I : j = b - n
  OBVIOUS
<1>4. \A k \in I : b - k \in J
  OBVIOUS
<1>5. \A k \in I : b - n =< b - k
  BY <1>2, <1>3, <1>4
<1> QED
  BY <1>5

\* Lookup's Min is the least of its set.
LEMMA LMin ==
    ASSUME NEW I, I \subseteq Nat, I # {}
    PROVE  L!Min(I) \in I /\ \A k \in I : L!Min(I) =< k
<1>1. PICK n \in I : \A k \in I : n =< k
  BY LeastNumber
<1> QED
  BY <1>1 DEF L!Min

\* Lookup's Max is the greatest of its set, when that has a bound.
LEMMA LMax ==
    ASSUME NEW I, I \subseteq Nat, I # {}, NEW b \in Nat, \A k \in I : k =< b
    PROVE  L!Max(I) \in I /\ \A k \in I : L!Max(I) >= k
<1>1. PICK n \in I : \A k \in I : k =< n
  BY GreatestNumber
<1>2. \A k \in I : n >= k
  BY <1>1
<1> QED
  BY <1>2 DEF L!Max

(***************************************************************************)
(* Lookup: what its operators do to the table, and to functions.           *)
(***************************************************************************)
Entries == [type : {"none", "normal", "builtin"}, index : Int, rehash : BOOLEAN]
             \cup {L!Entry("function", f) : f \in FuncIds}
Tables == [path : Seq(STRING), builtinloc : Int, cwd : STRING, table : [Names -> Entries],
           count : [FuncIds -> Int], locals : Seq(Seq(Seq(STRING)))]

\* The table says the same of functions.
SameFunctions(c, d) ==
    /\ d.count = c.count
    /\ \A n \in Names, f \in FuncIds :
          d.table[n] = L!Entry("function", f) <=> c.table[n] = L!Entry("function", f)

\* SameFunctions is transitive.
LEMMA SameTwice ==
    ASSUME NEW c, NEW d, NEW e, SameFunctions(c, d), SameFunctions(d, e)
    PROVE  SameFunctions(c, e)
  BY DEF SameFunctions

\* What an entry of the table can be; a function is known by its number.
LEMMA EntryKinds ==
    ASSUME NEW e \in Entries
    PROVE  /\ e.type \in {"none", "normal", "builtin", "function"}
           /\ e.type = "function" => \E f \in FuncIds : e = L!Entry("function", f)
           /\ \A f : e = L!Entry("function", f) => e.type = "function" /\ e.index = f
           /\ e.rehash \in BOOLEAN /\ e.index \in Int
           /\ e.type # "function" => e \in [type : {"none", "normal", "builtin"}, index : Int, rehash : BOOLEAN]
<1>1. CASE e \in [type : {"none", "normal", "builtin"}, index : Int, rehash : BOOLEAN]
  BY <1>1 DEF L!Entry
<1>2. CASE e \in {L!Entry("function", f) : f \in FuncIds}
  <2>1. PICK f \in FuncIds : e = L!Entry("function", f)
    BY <1>2
  <2>2. f \in Int
    BY BoundsAssumption
  <2> QED
    BY <2>1, <2>2 DEF L!Entry
<1> QED
  BY <1>1, <1>2 DEF Entries

\* No entry is no function.
LEMMA NoneEntry == L!None \in Entries /\ \A f : L!None # L!Entry("function", f)
  BY DEF L!None, L!Entry, Entries

\* The place of %builtin is a number.
LEMMA BuiltinPlace ==
    ASSUME NEW path \in Seq(STRING)
    PROVE  L!BuiltinAt(path) \in Int
<1> DEFINE I == {i \in 1..Len(path) : path[i] = "%builtin"}
<1>1. L!BuiltinAt(path) = (IF I # {} THEN L!Min(I) ELSE 0) - 1
  BY DEF L!BuiltinAt, L!SelectInSeq
<1>2. I \subseteq Nat
  OBVIOUS
<1>3. I # {} => L!Min(I) \in Nat
  <2> HIDE DEF I
  <2> QED
    BY <1>2, LMin
<1> QED
  BY <1>1, <1>3

\* So is that of the first change between two values of PATH.
LEMMA ChangePlace ==
    ASSUME NEW old \in Seq(STRING), NEW new \in Seq(STRING)
    PROVE  L!FirstChange(old, new) \in Nat
<1> DEFINE common == {i \in 1..Len(old) : i =< Len(new) /\ old[i] = new[i]}
           I == {i \in 0..Len(old) : 1..i \subseteq common}
<1>1. L!FirstChange(old, new) = IF old = new THEN 9999 ELSE L!Max(I)
  BY DEF L!FirstChange
<1>2. I \subseteq Nat /\ 0 \in I /\ \A i \in I : i =< Len(old)
  OBVIOUS
<1>3. L!Max(I) \in Nat
  <2>1. Len(old) \in Nat /\ I # {}
    BY <1>2
  <2> HIDE DEF I
  <2> QED
    BY <1>2, <2>1, LMax
<1> QED
  BY <1>1, <1>3

\* clearcmdentry touches no function.
LEMMA Cleared ==
    ASSUME NEW c \in Tables, NEW first \in Int
    PROVE  /\ L!clearcmdentry(c, first) \in Tables
           /\ SameFunctions(c, L!clearcmdentry(c, first))
           /\ L!clearcmdentry(c, first).locals = c.locals
           /\ L!clearcmdentry(c, first).path = c.path
           /\ L!clearcmdentry(c, first).cwd = c.cwd
<1> DEFINE d == L!clearcmdentry(c, first)
<1>1. d = [c EXCEPT !.table = [n \in Names |->
        IF \/ c.table[n].type = "normal" /\ c.table[n].index >= first
           \/ c.table[n].type = "builtin" /\ c.builtinloc >= first
        THEN L!None ELSE c.table[n]]]
  BY DEF L!clearcmdentry, Tables
<1>2. \A n \in Names : c.table[n] \in Entries
  BY DEF Tables
<1>3. d.table \in [Names -> Entries]
  BY <1>1, <1>2, NoneEntry DEF Tables
<1>4. d \in Tables /\ d.count = c.count /\ d.locals = c.locals /\ d.path = c.path /\ d.cwd = c.cwd
  BY <1>1, <1>3 DEF Tables
<1>5. \A n \in Names, f \in FuncIds :
          d.table[n] = L!Entry("function", f) <=> c.table[n] = L!Entry("function", f)
  <2> SUFFICES ASSUME NEW n \in Names, NEW f \in FuncIds
               PROVE  d.table[n] = L!Entry("function", f) <=> c.table[n] = L!Entry("function", f)
    OBVIOUS
  <2>1. d.table[n] = c.table[n] \/ (c.table[n].type # "function" /\ d.table[n] = L!None)
    BY <1>1 DEF Tables
  <2> QED
    BY <2>1, <1>2, EntryKinds, NoneEntry
<1> QED
  BY <1>4, <1>5 DEF SameFunctions

\* Nor does changepath, which also sets PATH.
LEMMA PathChanged ==
    ASSUME NEW c \in Tables, NEW new \in Seq(STRING)
    PROVE  /\ L!changepath(c, new) \in Tables
           /\ SameFunctions(c, L!changepath(c, new))
           /\ L!changepath(c, new).locals = c.locals
           /\ L!changepath(c, new).path = new
           /\ L!changepath(c, new).cwd = c.cwd
<1> DEFINE bltin == L!BuiltinAt(new)
           loc == IF c.builtinloc < 0 THEN bltin ELSE c.builtinloc
           first == IF loc >= 0 /\ bltin < 0 THEN 0 ELSE L!FirstChange(c.path, new)
           b == [c EXCEPT !.builtinloc = loc]
           d == L!clearcmdentry(b, first)
<1>1. L!changepath(c, new) = [d EXCEPT !.builtinloc = bltin, !.path = new]
  BY DEF L!changepath
<1>2. bltin \in Int /\ loc \in Int /\ first \in Int
  BY BuiltinPlace, ChangePlace DEF Tables
<1>3. b \in Tables /\ SameFunctions(c, b) /\ b.locals = c.locals /\ b.cwd = c.cwd
  <2> HIDE DEF loc
  <2> QED
    BY <1>2 DEF Tables, SameFunctions
<1>4. d \in Tables /\ SameFunctions(b, d) /\ d.locals = b.locals /\ d.cwd = b.cwd
  <2> HIDE DEF b, first
  <2> QED
    BY <1>2, <1>3, Cleared
<1> HIDE DEF d, b, bltin
<1>5. /\ L!changepath(c, new) \in Tables
      /\ L!changepath(c, new).locals = d.locals
      /\ L!changepath(c, new).path = new
      /\ L!changepath(c, new).cwd = d.cwd
      /\ L!changepath(c, new).table = d.table
      /\ L!changepath(c, new).count = d.count
  BY <1>1, <1>2, <1>4 DEF Tables
<1>6. SameFunctions(c, L!changepath(c, new))
  BY <1>3, <1>4, <1>5 DEF SameFunctions
<1> QED
  BY <1>3, <1>4, <1>5, <1>6

RestoreSteps(g, c, values, m) == g = [k \in 0..m |-> IF k = 0 THEN c ELSE L!changepath(g[k - 1], values[k])]

\* Restoring PATH is a chain of calls of changepath, of any length.
LEMMA RestoredSteps ==
    ASSUME NEW c, NEW values, NEW n \in Nat
    PROVE  \E g : RestoreSteps(g, c, values, n)
<1> DEFINE Steps(g, m) == RestoreSteps(g, c, values, m)
           H == {m \in 0..n : \E g : Steps(g, m)}
<1>1. 0 \in H
  <2>1. Steps([k \in 0..0 |-> c], 0)
    BY DEF RestoreSteps
  <2> HIDE DEF Steps
  <2> QED
    BY <2>1
<1>2. ASSUME NEW m \in 1..n, m - 1 \in H
      PROVE  m \in H
  <2>1. PICK g : Steps(g, m - 1)
    BY <1>2
  <2> DEFINE h == [k \in 0..m |-> IF k = 0 THEN c ELSE L!changepath(g[k - 1], values[k])]
  <2>2. \A k \in 0..m - 1 : g[k] = IF k = 0 THEN c ELSE L!changepath(g[k - 1], values[k])
    BY <2>1 DEF RestoreSteps
  <2>3. \A k \in 0..m - 1 : h[k] = g[k]
    BY <2>2
  <2>4. \A k \in 0..m : k # 0 => k - 1 \in 0..m - 1
    OBVIOUS
  <2>5. Steps(h, m)
    BY <2>3, <2>4 DEF RestoreSteps
  <2> HIDE DEF Steps, h
  <2> QED
    BY <2>5
<1>3. n \in H
  <2> HIDE DEF H
  <2> QED BY <1>1, <1>2, Upward
<1> QED
  BY <1>3

\* What Restored returns is the end of such a chain.
LEMMA Restoring ==
    ASSUME NEW c, NEW values, Len(values) \in Nat
    PROVE  \E g : /\ g[0] = c
                  /\ \A k \in 1..Len(values) : g[k] = L!changepath(g[k - 1], values[k])
                  /\ L!Restored(c, values) = g[Len(values)]
<1> DEFINE n == Len(values)
           Steps(g) == g = [k \in 0..n |-> IF k = 0 THEN c ELSE L!changepath(g[k - 1], values[k])]
           Left == CHOOSE g : Steps(g)
<1>1. L!Restored(c, values) = Left[n]
  BY DEF L!Restored
<1>2. n \in Nat
  OBVIOUS
<1> HIDE DEF n
<1>3. \E g : Steps(g)
  <2>1. \E g : RestoreSteps(g, c, values, n)
    BY <1>2, RestoredSteps
  <2> QED
    BY <2>1 DEF RestoreSteps
<1>4. Steps(Left)
  <2> HIDE DEF Steps
  <2> QED BY <1>3
<1> HIDE DEF Left
<1>5. Left[0] = c
  BY <1>2, <1>4
<1>6. \A k \in 1..n : Left[k] = L!changepath(Left[k - 1], values[k])
  BY <1>2, <1>4
<1> QED
  BY <1>1, <1>5, <1>6 DEF n

\* d is a table that says the same of functions as c.
Like(c, d) == d \in Tables /\ SameFunctions(c, d)

\* Like is transitive,
LEMMA LikeTwice ==
    ASSUME NEW c, NEW d, NEW e, Like(c, d), Like(d, e)
    PROVE  Like(c, e)
  BY SameTwice DEF Like

\* and reflexive.
LEMMA LikeItself ==
    ASSUME NEW c \in Tables
    PROVE  Like(c, c)
  BY DEF Like, SameFunctions

\* Restoring PATH touches no function and no list of local variables.
LEMMA RestoredLike ==
    ASSUME NEW c \in Tables, NEW values \in Seq(Seq(STRING))
    PROVE  /\ Like(c, L!Restored(c, values))
           /\ L!Restored(c, values).locals = c.locals
<1>1. PICK g : /\ g[0] = c
               /\ \A k \in 1..Len(values) : g[k] = L!changepath(g[k - 1], values[k])
               /\ L!Restored(c, values) = g[Len(values)]
  BY Restoring
<1>2. PICK n \in Nat : n = Len(values)
  OBVIOUS
<1> DEFINE H == {k \in 0..n : Like(c, g[k]) /\ g[k].locals = c.locals}
<1>3. 0 \in H
  BY <1>1, LikeItself
<1>4. ASSUME NEW m \in 1..n, m - 1 \in H PROVE m \in H
  <2>1. g[m - 1] \in Tables /\ values[m] \in Seq(STRING) /\ g[m] = L!changepath(g[m - 1], values[m])
    BY <1>1, <1>2, <1>4 DEF Like
  <2>2. Like(g[m - 1], g[m]) /\ g[m].locals = g[m - 1].locals
    <3>1. /\ L!changepath(g[m - 1], values[m]) \in Tables
          /\ SameFunctions(g[m - 1], L!changepath(g[m - 1], values[m]))
          /\ L!changepath(g[m - 1], values[m]).locals = g[m - 1].locals
      BY <2>1, PathChanged
    <3> QED
      BY <2>1, <3>1 DEF Like
  <2> QED
    BY <1>4, <2>2, LikeTwice
<1>5. n \in H
  <2>1. n \in Nat /\ n \in 0..n
    BY <1>2
  <2> HIDE DEF H
  <2> QED BY <2>1, <1>3, <1>4, Upward
<1> QED
  BY <1>1, <1>2, <1>5

\* The head and the tail of a sequence.
LEMMA HeadTailOf ==
    ASSUME NEW S, NEW s \in Seq(S), s # <<>>
    PROVE  /\ Head(s) \in S /\ Tail(s) \in Seq(S)
           /\ Len(Tail(s)) = Len(s) - 1
           /\ \A i \in 1..Len(s) - 1 : Tail(s)[i] = s[i + 1]
           /\ Head(s) = s[1]
  OBVIOUS

\* pushlocalvars adds a list of local variables,
LEMMA Pushed ==
    ASSUME NEW c \in Tables
    PROVE  /\ Like(c, L!pushlocalvars(c))
           /\ L!pushlocalvars(c).locals = <<<<>>>> \o c.locals
           /\ Len(L!pushlocalvars(c).locals) = Len(c.locals) + 1
<1>1. <<<<>>>> \in Seq(Seq(Seq(STRING)))
  OBVIOUS
<1>2. c.locals \in Seq(Seq(Seq(STRING)))
  BY DEF Tables
<1>3. <<<<>>>> \o c.locals \in Seq(Seq(Seq(STRING))) /\ Len(<<<<>>>> \o c.locals) = Len(c.locals) + 1
  BY <1>1, <1>2
<1>4. L!pushlocalvars(c) = [c EXCEPT !.locals = <<<<>>>> \o c.locals]
  BY DEF L!pushlocalvars, Tables
<1> HIDE DEF Tables
<1> QED
  BY <1>3, <1>4 DEF Tables, Like, SameFunctions

\* poplocalvars takes one away,
LEMMA Popped ==
    ASSUME NEW c \in Tables, NEW keep \in {0, 1}, Len(c.locals) >= 1
    PROVE  /\ Like(c, L!poplocalvars(c, keep))
           /\ L!poplocalvars(c, keep).locals = Tail(c.locals)
           /\ Len(L!poplocalvars(c, keep).locals) = Len(c.locals) - 1
<1>1. c.locals \in Seq(Seq(Seq(STRING))) /\ c.locals # <<>>
  BY DEF Tables
<1>2. Head(c.locals) \in Seq(Seq(STRING)) /\ Tail(c.locals) \in Seq(Seq(Seq(STRING)))
         /\ Len(Tail(c.locals)) = Len(c.locals) - 1
  BY <1>1, HeadTailOf
<1> DEFINE b == IF keep = 1 THEN c ELSE L!Restored(c, Head(c.locals))
<1>3. Like(c, b) /\ b.locals = c.locals
  BY <1>2, RestoredLike, LikeItself
<1>4. L!poplocalvars(c, keep) = [b EXCEPT !.locals = Tail(b.locals)]
  <2>1. b \in Tables
    BY <1>3 DEF Like
  <2>2. L!poplocalvars(c, keep) = [b EXCEPT !.locals = Tail(@)]
    BY DEF L!poplocalvars
  <2> HIDE DEF b
  <2> QED
    BY <2>1, <2>2 DEF Tables
<1> HIDE DEF b
<1>5. b \in Tables
  BY <1>3 DEF Like
<1>6. /\ L!poplocalvars(c, keep) \in Tables
      /\ L!poplocalvars(c, keep).locals = Tail(c.locals)
      /\ L!poplocalvars(c, keep).table = b.table
      /\ L!poplocalvars(c, keep).count = b.count
  BY <1>2, <1>3, <1>4, <1>5 DEF Tables
<1> QED
  BY <1>2, <1>3, <1>6 DEF Like, SameFunctions

\* and unwindlocalvars as many as there are too many: none touches a function.
LEMMA UnwoundLike ==
    ASSUME NEW c \in Tables, NEW stop \in Nat
    PROVE  /\ Like(c, L!unwindlocalvars(c, stop))
           /\ Len(c.locals) >= stop => Len(L!unwindlocalvars(c, stop).locals) = stop
<1>1. CASE ~(Len(c.locals) > stop)
  <2>1. Len(c.locals) \in Nat
    BY DEF Tables
  <2>2. L!unwindlocalvars(c, stop) = c
    BY <1>1, <2>1 DEF L!unwindlocalvars
  <2> QED
    BY <1>1, <2>1, <2>2, LikeItself
<1>2. CASE Len(c.locals) > stop
  <2>1. Len(c.locals) \in Nat /\ Len(c.locals) - stop \in Nat
    BY <1>2 DEF Tables
  <2>2. PICK g : /\ g[0] = c
                 /\ \A k \in 1..Len(c.locals) - stop : g[k] = L!poplocalvars(g[k - 1], 0)
                 /\ L!unwindlocalvars(c, stop) = g[Len(c.locals) - stop]
    BY <2>1, Unwinding
  <2>3. PICK n \in Nat : n = Len(c.locals) - stop
    BY <2>1
  <2> DEFINE H == {k \in 0..n : Like(c, g[k]) /\ Len(g[k].locals) = Len(c.locals) - k}
  <2>4. 0 \in H
    BY <2>1, <2>2, LikeItself
  <2>5. ASSUME NEW m \in 1..n, m - 1 \in H PROVE m \in H
    <3>1. g[m - 1] \in Tables /\ g[m] = L!poplocalvars(g[m - 1], 0)
      BY <2>2, <2>3, <2>5 DEF Like
    <3>2. Len(g[m - 1].locals) = Len(c.locals) - (m - 1)
      BY <2>5
    <3>3. Len(g[m - 1].locals) >= 1
      BY <2>1, <2>3, <3>2
    <3>4. Like(g[m - 1], g[m]) /\ Len(g[m].locals) = Len(g[m - 1].locals) - 1
      BY <3>1, <3>3, Popped
    <3>5. Len(g[m].locals) = Len(c.locals) - m
      BY <2>1, <3>2, <3>4
    <3> QED
      BY <2>5, <3>4, <3>5, LikeTwice
  <2>6. n \in H
    <3>1. n \in Nat /\ n \in 0..n
      BY <2>3
    <3> HIDE DEF H
    <3> QED BY <3>1, <2>4, <2>5, Upward
  <2>7. Len(c.locals) - n = stop
    BY <2>1, <2>3
  <2> QED
    BY <2>2, <2>3, <2>6, <2>7
<1> QED
  BY <1>1, <1>2

\* mklocal touches no function either.
LEMMA MadeLocal ==
    ASSUME NEW c \in Tables, NEW path \in Seq(STRING), Len(c.locals) >= 1
    PROVE  /\ Like(c, L!mklocal(c, path))
           /\ Len(L!mklocal(c, path).locals) = Len(c.locals)
<1> DEFINE b == L!changepath(c, path)
<1>1. Like(c, b) /\ b.locals = c.locals
  BY PathChanged DEF Like
<1>2. L!mklocal(c, path) = [b EXCEPT !.locals[1] = <<c.path>> \o @]
  BY DEF L!mklocal
<1> HIDE DEF b
<1>3. b \in Tables /\ c.locals \in Seq(Seq(Seq(STRING))) /\ c.path \in Seq(STRING) /\ 1 \in 1..Len(c.locals)
  BY <1>1 DEF Like, Tables
<1>4. c.locals[1] \in Seq(Seq(STRING)) /\ <<c.path>> \in Seq(Seq(STRING))
  BY <1>3
<1>5. <<c.path>> \o c.locals[1] \in Seq(Seq(STRING))
  BY <1>4
<1> DEFINE new == [c.locals EXCEPT ![1] = <<c.path>> \o c.locals[1]]
<1>6. new \in Seq(Seq(Seq(STRING))) /\ Len(new) = Len(c.locals)
  BY <1>3, <1>5
<1>7. L!mklocal(c, path) = [b EXCEPT !.locals = new]
  <2>1. b.locals = c.locals /\ DOMAIN c.locals = 1..Len(c.locals)
    BY <1>1, <1>3
  <2>2. [b EXCEPT !.locals[1] = <<c.path>> \o @]
           = [b EXCEPT !.locals = [b.locals EXCEPT ![1] = <<c.path>> \o b.locals[1]]]
    BY <1>3, <2>1 DEF Tables
  <2> QED
    BY <1>2, <2>1, <2>2
<1> HIDE DEF new
<1>8. /\ L!mklocal(c, path) \in Tables
      /\ L!mklocal(c, path).locals = new
      /\ L!mklocal(c, path).table = b.table
      /\ L!mklocal(c, path).count = b.count
  BY <1>3, <1>6, <1>7 DEF Tables
<1> QED
  BY <1>1, <1>6, <1>8 DEF Like, SameFunctions

\* The search along PATH finds no function.
LEMMA WalkedEntry ==
    ASSUME NEW c, NEW files, NEW builtin, NEW name, NEW path \in Seq(STRING), NEW prev
    PROVE  /\ L!Walk(c, files, builtin, name, path, prev) \in Entries
           /\ L!Walk(c, files, builtin, name, path, prev).type # "function"
<1> DEFINE at == {i \in 0..Len(path) - 1 :
                    \/ path[i + 1] = "%builtin" /\ builtin[name] # "none"
                    \/ path[i + 1] \notin {"", "%builtin"} /\ i = prev
                    \/ /\ path[i + 1] = "" \/ i > prev
                       /\ L!Stat(c, files, path[i + 1], name)}
           w == L!Walk(c, files, builtin, name, path, prev)
<1>1. w = IF at = {} THEN L!None
          ELSE L!Entry(IF path[L!Min(at) + 1] = "%builtin" THEN "builtin" ELSE "normal", L!Min(at))
  BY DEF L!Walk
<1>2. at \subseteq Nat
  <2>1. \A i \in at : i \in 0..Len(path) - 1
    OBVIOUS
  <2> HIDE DEF at
  <2> QED
    BY <2>1
<1> HIDE DEF at
<1>3. at # {} => \E m \in Nat : m = L!Min(at)
  BY <1>2, LMin
<1>4. CASE at = {}
  <2>1. w = L!None
    BY <1>1, <1>4
  <2> QED
    BY <2>1, NoneEntry DEF L!None
<1>5. CASE at # {}
  <2>1. w = L!Entry("builtin", L!Min(at)) \/ w = L!Entry("normal", L!Min(at))
    BY <1>1, <1>5
  <2> QED
    <3>1. PICK m \in Nat : m = L!Min(at)
      BY <1>3, <1>5
    <3>2. \A i \in Int : L!Entry("builtin", i) \in Entries /\ L!Entry("builtin", i).type = "builtin"
      BY DEF L!Entry, Entries
    <3>3. \A i \in Int : L!Entry("normal", i) \in Entries /\ L!Entry("normal", i).type = "normal"
      BY DEF L!Entry, Entries
    <3> QED
      BY <2>1, <3>1, <3>2, <3>3
<1> QED
  BY <1>4, <1>5

\* What find_command finds is a function only if the table says so; what it
\* writes into the table is not a function unless it was there.
LEMMA FoundLike ==
    ASSUME NEW c \in Tables, NEW files, NEW builtin, NEW name \in Names, NEW path \in Seq(STRING),
           NEW alt \in BOOLEAN, NEW nofunc \in BOOLEAN
    PROVE  LET found == L!find_command(c, files, builtin, name, path, alt, nofunc)
           IN  /\ Like(c, found.ct) /\ found.ct.locals = c.locals
               /\ found.ct.path = c.path /\ found.ct.cwd = c.cwd
               /\ found.entry \in Entries
               /\ found.entry.type = "function" => found.entry = c.table[name]
<1> DEFINE cached == c.table[name]
           refused == \/ cached.type = "normal" /\ alt
                      \/ cached.type = "function" /\ nofunc
                      \/ cached.type = "builtin" /\ alt /\ L!BuiltinAt(path) >= 0
           cmdp == IF refused THEN L!None ELSE cached
           update == ~alt /\ ~refused
           first == \/ builtin[name] \in {"regular", "special"}
                    \/ /\ builtin[name] = "plain"
                       /\ IF alt THEN L!BuiltinAt(path) < 0 ELSE c.builtinloc =< 0
           prev == IF ~cmdp.rehash THEN -1
                   ELSE IF cmdp.type = "builtin" THEN c.builtinloc ELSE cmdp.index
           found == IF cmdp.type # "none" /\ ~cmdp.rehash THEN cmdp
                    ELSE IF first THEN L!Entry("builtin", -1)
                    ELSE L!Walk(c, files, builtin, name, path, prev)
           settled == IF found.type = "builtin" THEN L!Entry("builtin", -1) ELSE found
           result == L!find_command(c, files, builtin, name, path, alt, nofunc)
<1>1. result = [entry |-> settled,
                ct |-> IF update THEN [c EXCEPT !.table[name] = settled] ELSE c]
  BY DEF L!find_command
<1>2. cached \in Entries
  BY DEF Tables
<1>3. cmdp \in Entries /\ (cmdp.type = "function" => cmdp = cached)
  BY <1>2, NoneEntry DEF L!None
<1>4. L!Entry("builtin", -1) \in Entries /\ L!Entry("builtin", -1).type = "builtin"
  BY DEF L!Entry, Entries
<1>5. /\ L!Walk(c, files, builtin, name, path, prev) \in Entries
      /\ L!Walk(c, files, builtin, name, path, prev).type # "function"
  <2>1. \A p : /\ L!Walk(c, files, builtin, name, path, p) \in Entries
               /\ L!Walk(c, files, builtin, name, path, p).type # "function"
    BY WalkedEntry
  <2> HIDE DEF prev
  <2> QED BY <2>1
<1>6. \/ found = cmdp /\ cmdp.type # "none"
      \/ found = L!Entry("builtin", -1)
      \/ found = L!Walk(c, files, builtin, name, path, prev)
  <2> HIDE DEF prev, cmdp, first
  <2> QED OBVIOUS
<1> HIDE DEF found, prev
<1>7. found \in Entries /\ (found.type = "function" => found = cached)
  BY <1>3, <1>4, <1>5, <1>6
<1>8. settled \in Entries /\ (settled.type = "function" => settled = cached)
  BY <1>4, <1>7
<1>9. update /\ cached.type = "function" => settled = cached
  <2> SUFFICES ASSUME update, cached.type = "function" PROVE settled = cached
    OBVIOUS
  <2>1. cmdp = cached
    OBVIOUS
  <2>2. ~cached.rehash
    BY <1>2, EntryKinds DEF L!Entry
  <2>3. found = cached
    <3>1. cmdp.type # "none" /\ ~cmdp.rehash
      BY <2>1, <2>2
    <3> QED
      BY <2>1, <3>1 DEF found
  <2> QED
    BY <2>3
<1>10. result.entry = settled
  BY <1>1
<1>11. CASE ~update
  <2>1. result.ct = c
    BY <1>1, <1>11
  <2> QED
    BY <1>8, <1>10, <2>1, LikeItself
<1>12. CASE update
  <2>1. result.ct = [c EXCEPT !.table[name] = settled]
    BY <1>1, <1>12
  <2>2. \A e \in Entries, f \in FuncIds : e = L!Entry("function", f) => e.type = "function"
    BY EntryKinds
  <2>3. settled = cached \/ (settled.type # "function" /\ cached.type # "function")
    BY <1>8, <1>9, <1>12
  <2> HIDE DEF settled, cached
  <2>4. /\ result.ct \in Tables /\ result.ct.locals = c.locals
        /\ result.ct.path = c.path /\ result.ct.cwd = c.cwd /\ result.ct.count = c.count
        /\ \A n \in Names : result.ct.table[n] = IF n = name THEN settled ELSE c.table[n]
    <3>1. c.table \in [Names -> Entries] /\ DOMAIN c.table = Names
      BY DEF Tables
    <3>2. PICK table : table = [c.table EXCEPT ![name] = settled]
      OBVIOUS
    <3>3. table \in [Names -> Entries] /\ \A n \in Names : table[n] = IF n = name THEN settled ELSE c.table[n]
      BY <1>8, <3>1, <3>2
    <3> HIDE DEF result
    <3>4. result.ct = [c EXCEPT !.table = table]
      BY <2>1, <3>2
    <3>5. /\ result.ct \in Tables /\ result.ct.locals = c.locals
          /\ result.ct.path = c.path /\ result.ct.cwd = c.cwd /\ result.ct.count = c.count
          /\ result.ct.table = table
      BY <3>3, <3>4 DEF Tables
    <3> QED
      BY <3>3, <3>5
  <2>5. SameFunctions(c, result.ct)
    BY <1>2, <1>8, <2>2, <2>3, <2>4 DEF SameFunctions, cached
  <2> QED
    BY <1>8, <1>10, <2>4, <2>5 DEF Like, cached
<1> QED
  BY <1>11, <1>12

\* hashcd touches no function, nor PATH.
LEMMA CdLike ==
    ASSUME NEW c \in Tables, NEW builtin
    PROVE  /\ Like(c, L!hashcd(c, builtin)) /\ L!hashcd(c, builtin).locals = c.locals
           /\ L!hashcd(c, builtin).path = c.path /\ L!hashcd(c, builtin).builtinloc = c.builtinloc
<1> DEFINE d == L!hashcd(c, builtin)
           gone(n) == \/ c.table[n].type = "normal"
                      \/ c.table[n].type = "builtin" /\ builtin[n] = "plain" /\ c.builtinloc > 0
<1>1. d = [c EXCEPT !.table = [n \in Names |->
               IF gone(n) THEN [c.table[n] EXCEPT !.rehash = TRUE] ELSE c.table[n]]]
  BY DEF L!hashcd, Tables
<1>2. \A n \in Names : c.table[n] \in Entries
  BY DEF Tables
<1>3. ASSUME NEW n \in Names
      PROVE  \/ d.table[n] = c.table[n]
             \/ /\ c.table[n].type # "function" /\ d.table[n].type # "function"
                /\ d.table[n] \in Entries
  <2>1. CASE gone(n)
    <3>1. c.table[n].type # "function" /\ c.table[n] \in Entries
      BY <1>2, <2>1
    <3>2. c.table[n] \in [type : {"none", "normal", "builtin"}, index : Int, rehash : BOOLEAN]
      BY <3>1, EntryKinds
    <3>3. d.table[n] = [c.table[n] EXCEPT !.rehash = TRUE]
      BY <1>1, <2>1 DEF Tables
    <3>4. d.table[n] \in [type : {"none", "normal", "builtin"}, index : Int, rehash : BOOLEAN]
      BY <3>2, <3>3
    <3> QED
      BY <3>1, <3>4 DEF Entries
  <2>2. CASE ~gone(n)
    BY <1>1, <2>2 DEF Tables
  <2> QED
    BY <2>1, <2>2
<1>4. /\ d.count = c.count /\ d.locals = c.locals /\ d.path = c.path /\ d.builtinloc = c.builtinloc
      /\ d = [c EXCEPT !.table = d.table] /\ d.table = [n \in Names |-> d.table[n]]
  BY <1>1 DEF Tables
<1> HIDE DEF d
<1>5. d.table \in [Names -> Entries]
  BY <1>2, <1>3, <1>4
<1>6. d \in Tables
  BY <1>4, <1>5 DEF Tables
<1>7. \A n \in Names, f \in FuncIds :
          d.table[n] = L!Entry("function", f) <=> c.table[n] = L!Entry("function", f)
  BY <1>2, <1>3, EntryKinds
<1> QED
  BY <1>4, <1>6, <1>7 DEF Like, SameFunctions, d

\* Nor does hashcmd.
LEMMA HashedLike ==
    ASSUME NEW c \in Tables, NEW files, NEW builtin, NEW name \in Names
    PROVE  /\ Like(c, L!hashcmd(c, files, builtin, name))
           /\ L!hashcmd(c, files, builtin, name).locals = c.locals
<1> DEFINE e == c.table[name]
           forgets == e.type = "normal" \/ (e.type = "builtin" /\ c.builtinloc >= 0)
           dropped == IF forgets THEN L!delete_cmd_entry(c, name) ELSE c
<1>1. L!hashcmd(c, files, builtin, name)
        = L!find_command(dropped, files, builtin, name, c.path, FALSE, FALSE).ct
  BY DEF L!hashcmd
<1>2. Like(c, dropped) /\ dropped.locals = c.locals
  <2>1. CASE ~forgets
    BY <2>1, LikeItself
  <2>2. CASE forgets
    <3>1. e.type # "function" /\ e \in Entries
      BY <2>2 DEF Tables
    <3>2. dropped = [c EXCEPT !.table[name] = L!None]
      BY <2>2, <3>1 DEF L!delete_cmd_entry
    <3> HIDE DEF dropped
    <3>3. /\ dropped \in Tables /\ dropped.locals = c.locals /\ dropped.count = c.count
          /\ \A n \in Names : dropped.table[n] = IF n = name THEN L!None ELSE c.table[n]
      BY <3>2, NoneEntry DEF Tables
    <3>4. \A f \in FuncIds : c.table[name] # L!Entry("function", f) /\ L!None # L!Entry("function", f)
      BY <3>1, NoneEntry, EntryKinds
    <3> QED
      BY <3>3, <3>4 DEF Like, SameFunctions
  <2> QED
    BY <2>1, <2>2
<1> HIDE DEF dropped
<1>3. dropped \in Tables /\ c.path \in Seq(STRING)
  BY <1>2 DEF Like, Tables
<1>4. \A alt \in BOOLEAN, nofunc \in BOOLEAN :
         Like(dropped, L!find_command(dropped, files, builtin, name, c.path, alt, nofunc).ct)
           /\ L!find_command(dropped, files, builtin, name, c.path, alt, nofunc).ct.locals = dropped.locals
  BY <1>3, FoundLike
<1> QED
  BY <1>1, <1>2, <1>4, LikeTwice

\* A function body loses a reference.
LEMMA FreedTable ==
    ASSUME NEW c \in Tables, NEW f \in FuncIds
    PROVE  /\ L!freefunc(c, f) \in Tables
           /\ L!freefunc(c, f).table = c.table /\ L!freefunc(c, f).locals = c.locals
           /\ \A h \in FuncIds : L!freefunc(c, f).count[h] = IF h = f THEN c.count[h] - 1 ELSE c.count[h]
<1> DEFINE count == [c.count EXCEPT ![f] = @ - 1]
<1>1. c.count \in [FuncIds -> Int]
  BY DEF Tables
<1>2. count \in [FuncIds -> Int] /\ \A h \in FuncIds : count[h] = IF h = f THEN c.count[h] - 1 ELSE c.count[h]
  BY <1>1
<1>3. L!freefunc(c, f) = [c EXCEPT !.count = count]
  BY DEF L!freefunc, Tables
<1> HIDE DEF count
<1>4. L!freefunc(c, f) \in Tables
  BY <1>2, <1>3 DEF Tables
<1>5. /\ L!freefunc(c, f).table = c.table /\ L!freefunc(c, f).locals = c.locals
      /\ L!freefunc(c, f).count = count
  BY <1>3 DEF Tables
<1> QED
  BY <1>2, <1>4, <1>5

(***************************************************************************)
(* Redirections: the list of what commands have saved stays a sequence,    *)
(* and as long as commands push and pop.                                   *)
(***************************************************************************)
Descs(r) == DOMAIN r = {"open", "list"} /\ \E S : r.list \in Seq(S)

\* A sequence with another first element.
LEMMA ReplacedFirst ==
    ASSUME NEW S, NEW s \in Seq(S), NEW x
    PROVE  /\ [s EXCEPT ![1] = x] \in Seq(S \cup {x})
           /\ Len([s EXCEPT ![1] = x]) = Len(s)
<1> DEFINE T == S \cup {x}
           e == [s EXCEPT ![1] = x]
<1>1. s \in Seq(T) /\ x \in T
  OBVIOUS
<1> HIDE DEF T
<1>2. PICK n \in Nat : n = Len(s)
  OBVIOUS
<1>3. s \in [1..n -> T]
  BY <1>1, <1>2
<1>4. e \in [1..n -> T]
  BY <1>1, <1>3
<1> HIDE DEF e
<1>5. e \in Seq(T) /\ Len(e) = n
  BY <1>4
<1> QED
  BY <1>2, <1>5 DEF T, e

\* What redirect returns, with n entries on the list.
Done(done, n) == DOMAIN done = {"rd", "err"} /\ Descs(done.rd) /\ Len(done.rd.list) = n

\* One redirection leaves as many tables as there were.
LEMMA RedirectedList ==
    ASSUME NEW done, NEW r, NEW n, Done(done, n)
    PROVE  Done(R!Redirected(done, r), n)
<1> DEFINE o == R!openredirect(done.rd.open, r)
           old == Head(done.rd.list)[r.fd]
           saves == old = R!EMPTY /\ o.fd # r.fd
           s == IF saves THEN R!savefd(o.open, r.fd)
                ELSE [fd |-> IF old = R!EMPTY THEN R!CLOSED ELSE old, open |-> o.open]
           v == IF s.fd = o.fd THEN R!REALLY_CLOSED ELSE s.fd
           kept == [done.rd EXCEPT !.open = s.open, !.list[1][r.fd] = v]
           x == [done.rd.list[1] EXCEPT ![r.fd] = v]
           next == R!Redirected(done, r)
<1>1. next = IF done.err \/ (r.type # "fail" /\ o.fd = R!NoFd) THEN done
             ELSE IF r.type = "fail" THEN [done EXCEPT !.err = TRUE]
             ELSE IF o.fd = r.fd /\ ~saves THEN [done EXCEPT !.rd = kept]
             ELSE IF R!Bad(s.open, r, o.fd) THEN [rd |-> kept, err |-> TRUE]
             ELSE [done EXCEPT !.rd = [kept EXCEPT !.open = R!dupredirect(s.open, r, o.fd)]]
  BY DEF R!Redirected
<1> DEFINE last == [kept EXCEPT !.open = R!dupredirect(s.open, r, o.fd)]
<1>2. \/ next = done
      \/ next = [done EXCEPT !.err = TRUE]
      \/ next = [done EXCEPT !.rd = kept]
      \/ next = [rd |-> kept, err |-> TRUE]
      \/ next = [done EXCEPT !.rd = last]
  <2> HIDE DEF o, old, saves, s, v, kept
  <2> QED BY <1>1
<1> HIDE DEF o, old, saves, s, v, next
<1>3. DOMAIN kept = {"open", "list"} /\ kept.list = [done.rd.list EXCEPT ![1] = x]
  BY DEF Done, Descs
<1> HIDE DEF x, kept
<1>4. DOMAIN last = {"open", "list"} /\ last.list = [done.rd.list EXCEPT ![1] = x]
  BY <1>3
<1>5. PICK S : done.rd.list \in Seq(S)
  BY DEF Done, Descs
<1> DEFINE list == [done.rd.list EXCEPT ![1] = x]
<1>6. list \in Seq(S \cup {x}) /\ Len(list) = n
  BY <1>5, ReplacedFirst DEF Done
<1> HIDE DEF list, last
<1>7. Descs(kept) /\ Len(kept.list) = n /\ Descs(last) /\ Len(last.list) = n
  BY <1>3, <1>4, <1>6 DEF Descs, list
<1>8. \A k : Descs(k) /\ Len(k.list) = n => Done([done EXCEPT !.rd = k], n)
  BY DEF Done
<1>9. Done([done EXCEPT !.err = TRUE], n)
  BY DEF Done
<1>10. Done([rd |-> kept, err |-> TRUE], n)
  BY <1>7 DEF Done
<1> HIDE DEF Done
<1> QED
  BY <1>2, <1>7, <1>8, <1>9, <1>10 DEF next

Begun(r) == [rd |-> r, err |-> FALSE]
RedirectSteps(g, r, redirs, m) ==
    g = [k \in 0..m |-> IF k = 0 THEN Begun(r) ELSE R!Redirected(g[k - 1], redirs[k])]

\* redirect is a chain of single redirections, of any length.
LEMMA RedirectedSteps ==
    ASSUME NEW r, NEW redirs, NEW n \in Nat
    PROVE  \E g : RedirectSteps(g, r, redirs, n)
<1> DEFINE Steps(g, m) == RedirectSteps(g, r, redirs, m)
           H == {m \in 0..n : \E g : Steps(g, m)}
<1>1. 0 \in H
  <2>1. Steps([k \in 0..0 |-> Begun(r)], 0)
    BY DEF RedirectSteps
  <2> HIDE DEF Steps
  <2> QED
    BY <2>1
<1>2. ASSUME NEW m \in 1..n, m - 1 \in H
      PROVE  m \in H
  <2>1. PICK g : Steps(g, m - 1)
    BY <1>2
  <2> DEFINE h == [k \in 0..m |-> IF k = 0 THEN Begun(r) ELSE R!Redirected(g[k - 1], redirs[k])]
  <2>2. \A k \in 0..m - 1 : g[k] = IF k = 0 THEN Begun(r) ELSE R!Redirected(g[k - 1], redirs[k])
    BY <2>1 DEF RedirectSteps
  <2>3. \A k \in 0..m - 1 : h[k] = g[k]
    BY <2>2
  <2>4. \A k \in 0..m : k # 0 => k - 1 \in 0..m - 1
    OBVIOUS
  <2>5. Steps(h, m)
    BY <2>3, <2>4 DEF RedirectSteps
  <2> HIDE DEF Steps, h
  <2> QED
    BY <2>5
<1>3. n \in H
  <2> HIDE DEF H
  <2> QED BY <1>1, <1>2, Upward
<1> QED
  BY <1>3

\* What redirect returns is the end of such a chain.
LEMMA Redirecting ==
    ASSUME NEW r, NEW redirs, Len(redirs) \in Nat
    PROVE  \E g : /\ g[0] = Begun(r)
                  /\ \A k \in 1..Len(redirs) : g[k] = R!Redirected(g[k - 1], redirs[k])
                  /\ R!redirect(r, redirs) = g[Len(redirs)]
<1> DEFINE n == Len(redirs)
           Steps(g) == g = [k \in 0..n |-> IF k = 0 THEN [rd |-> r, err |-> FALSE]
                                           ELSE R!Redirected(g[k - 1], redirs[k])]
           Left == CHOOSE g : Steps(g)
<1>1. R!redirect(r, redirs) = Left[n]
  BY DEF R!redirect
<1>2. n \in Nat
  OBVIOUS
<1> HIDE DEF n
<1>3. \E g : Steps(g)
  <2>1. \E g : RedirectSteps(g, r, redirs, n)
    BY <1>2, RedirectedSteps
  <2> QED
    BY <2>1 DEF RedirectSteps, Begun
<1>4. Steps(Left)
  <2> HIDE DEF Steps
  <2> QED BY <1>3
<1> HIDE DEF Left
<1>5. Left = [k \in 0..n |-> IF k = 0 THEN Begun(r) ELSE R!Redirected(Left[k - 1], redirs[k])]
  BY <1>4 DEF Begun
<1>6. Left[0] = Begun(r)
  BY <1>2, <1>5
<1>7. \A k \in 1..n : Left[k] = R!Redirected(Left[k - 1], redirs[k])
  BY <1>2, <1>5
<1> QED
  BY <1>1, <1>6, <1>7 DEF n

\* redirect leaves as many tables as there were.
LEMMA RedirectList ==
    ASSUME NEW r, Descs(r), NEW redirs, Len(redirs) \in Nat
    PROVE  Done(R!redirect(r, redirs), Len(r.list))
<1>1. PICK g : /\ g[0] = Begun(r)
               /\ \A k \in 1..Len(redirs) : g[k] = R!Redirected(g[k - 1], redirs[k])
               /\ R!redirect(r, redirs) = g[Len(redirs)]
  BY Redirecting
<1>2. PICK n \in Nat : n = Len(redirs)
  OBVIOUS
<1> DEFINE H == {k \in 0..n : Done(g[k], Len(r.list))}
<1>3. 0 \in H
  BY <1>1 DEF Done, Begun
<1>4. ASSUME NEW m \in 1..n, m - 1 \in H PROVE m \in H
  <2>1. g[m] = R!Redirected(g[m - 1], redirs[m])
    BY <1>1, <1>2
  <2>2. Done(g[m - 1], Len(r.list))
    BY <1>4
  <2>3. Done(R!Redirected(g[m - 1], redirs[m]), Len(r.list))
    BY <2>2, RedirectedList
  <2> QED
    BY <2>1, <2>3
<1>5. n \in H
  <2>1. n \in Nat /\ n \in 0..n
    BY <1>2
  <2> HIDE DEF H
  <2> QED BY <2>1, <1>3, <1>4, Upward
<1> QED
  BY <1>1, <1>2, <1>5

(***************************************************************************)
(* Sequences                                                               *)
(***************************************************************************)
LEMMA AppendIs ==
    ASSUME NEW S, NEW s \in Seq(S), NEW x \in S
    PROVE  /\ Append(s, x) \in Seq(S) /\ Len(Append(s, x)) = Len(s) + 1
           /\ \A i \in 1..Len(s) : Append(s, x)[i] = s[i]
           /\ Append(s, x)[Len(s) + 1] = x /\ Last(Append(s, x)) = x
  BY DEF Last

\* The first n elements of a sequence.
LEMMA FirstPart ==
    ASSUME NEW S, NEW s \in Seq(S), NEW n \in 0..Len(s)
    PROVE  /\ SubSeq(s, 1, n) \in Seq(S) /\ Len(SubSeq(s, 1, n)) = n
           /\ \A i \in 1..n : SubSeq(s, 1, n)[i] = s[i]
  OBVIOUS

\* The front and the last element of a sequence.
LEMMA FrontIs ==
    ASSUME NEW S, NEW s \in Seq(S), s # <<>>
    PROVE  /\ Front(s) \in Seq(S) /\ Len(Front(s)) = Len(s) - 1
           /\ \A i \in 1..Len(s) - 1 : Front(s)[i] = s[i]
           /\ Last(s) = s[Len(s)] /\ Last(s) \in S /\ Len(s) \in Nat \ {0}
<1>1. Len(s) \in Nat /\ Len(s) # 0
  OBVIOUS
<1>2. Len(s) - 1 \in 0..Len(s) /\ Len(s) \in 1..Len(s)
  BY <1>1
<1>3. s[Len(s)] \in S
  BY <1>2
<1> QED
  BY <1>1, <1>2, <1>3, FirstPart DEF Front, Last

\* pushredir adds a table,
LEMMA PushedList ==
    ASSUME NEW r, Descs(r)
    PROVE  Descs(R!pushredir(r)) /\ Len(R!pushredir(r).list) = Len(r.list) + 1
<1>1. PICK S : r.list \in Seq(S)
  BY DEF Descs
<1> DEFINE x == [n \in UserFds |-> R!EMPTY]
           T == S \cup {x}
<1>2. x \in T /\ r.list \in Seq(T)
  BY <1>1
<1> HIDE DEF x, T
<1>3. <<x>> \o r.list \in Seq(T) /\ Len(<<x>> \o r.list) = Len(r.list) + 1
  BY <1>2
<1>4. R!pushredir(r) = [r EXCEPT !.list = <<x>> \o r.list]
  BY DEF R!pushredir, Descs, x
<1>5. DOMAIN R!pushredir(r) = {"open", "list"} /\ R!pushredir(r).list = <<x>> \o r.list
  BY <1>4 DEF Descs
<1> QED
  BY <1>3, <1>5 DEF Descs

\* popredir takes one away,
LEMMA PoppedList ==
    ASSUME NEW r, Descs(r), NEW drop, Len(r.list) >= 1
    PROVE  Descs(R!popredir(r, drop)) /\ Len(R!popredir(r, drop).list) = Len(r.list) - 1
<1>1. PICK S : r.list \in Seq(S)
  BY DEF Descs
<1>2. r.list # <<>>
  BY <1>1
<1>3. Tail(r.list) \in Seq(S) /\ Len(Tail(r.list)) = Len(r.list) - 1
  BY <1>1, <1>2, HeadTailOf
<1>4. DOMAIN R!popredir(r, drop) = {"open", "list"} /\ R!popredir(r, drop).list = Tail(r.list)
  BY DEF R!popredir
<1> QED
  BY <1>3, <1>4 DEF Descs

PopRedirSteps(g, r, m) == g = [k \in 0..m |-> IF k = 0 THEN r ELSE R!popredir(g[k - 1], 0)]

\* unwindredir is a chain of calls of popredir, of any length;
LEMMA PoppedRedirSteps ==
    ASSUME NEW r, NEW n \in Nat
    PROVE  \E g : PopRedirSteps(g, r, n)
<1> DEFINE Steps(g, m) == PopRedirSteps(g, r, m)
           H == {m \in 0..n : \E g : Steps(g, m)}
<1>1. 0 \in H
  <2>1. Steps([k \in 0..0 |-> r], 0)
    BY DEF PopRedirSteps
  <2> HIDE DEF Steps
  <2> QED
    BY <2>1
<1>2. ASSUME NEW m \in 1..n, m - 1 \in H
      PROVE  m \in H
  <2>1. PICK g : Steps(g, m - 1)
    BY <1>2
  <2> DEFINE h == [k \in 0..m |-> IF k = 0 THEN r ELSE R!popredir(g[k - 1], 0)]
  <2>2. \A k \in 0..m - 1 : g[k] = IF k = 0 THEN r ELSE R!popredir(g[k - 1], 0)
    BY <2>1 DEF PopRedirSteps
  <2>3. \A k \in 0..m - 1 : h[k] = g[k]
    BY <2>2
  <2>4. \A k \in 0..m : k # 0 => k - 1 \in 0..m - 1
    OBVIOUS
  <2>5. Steps(h, m)
    BY <2>3, <2>4 DEF PopRedirSteps
  <2> HIDE DEF Steps, h
  <2> QED
    BY <2>5
<1>3. n \in H
  <2> HIDE DEF H
  <2> QED BY <1>1, <1>2, Upward
<1> QED
  BY <1>3

\* what it returns is the end of such a chain,
LEMMA UnwindingRedirs ==
    ASSUME NEW r, NEW stop, Len(r.list) - stop \in Nat
    PROVE  \E g : /\ g[0] = r
                  /\ \A k \in 1..Len(r.list) - stop : g[k] = R!popredir(g[k - 1], 0)
                  /\ R!unwindredir(r, stop) = g[Len(r.list) - stop]
<1> DEFINE n == Len(r.list) - stop
           Steps(g) == g = [k \in 0..n |-> IF k = 0 THEN r ELSE R!popredir(g[k - 1], 0)]
           Left == CHOOSE g : Steps(g)
<1>1. R!unwindredir(r, stop) = IF n =< 0 THEN r ELSE Left[n]
  BY DEF R!unwindredir
<1>2. n \in Nat
  OBVIOUS
<1> HIDE DEF n
<1>3. \E g : Steps(g)
  <2>1. \E g : PopRedirSteps(g, r, n)
    BY <1>2, PoppedRedirSteps
  <2> QED
    BY <2>1 DEF PopRedirSteps
<1>4. Steps(Left)
  <2> HIDE DEF Steps
  <2> QED BY <1>3
<1> HIDE DEF Left
<1>5. Left[0] = r
  BY <1>2, <1>4
<1>6. \A k \in 1..n : Left[k] = R!popredir(Left[k - 1], 0)
  BY <1>2, <1>4
<1>7. R!unwindredir(r, stop) = Left[n]
  BY <1>1, <1>2, <1>5
<1> QED
  BY <1>5, <1>6, <1>7 DEF n

\* and it takes away as many tables as there are too many.
LEMMA UnwoundList ==
    ASSUME NEW r, Descs(r), NEW stop \in Nat, Len(r.list) >= stop
    PROVE  Descs(R!unwindredir(r, stop)) /\ Len(R!unwindredir(r, stop).list) = stop
<1>1. PICK len \in Nat : len = Len(r.list)
  BY DEF Descs
<1>2. Len(r.list) - stop \in Nat
  BY <1>1
<1>3. PICK g : /\ g[0] = r
               /\ \A k \in 1..Len(r.list) - stop : g[k] = R!popredir(g[k - 1], 0)
               /\ R!unwindredir(r, stop) = g[Len(r.list) - stop]
  BY <1>2, UnwindingRedirs
<1>4. PICK n \in Nat : n = Len(r.list) - stop
  BY <1>2
<1> DEFINE H == {k \in 0..n : Descs(g[k]) /\ Len(g[k].list) = len - k}
<1>5. 0 \in H
  BY <1>1, <1>3
<1>6. ASSUME NEW m \in 1..n, m - 1 \in H PROVE m \in H
  <2>1. g[m] = R!popredir(g[m - 1], 0) /\ Descs(g[m - 1])
    BY <1>3, <1>4, <1>6
  <2>2. Len(g[m - 1].list) = len - (m - 1)
    BY <1>6
  <2>3. len - (m - 1) >= 1 /\ len - (m - 1) - 1 = len - m
    BY <1>1, <1>4
  <2>4. Descs(R!popredir(g[m - 1], 0)) /\ Len(R!popredir(g[m - 1], 0).list) = len - m
    BY <2>1, <2>2, <2>3, PoppedList
  <2> QED
    BY <2>1, <2>4
<1>7. n \in H
  <2>1. n \in Nat /\ n \in 0..n
    BY <1>4
  <2> HIDE DEF H
  <2> QED BY <2>1, <1>5, <1>6, Upward
<1>8. len - n = stop
  BY <1>1, <1>4
<1> QED
  BY <1>3, <1>4, <1>7, <1>8

(***************************************************************************)
(* What the stack, the parameters and their blocks are, and who owns what. *)
(***************************************************************************)
Seen == {Same, Closed, File, Terminal}
Opts == STRING \cup {"end", "?"} \* is STRING
Reads == [opt : Opts, arg : Seq(STRING) \cup Nat]
ParamTypes == [malloc : BOOLEAN, block : Nat, words : Seq(Seq(STRING)),
               at : [ind : Nat \ {0}, off : Int], read : Seq(Reads)]
Frames ==
    {f \in [kind : {"top", "function", "eval", "dot", "group", "loop"}, special : BOOLEAN,
            redirs : BOOLEAN, sees : [UserFds -> Seen], stop : Nat, lstop : Nat, input : Nat,
            func : FuncIds \cup {0}, params : ParamTypes] :
        /\ f.kind = "function" => f.func \in FuncIds
        /\ f.kind = "loop" => ~f.redirs
        /\ f.kind = "group" => f.redirs}

\* The names of a function in the table, and the calls of it that run.
Named(c, f) == {n \in Names : c.table[n] = L!Entry("function", f)}
Calls(stk, f) == {i \in 1..Len(stk) : stk[i].kind = "function" /\ stk[i].func = f}

\* Each reference to a function is counted.
CountsRight(c, stk) == \A f \in FuncIds :
    /\ IsFiniteSet(Named(c, f))
    /\ c.count[f] + 1 = Cardinality(Named(c, f)) + Cardinality(Calls(stk, f))

\* Who has parameters on the heap: the shell, 0, and functions that wait for
\* the end of the one they are at the place of.
Heap(p, stk) == {i \in 0..Len(stk) : IF i = 0 THEN p.malloc
                                     ELSE stk[i].kind = "function" /\ stk[i].params.malloc}
BlockOf(p, stk, i) == IF i = 0 THEN p.block ELSE stk[i].params.block

\* Each has a block of its own, and no block is left without an owner.
BlocksRight(p, stk, live) ==
    /\ \A i \in Heap(p, stk) : BlockOf(p, stk, i) \in live
    /\ \A i, j \in Heap(p, stk) : BlockOf(p, stk, i) = BlockOf(p, stk, j) => i = j
    /\ \A b \in live : \E i \in Heap(p, stk) : BlockOf(p, stk, i) = b

\* Both, for what an error has left of the commands that ran.
HeldRight(held, stk, locals) ==
    /\ DOMAIN held = {"params", "blocks", "ct"}
    /\ held.params \in ParamTypes /\ held.blocks \subseteq 1..MaxBlocks
    /\ held.ct \in Tables /\ Len(held.ct.locals) = locals
    /\ CountsRight(held.ct, stk)
    /\ BlocksRight(held.params, stk, held.blocks)

\* What the fields of a frame can be.
LEMMA FrameFields ==
    ASSUME NEW f \in Frames
    PROVE  /\ DOMAIN f = {"kind", "special", "redirs", "sees", "stop", "lstop", "input", "func", "params"}
           /\ f.kind \in {"top", "function", "eval", "dot", "group", "loop"}
           /\ f.special \in BOOLEAN /\ f.redirs \in BOOLEAN /\ f.sees \in [UserFds -> Seen]
           /\ f.stop \in Nat /\ f.lstop \in Nat /\ f.input \in Nat /\ f.func \in FuncIds \cup {0}
           /\ f.params \in ParamTypes
           /\ f.kind = "function" => f.func \in FuncIds
           /\ f.kind = "loop" => ~f.redirs
           /\ f.kind = "group" => f.redirs
  BY DEF Frames

\* The calls of a function are finitely many.
LEMMA CallsFinite ==
    ASSUME NEW stk \in Seq(Frames), NEW f
    PROVE  IsFiniteSet(Calls(stk, f)) /\ Cardinality(Calls(stk, f)) \in Nat
<1>1. Calls(stk, f) \subseteq 1..Len(stk) /\ IsFiniteSet(1..Len(stk))
  BY FS_Interval DEF Calls
<1>2. IsFiniteSet(Calls(stk, f))
  BY <1>1, FS_Subset
<1> QED
  BY <1>2, FS_CardinalityType

\* The calls without the innermost command,
LEMMA CallsFront ==
    ASSUME NEW stk \in Seq(Frames), stk # <<>>, NEW f
    PROVE  Calls(stk, f) = IF Last(stk).kind = "function" /\ Last(stk).func = f
                           THEN Calls(Front(stk), f) \cup {Len(stk)} ELSE Calls(Front(stk), f)
<1>1. PICK n \in Nat \ {0} : n = Len(stk)
  BY FrontIs
<1>2. /\ Len(Front(stk)) = n - 1 /\ Last(stk) = stk[n]
      /\ \A i \in 1..n - 1 : Front(stk)[i] = stk[i]
  BY <1>1, FrontIs
<1>3. 1..n = (1..n - 1) \cup {n}
  BY <1>1
<1> QED
  BY <1>1, <1>2, <1>3 DEF Calls

\* and with one command more.
LEMMA CallsPushed ==
    ASSUME NEW stk \in Seq(Frames), NEW x \in Frames, NEW f
    PROVE  Calls(Append(stk, x), f) = IF x.kind = "function" /\ x.func = f
                                      THEN Calls(stk, f) \cup {Len(stk) + 1} ELSE Calls(stk, f)
<1>1. PICK n \in Nat : n = Len(stk)
  OBVIOUS
<1>2. /\ Len(Append(stk, x)) = n + 1 /\ Append(stk, x)[n + 1] = x
      /\ \A i \in 1..n : Append(stk, x)[i] = stk[i]
  BY <1>1, AppendIs
<1>3. 1..n + 1 = (1..n) \cup {n + 1}
  BY <1>1
<1> QED
  BY <1>1, <1>2, <1>3 DEF Calls

\* Outside of the stack is no call.
LEMMA CallsWithin ==
    ASSUME NEW stk \in Seq(Frames), NEW f
    PROVE  Len(stk) + 1 \notin Calls(stk, f) /\ (stk # <<>> => Len(stk) \notin Calls(Front(stk), f))
<1>1. PICK n \in Nat : n = Len(stk)
  OBVIOUS
<1>2. n + 1 \notin 1..n /\ n \notin 1..n - 1
  OBVIOUS
<1>3. stk # <<>> => Len(Front(stk)) = n - 1
  BY <1>1, FrontIs
<1> QED
  BY <1>1, <1>2, <1>3 DEF Calls

\* What the functions own, or count, does not depend on what commands make
\* of the descriptors.
Alike(s, t) ==
    /\ Len(t) = Len(s)
    /\ \A i \in 1..Len(s) :
          /\ t[i].kind = s[i].kind /\ t[i].special = s[i].special /\ t[i].redirs = s[i].redirs
          /\ t[i].stop = s[i].stop /\ t[i].lstop = s[i].lstop /\ t[i].input = s[i].input
          /\ t[i].func = s[i].func /\ t[i].params = s[i].params

\* The counts go by what stays when exec changes what commands see,
LEMMA CountsAlike ==
    ASSUME NEW c, NEW s \in Seq(Frames), NEW t \in Seq(Frames), Alike(s, t), CountsRight(c, s)
    PROVE  CountsRight(c, t)
<1>1. ASSUME NEW f \in FuncIds PROVE Calls(t, f) = Calls(s, f)
  BY DEF Calls, Alike
<1> QED
  BY <1>1 DEF CountsRight

\* and so do the owners of the arguments.
LEMMA BlocksAlike ==
    ASSUME NEW p, NEW s \in Seq(Frames), NEW t \in Seq(Frames), NEW live, Alike(s, t), BlocksRight(p, s, live)
    PROVE  BlocksRight(p, t, live)
<1>1. Heap(p, t) = Heap(p, s)
  BY DEF Heap, Alike
<1>2. \A i \in Heap(p, s) : BlockOf(p, t, i) = BlockOf(p, s, i)
  BY DEF Heap, BlockOf, Alike
<1> QED
  BY <1>1, <1>2 DEF BlocksRight

\* Functions are counted as before where the table says the same of them.
LEMMA CountsLike ==
    ASSUME NEW c, NEW d, NEW stk, SameFunctions(c, d), CountsRight(c, stk)
    PROVE  CountsRight(d, stk)
<1>1. ASSUME NEW f \in FuncIds PROVE Named(d, f) = Named(c, f)
  BY DEF Named, SameFunctions
<1> QED
  BY <1>1 DEF CountsRight, SameFunctions

\* funcdone gives back what the innermost function counted as.
LEMMA CountsDone ==
    ASSUME NEW c \in Tables, NEW stk \in Seq(Frames), stk # <<>>, Last(stk).kind = "function",
           CountsRight(c, stk)
    PROVE  CountsRight(L!freefunc(c, Last(stk).func), Front(stk))
<1> DEFINE d == L!freefunc(c, Last(stk).func)
<1>1. Last(stk).func \in FuncIds
  BY FrontIs, FrameFields
<1>2. /\ d.table = c.table
      /\ \A h \in FuncIds : d.count[h] = IF h = Last(stk).func THEN c.count[h] - 1 ELSE c.count[h]
  BY <1>1, FreedTable
<1> HIDE DEF d
<1> SUFFICES ASSUME NEW f \in FuncIds
             PROVE  /\ IsFiniteSet(Named(d, f))
                    /\ d.count[f] + 1 = Cardinality(Named(d, f)) + Cardinality(Calls(Front(stk), f))
  BY DEF CountsRight, d
<1>3. Named(d, f) = Named(c, f)
  BY <1>2 DEF Named
<1>4. IsFiniteSet(Named(c, f)) /\ c.count[f] + 1 = Cardinality(Named(c, f)) + Cardinality(Calls(stk, f))
  BY DEF CountsRight
<1>5. c.count[f] \in Int /\ Cardinality(Named(c, f)) \in Nat
  BY <1>4, FS_CardinalityType DEF Tables
<1>6. /\ Front(stk) \in Seq(Frames)
      /\ IsFiniteSet(Calls(Front(stk), f)) /\ Cardinality(Calls(Front(stk), f)) \in Nat
  BY FrontIs, CallsFinite
<1>7. CASE f = Last(stk).func
  <2>1. Calls(stk, f) = Calls(Front(stk), f) \cup {Len(stk)}
    BY <1>7, CallsFront
  <2>2. Len(stk) \notin Calls(Front(stk), f)
    BY CallsWithin
  <2>3. Cardinality(Calls(stk, f)) = Cardinality(Calls(Front(stk), f)) + 1
    BY <1>6, <2>1, <2>2, FS_AddElement
  <2>4. d.count[f] = c.count[f] - 1
    BY <1>2, <1>7
  <2> DEFINE was == c.count[f]
             names == Cardinality(Named(c, f))
             calls == Cardinality(Calls(Front(stk), f))
  <2>5. was \in Int /\ names \in Nat /\ calls \in Nat /\ was + 1 = names + (calls + 1)
    BY <1>4, <1>5, <1>6, <2>3
  <2>6. d.count[f] + 1 = was
    BY <2>4, <2>5
  <2> HIDE DEF was, names, calls
  <2>7. was = names + calls
    BY <2>5
  <2> QED
    BY <1>3, <1>4, <2>6, <2>7 DEF was, names, calls
<1>8. CASE f # Last(stk).func
  <2>1. Calls(stk, f) = Calls(Front(stk), f)
    BY <1>8, CallsFront
  <2> QED
    BY <1>2, <1>3, <1>4, <1>8, <2>1
<1> QED
  BY <1>7, <1>8

\* It frees the parameters of the function, and makes those that waited the
\* shell's.
LEMMA BlocksDone ==
    ASSUME NEW p, NEW stk \in Seq(Frames), stk # <<>>, NEW live, Last(stk).kind = "function",
           BlocksRight(p, stk, live)
    PROVE  BlocksRight(Last(stk).params, Front(stk), freeparam(p, live))
<1>1. PICK n \in Nat \ {0} : n = Len(stk)
  BY FrontIs
<1> DEFINE q == stk[n].params
           rest == freeparam(p, live)
           was(i) == IF i = 0 THEN n ELSE i
<1>2. /\ Len(Front(stk)) = n - 1 /\ Last(stk) = stk[n]
      /\ \A i \in 1..n - 1 : Front(stk)[i] = stk[i]
  BY <1>1, FrontIs
<1>3. ASSUME NEW i \in Heap(q, Front(stk))
      PROVE  /\ was(i) \in Heap(p, stk) /\ was(i) # 0
             /\ BlockOf(q, Front(stk), i) = BlockOf(p, stk, was(i))
  <2>1. i \in 0..n - 1
    BY <1>2 DEF Heap
  <2>2. CASE i = 0
    BY <1>1, <1>2, <2>2 DEF Heap, BlockOf
  <2>3. CASE i # 0
    <3>1. i \in 1..n - 1 /\ i \in 1..n /\ i \in 0..n
      BY <2>1, <2>3
    <3>2. Front(stk)[i] = stk[i]
      BY <1>2, <3>1
    <3> QED
      BY <1>1, <2>3, <3>1, <3>2 DEF Heap, BlockOf
  <2> QED
    BY <2>2, <2>3
<1>4. ASSUME NEW k \in Heap(p, stk), k # 0
      PROVE  \E i \in Heap(q, Front(stk)) : was(i) = k
  <2>1. k \in 1..n
    BY <1>1, <1>4 DEF Heap
  <2>2. CASE k = n
    <3>1. 0 \in Heap(q, Front(stk))
      BY <1>1, <1>2, <1>4, <2>2 DEF Heap
    <3> QED
      BY <2>2, <3>1
  <2>3. CASE k # n
    <3>1. k \in 1..n - 1
      BY <2>1, <2>3
    <3>2. k \in Heap(q, Front(stk))
      BY <1>1, <1>2, <1>4, <3>1 DEF Heap
    <3> QED
      BY <1>4, <3>2
  <2> QED
    BY <2>2, <2>3
<1>5. rest = live \ (IF p.malloc THEN {p.block} ELSE {})
  BY DEF freeparam
<1>6. p.malloc => 0 \in Heap(p, stk) /\ BlockOf(p, stk, 0) = p.block
  BY <1>1 DEF Heap, BlockOf
<1>7. 0 \in Heap(p, stk) => p.malloc
  BY DEF Heap
<1>8. \A i \in Heap(q, Front(stk)) : BlockOf(q, Front(stk), i) \in rest
  BY <1>3, <1>5, <1>6 DEF BlocksRight
<1>9. ASSUME NEW i \in Heap(q, Front(stk)), NEW j \in Heap(q, Front(stk)),
             BlockOf(q, Front(stk), i) = BlockOf(q, Front(stk), j)
      PROVE  i = j
  <2>1. was(i) = was(j)
    BY <1>3, <1>9 DEF BlocksRight
  <2>2. i \in 0..n - 1 /\ j \in 0..n - 1
    BY <1>2 DEF Heap
  <2> QED
    BY <2>1, <2>2
<1>10. ASSUME NEW b \in rest
       PROVE  \E i \in Heap(q, Front(stk)) : BlockOf(q, Front(stk), i) = b
  <2>1. PICK k \in Heap(p, stk) : BlockOf(p, stk, k) = b
    BY <1>5 DEF BlocksRight
  <2>2. k # 0
    BY <1>5, <1>6, <1>7, <1>10, <2>1
  <2> QED
    BY <1>3, <1>4, <2>1, <2>2
<1> HIDE DEF rest
<1>11. BlocksRight(q, Front(stk), rest)
  BY <1>8, <1>9, <1>10 DEF BlocksRight
<1> QED
  BY <1>2, <1>11 DEF rest

\* A command that is no function owns no arguments when it ends,
LEMMA BlocksOther ==
    ASSUME NEW p, NEW stk \in Seq(Frames), stk # <<>>, NEW live, Last(stk).kind # "function",
           BlocksRight(p, stk, live)
    PROVE  BlocksRight(p, Front(stk), live)
<1>1. PICK n \in Nat \ {0} : n = Len(stk)
  BY FrontIs
<1>2. /\ Len(Front(stk)) = n - 1 /\ Last(stk) = stk[n]
      /\ \A i \in 1..n - 1 : Front(stk)[i] = stk[i]
  BY <1>1, FrontIs
<1>3. \A i \in 0..n : i # 0 => i \in 1..n - 1 \/ i = n
  OBVIOUS
<1>4. Heap(p, Front(stk)) = Heap(p, stk)
  BY <1>1, <1>2, <1>3 DEF Heap
<1>5. \A i \in Heap(p, stk) : BlockOf(p, Front(stk), i) = BlockOf(p, stk, i)
  BY <1>1, <1>2, <1>4 DEF Heap, BlockOf
<1> QED
  BY <1>4, <1>5 DEF BlocksRight

\* and counts for no function.
LEMMA CountsOther ==
    ASSUME NEW c, NEW stk \in Seq(Frames), stk # <<>>, Last(stk).kind # "function", CountsRight(c, stk)
    PROVE  CountsRight(c, Front(stk))
<1>1. ASSUME NEW f \in FuncIds PROVE Calls(Front(stk), f) = Calls(stk, f)
  BY CallsFront
<1> QED
  BY <1>1 DEF CountsRight

\* funcdone for the innermost command keeps who owns what right for the
\* commands around it.
LEMMA HeldDone ==
    ASSUME NEW held, NEW stk \in Seq(Frames), stk # <<>>, NEW n, HeldRight(held, stk, n)
    PROVE  HeldRight(funcdone(Last(stk), held), Front(stk), n)
<1> DEFINE f == Last(stk)
           done == funcdone(f, held)
<1>1. f \in Frames
  BY FrontIs
<1>2. CASE f.kind # "function"
  <2>1. done = held
    BY <1>2 DEF funcdone
  <2>2. CountsRight(held.ct, Front(stk)) /\ BlocksRight(held.params, Front(stk), held.blocks)
    BY <1>2, CountsOther, BlocksOther DEF HeldRight
  <2> QED
    BY <2>1, <2>2 DEF HeldRight
<1>3. CASE f.kind = "function"
  <2> DEFINE live == freeparam(held.params, held.blocks)
             c == L!freefunc(held.ct, f.func)
  <2>1. done = [params |-> f.params, blocks |-> live, ct |-> c]
    BY <1>3 DEF funcdone
  <2>2. f.func \in FuncIds /\ f.params \in ParamTypes
    BY <1>1, <1>3, FrameFields
  <2>3. c \in Tables /\ c.locals = held.ct.locals
    BY <2>2, FreedTable DEF HeldRight
  <2>4. CountsRight(c, Front(stk))
    BY <1>3, CountsDone DEF HeldRight
  <2>5. BlocksRight(f.params, Front(stk), live)
    BY <1>3, BlocksDone DEF HeldRight
  <2>6. live \subseteq 1..MaxBlocks
    BY DEF freeparam, HeldRight
  <2> HIDE DEF live, c, f, done
  <2>7. Len(held.ct.locals) = n
    BY DEF HeldRight
  <2>8. HeldRight(done, Front(stk), n)
    BY <2>1, <2>2, <2>3, <2>4, <2>5, <2>6, <2>7 DEF HeldRight
  <2> QED
    BY <2>8 DEF done, f
<1> QED
  BY <1>2, <1>3

DoneSteps(g, stk, held, m) ==
    g = [k \in 0..m |-> IF k = 0 THEN held ELSE funcdone(stk[Len(stk) - k + 1], g[k - 1])]

\* An error ends the commands one by one, however many there are;
LEMMA DoneStepsExist ==
    ASSUME NEW stk, NEW held, NEW n \in Nat
    PROVE  \E g : DoneSteps(g, stk, held, n)
<1> DEFINE Steps(g, m) == DoneSteps(g, stk, held, m)
           H == {m \in 0..n : \E g : Steps(g, m)}
<1>1. 0 \in H
  <2>1. Steps([k \in 0..0 |-> held], 0)
    BY DEF DoneSteps
  <2> HIDE DEF Steps
  <2> QED
    BY <2>1
<1>2. ASSUME NEW m \in 1..n, m - 1 \in H
      PROVE  m \in H
  <2>1. PICK g : Steps(g, m - 1)
    BY <1>2
  <2> DEFINE h == [k \in 0..m |-> IF k = 0 THEN held ELSE funcdone(stk[Len(stk) - k + 1], g[k - 1])]
  <2>2. \A k \in 0..m - 1 : g[k] = IF k = 0 THEN held ELSE funcdone(stk[Len(stk) - k + 1], g[k - 1])
    BY <2>1 DEF DoneSteps
  <2>3. \A k \in 0..m - 1 : h[k] = g[k]
    BY <2>2
  <2>4. \A k \in 0..m : k # 0 => k - 1 \in 0..m - 1
    OBVIOUS
  <2>5. Steps(h, m)
    BY <2>3, <2>4 DEF DoneSteps
  <2> HIDE DEF Steps, h
  <2> QED
    BY <2>5
<1>3. n \in H
  <2> HIDE DEF H
  <2> QED BY <1>1, <1>2, Upward
<1> QED
  BY <1>3

\* what is held then is the end of such a chain.
LEMMA Unwinds ==
    ASSUME NEW held, Len(stack) - Handler \in Nat
    PROVE  \E g : /\ g[0] = held
                  /\ \A k \in 1..Len(stack) - Handler : g[k] = funcdone(stack[Len(stack) - k + 1], g[k - 1])
                  /\ Unwound(held) = g[Len(stack) - Handler]
<1> DEFINE n == Len(stack) - Handler
           Steps(g) == g = [k \in 0..n |-> IF k = 0 THEN held ELSE funcdone(stack[Len(stack) - k + 1], g[k - 1])]
           Left == CHOOSE g : Steps(g)
<1>1. Unwound(held) = Left[n]
  BY DEF Unwound
<1>2. n \in Nat
  OBVIOUS
<1> HIDE DEF n
<1>3. \E g : Steps(g)
  <2>1. \E g : DoneSteps(g, stack, held, n)
    BY <1>2, DoneStepsExist
  <2> QED
    BY <2>1 DEF DoneSteps
<1>4. Steps(Left)
  <2> HIDE DEF Steps
  <2> QED BY <1>3
<1> HIDE DEF Left
<1>5. Left[0] = held
  BY <1>2, <1>4
<1>6. \A k \in 1..n : Left[k] = funcdone(stack[Len(stack) - k + 1], Left[k - 1])
  BY <1>2, <1>4
<1> QED
  BY <1>1, <1>5, <1>6 DEF n

\* The first m elements, without the last of them, are the first m - 1.
LEMMA PartOfPart ==
    ASSUME NEW S, NEW s \in Seq(S), NEW m \in 1..Len(s)
    PROVE  /\ SubSeq(s, 1, m) \in Seq(S) /\ SubSeq(s, 1, m) # <<>>
           /\ Last(SubSeq(s, 1, m)) = s[m]
           /\ Front(SubSeq(s, 1, m)) = SubSeq(s, 1, m - 1)
<1> DEFINE t == SubSeq(s, 1, m)
<1>0. PICK n \in Nat : n = Len(s)
  OBVIOUS
<1>1. m \in 0..Len(s) /\ m - 1 \in 0..Len(s) /\ m \in Nat \ {0}
  BY <1>0
<1>2. t \in Seq(S) /\ Len(t) = m /\ \A i \in 1..m : t[i] = s[i]
  BY <1>1, FirstPart
<1> HIDE DEF t
<1>3. t # <<>> /\ m - 1 \in 0..Len(t)
  BY <1>1, <1>2
<1>4. /\ SubSeq(t, 1, m - 1) \in Seq(S) /\ Len(SubSeq(t, 1, m - 1)) = m - 1
      /\ \A i \in 1..m - 1 : SubSeq(t, 1, m - 1)[i] = t[i]
  BY <1>2, <1>3, FirstPart
<1>5. /\ SubSeq(s, 1, m - 1) \in Seq(S) /\ Len(SubSeq(s, 1, m - 1)) = m - 1
      /\ \A i \in 1..m - 1 : SubSeq(s, 1, m - 1)[i] = s[i]
  BY <1>1, FirstPart
<1>6. \A i \in 1..m - 1 : i \in 1..m
  BY <1>1
<1>7. SubSeq(t, 1, m - 1) = SubSeq(s, 1, m - 1)
  BY <1>2, <1>4, <1>5, <1>6
<1> QED
  BY <1>1, <1>2, <1>3, <1>7 DEF Front, Last, t

\* An error frees what the functions above the handler held.
LEMMA HeldUnwound ==
    ASSUME stack \in Seq(Frames), Handler \in 1..Len(stack), NEW held, NEW locals,
           HeldRight(held, stack, locals)
    PROVE  HeldRight(Unwound(held), SubSeq(stack, 1, Handler), locals)
<1>0. PICK len \in Nat : len = Len(stack)
  OBVIOUS
<1>1. PICK h \in Nat \ {0} : len = Len(stack) /\ h = Handler /\ h =< len
  BY <1>0
<1>2. Len(stack) - Handler \in Nat
  BY <1>1
<1>3. PICK g : /\ g[0] = held
               /\ \A k \in 1..Len(stack) - Handler : g[k] = funcdone(stack[Len(stack) - k + 1], g[k - 1])
               /\ Unwound(held) = g[Len(stack) - Handler]
  BY <1>2, Unwinds
<1>9. len \in Nat /\ h \in Nat \ {0} /\ h =< len
  BY <1>0, <1>1
<1>10. len - h \in Nat
  BY <1>9
<1>4. PICK n \in Nat : n = len - h
  BY <1>10
<1> DEFINE H == {k \in 0..n : HeldRight(g[k], SubSeq(stack, 1, len - k), locals)}
<1>5. 0 \in H
  <2>1. SubSeq(stack, 1, Len(stack)) = stack /\ len - 0 = Len(stack) /\ 0 \in 0..n
    BY <1>1, FirstPart
  <2> QED
    BY <1>3, <2>1
<1>6. ASSUME NEW m \in 1..n, m - 1 \in H PROVE m \in H
  <2>1. g[m] = funcdone(stack[len - m + 1], g[m - 1])
    BY <1>1, <1>3, <1>4
  <2>2. HeldRight(g[m - 1], SubSeq(stack, 1, len - (m - 1)), locals)
    BY <1>6
  <2>3. PICK i \in 1..len : i = len - (m - 1) /\ i = len - m + 1 /\ i - 1 = len - m
    <3>1. len - (m - 1) = len - m + 1 /\ len - (m - 1) - 1 = len - m /\ len - (m - 1) \in 1..len
      BY <1>4, <1>9
    <3> QED
      BY <3>1
  <2>4. /\ SubSeq(stack, 1, i) \in Seq(Frames) /\ SubSeq(stack, 1, i) # <<>>
        /\ Last(SubSeq(stack, 1, i)) = stack[i]
        /\ Front(SubSeq(stack, 1, i)) = SubSeq(stack, 1, i - 1)
    BY <1>1, PartOfPart
  <2>5. HeldRight(funcdone(stack[i], g[m - 1]), SubSeq(stack, 1, i - 1), locals)
    BY <2>2, <2>3, <2>4, HeldDone
  <2> QED
    BY <2>1, <2>3, <2>5
<1>7. n \in H
  <2>1. n \in Nat /\ n \in 0..n
    BY <1>4
  <2> HIDE DEF H
  <2> QED BY <2>1, <1>5, <1>6, Upward
<1>8. len - n = h
  BY <1>1, <1>4
<1> QED
  BY <1>1, <1>3, <1>4, <1>7, <1>8

(***************************************************************************)
(* The stack: each command remembers how many redirections and local       *)
(* variables there were as it began.                                       *)
(***************************************************************************)
\* How many there are while it is the innermost.
Depth(f) == f.stop + IF f.redirs THEN 1 ELSE 0
Locals(f) == f.lstop + IF f.kind = "function" \/ (f.kind \in {"eval", "dot"} /\ ~f.special) THEN 1 ELSE 0

Shaped(stk) ==
    /\ stk # <<>>
    /\ stk[1].kind = "top" /\ Depth(stk[1]) = 0 /\ Locals(stk[1]) = 0
    /\ \A n \in UserFds : stk[1].sees[n] # Same
    /\ \A i \in 2..Len(stk) :
          stk[i].kind # "top" /\ stk[i].stop = Depth(stk[i - 1]) /\ stk[i].lstop = Locals(stk[i - 1])
    /\ \A i, j \in 1..Len(stk) :
          i =< j => Depth(stk[i]) =< Depth(stk[j]) /\ Locals(stk[i]) =< Locals(stk[j])

\* How many tables and lists of local variables there are with a command.
LEMMA DepthIs ==
    ASSUME NEW f \in Frames
    PROVE  /\ Depth(f) \in Nat /\ Locals(f) \in Nat
           /\ f.stop =< Depth(f) /\ f.lstop =< Locals(f)
           /\ f.redirs => Depth(f) = f.stop + 1
           /\ ~f.redirs => Depth(f) = f.stop
           /\ f.kind = "function" => Locals(f) = f.lstop + 1
           /\ f.kind \in {"top", "loop", "group"} => Locals(f) = f.lstop
           /\ f.kind \in {"eval", "dot"} => Locals(f) = f.lstop + (IF f.special THEN 0 ELSE 1)
<1>1. f.stop \in Nat /\ f.lstop \in Nat
  BY FrameFields
<1> QED
  BY <1>1 DEF Depth, Locals

\* Shaped goes by what stays when exec changes what commands see.
LEMMA ShapedAlike ==
    ASSUME NEW s \in Seq(Frames), NEW t \in Seq(Frames), Shaped(s), Alike(s, t),
           \A n \in UserFds : t[1].sees[n] # Same
    PROVE  Shaped(t) /\ Depth(Last(t)) = Depth(Last(s)) /\ Locals(Last(t)) = Locals(Last(s))
<1>1. PICK len \in Nat \ {0} : len = Len(s) /\ Len(t) = len
  <2>1. s # <<>>
    BY DEF Shaped
  <2> QED
    BY <2>1, FrontIs DEF Alike
<1>2. \A i \in 1..len : Depth(t[i]) = Depth(s[i]) /\ Locals(t[i]) = Locals(s[i])
  BY <1>1 DEF Alike, Depth, Locals
<1>3. 1 \in 1..len /\ len \in 1..len /\ \A i \in 2..len : i \in 1..len /\ i - 1 \in 1..len
  BY <1>1
<1>4. t # <<>>
  BY <1>1
<1>5. t[1].kind = "top" /\ Depth(t[1]) = 0 /\ Locals(t[1]) = 0
  BY <1>1, <1>2, <1>3 DEF Shaped, Alike
<1>6. \A i \in 2..len :
          t[i].kind # "top" /\ t[i].stop = Depth(t[i - 1]) /\ t[i].lstop = Locals(t[i - 1])
  BY <1>1, <1>2, <1>3 DEF Shaped, Alike
<1>7. \A i, j \in 1..len :
          i =< j => Depth(t[i]) =< Depth(t[j]) /\ Locals(t[i]) =< Locals(t[j])
  BY <1>1, <1>2 DEF Shaped
<1> QED
  BY <1>1, <1>2, <1>3, <1>4, <1>5, <1>6, <1>7 DEF Shaped, Last

\* The outer commands of a stack that is Shaped are, too,
LEMMA ShapedPart ==
    ASSUME NEW stk \in Seq(Frames), Shaped(stk), NEW m \in 1..Len(stk)
    PROVE  /\ Shaped(SubSeq(stk, 1, m))
           /\ SubSeq(stk, 1, m) \in Seq(Frames) /\ Last(SubSeq(stk, 1, m)) = stk[m]
           /\ stk[m] \in Frames
           /\ Depth(stk[m]) =< Depth(Last(stk)) /\ Locals(stk[m]) =< Locals(Last(stk))
           /\ m # 1 => /\ Depth(stk[m - 1]) = stk[m].stop /\ Locals(stk[m - 1]) = stk[m].lstop
                       /\ m - 1 \in 1..Len(stk)
<1>1. PICK len \in Nat \ {0} : len = Len(stk)
  <2>1. stk # <<>>
    BY DEF Shaped
  <2> QED
    BY <2>1, FrontIs
<1>2. m \in 0..len /\ len \in 1..len /\ m =< len /\ m \in 1..len
  BY <1>1
<1> DEFINE t == SubSeq(stk, 1, m)
<1>3. t \in Seq(Frames) /\ Len(t) = m /\ (\A i \in 1..m : t[i] = stk[i]) /\ Last(t) = stk[m]
  BY <1>1, <1>2, FirstPart, PartOfPart
<1> HIDE DEF t
<1>4. \A i \in 2..m : i \in 1..m /\ i - 1 \in 1..m /\ i \in 2..len
  BY <1>2
<1>5. 1 \in 1..m /\ 1..m \subseteq 1..len
  BY <1>2
<1>6. t # <<>>
  BY <1>2, <1>3
<1>7. Shaped(t)
  BY <1>1, <1>3, <1>4, <1>5, <1>6 DEF Shaped
<1>8. Depth(stk[m]) =< Depth(Last(stk)) /\ Locals(stk[m]) =< Locals(Last(stk))
  BY <1>1, <1>2 DEF Shaped, Last
<1>9. m # 1 => m \in 2..len /\ m - 1 \in 1..len
  BY <1>2
<1>10. m # 1 => Depth(stk[m - 1]) = stk[m].stop /\ Locals(stk[m - 1]) = stk[m].lstop
  BY <1>1, <1>9 DEF Shaped
<1> QED
  BY <1>1, <1>2, <1>3, <1>7, <1>8, <1>9, <1>10 DEF t

\* and so is the stack with a new command that remembers what there is.
LEMMA ShapedPush ==
    ASSUME NEW stk \in Seq(Frames), Shaped(stk), NEW x \in Frames, x.kind # "top",
           x.stop = Depth(Last(stk)), x.lstop = Locals(Last(stk))
    PROVE  Shaped(Append(stk, x))
<1>1. PICK len \in Nat \ {0} : len = Len(stk)
  <2>1. stk # <<>>
    BY DEF Shaped
  <2> QED
    BY <2>1, FrontIs
<1> DEFINE t == Append(stk, x)
<1>2. Len(t) = len + 1 /\ (\A i \in 1..len : t[i] = stk[i]) /\ t[len + 1] = x /\ t # <<>>
  BY <1>1, AppendIs
<1> HIDE DEF t
<1>3. /\ \A i \in 1..len + 1 : i \in 1..len \/ i = len + 1
      /\ \A i \in 2..len + 1 : i - 1 \in 1..len /\ (i \in 2..len \/ i = len + 1)
      /\ 1 \in 1..len /\ len \in 1..len
      /\ \A i \in 2..len : i \in 1..len
  BY <1>1
<1>4. Last(stk) = stk[len]
  BY <1>1 DEF Last
<1>5. \A i \in 2..len + 1 :
          t[i].kind # "top" /\ t[i].stop = Depth(t[i - 1]) /\ t[i].lstop = Locals(t[i - 1])
  BY <1>1, <1>2, <1>3, <1>4 DEF Shaped
<1>6. \A i \in 1..len : /\ Depth(stk[i]) \in Nat /\ Locals(stk[i]) \in Nat
                        /\ Depth(stk[i]) =< Depth(stk[len]) /\ Locals(stk[i]) =< Locals(stk[len])
  BY <1>1, <1>3, DepthIs DEF Shaped
<1>7. /\ Depth(x) \in Nat /\ Locals(x) \in Nat /\ Depth(stk[len]) \in Nat /\ Locals(stk[len]) \in Nat
      /\ Depth(stk[len]) =< Depth(x) /\ Locals(stk[len]) =< Locals(x)
  BY <1>3, <1>4, <1>6, DepthIs
<1>8. \A i \in 1..len : Depth(stk[i]) =< Depth(x) /\ Locals(stk[i]) =< Locals(x)
  BY <1>6, <1>7
<1>9. \A i, j \in 1..len + 1 :
          i =< j => Depth(t[i]) =< Depth(t[j]) /\ Locals(t[i]) =< Locals(t[j])
  <2> SUFFICES ASSUME NEW i \in 1..len + 1, NEW j \in 1..len + 1, i =< j
               PROVE  Depth(t[i]) =< Depth(t[j]) /\ Locals(t[i]) =< Locals(t[j])
    OBVIOUS
  <2>1. CASE j \in 1..len
    <3>1. i \in 1..len
      BY <1>1, <2>1
    <3> QED
      BY <1>1, <1>2, <2>1, <3>1 DEF Shaped
  <2>2. CASE j = len + 1 /\ i \in 1..len
    BY <1>2, <1>8, <2>2
  <2>3. CASE j = len + 1 /\ i = len + 1
    BY <1>2, <1>7, <2>3
  <2> QED
    BY <1>3, <2>1, <2>2, <2>3
<1>10. t[1] = stk[1]
  BY <1>2, <1>3
<1> QED
  BY <1>1, <1>2, <1>5, <1>9, <1>10 DEF Shaped, t

\* The handler of an error is main, or a builtin that `command' runs.
LEMMA HandlerIs ==
    ASSUME stack \in Seq(Frames), Shaped(stack)
    PROVE  /\ Handler \in 1..Len(stack)
           /\ \/ stack[Handler].kind = "top" /\ Handler = 1
              \/ stack[Handler].kind \in {"eval", "dot"} /\ ~stack[Handler].special /\ Handler # 1
<1>1. PICK len \in Nat \ {0} : len = Len(stack)
  <2>1. stack # <<>>
    BY DEF Shaped
  <2> QED
    BY <2>1, FrontIs
<1> DEFINE takes(f) == f.kind = "top" \/ (f.kind \in {"eval", "dot"} /\ ~f.special)
           I == {i \in 1..Len(stack) : takes(stack[i])}
<1>2. Handler = IF I # {} THEN L!Max(I) ELSE 0
  BY DEF Handler, SelectLastInSeq, Max, L!Max
<1>3. 1 \in I
  BY <1>1 DEF Shaped
<1>4. I \subseteq Nat /\ \A i \in I : i =< len
  BY <1>1
<1>5. Handler \in I
  <2> HIDE DEF I
  <2> QED
    BY <1>1, <1>2, <1>3, <1>4, LMax
<1>6. Handler # 1 => Handler \in 2..len
  BY <1>1, <1>5
<1>7. Handler # 1 => stack[Handler].kind # "top"
  BY <1>1, <1>6 DEF Shaped
<1>8. stack[1].kind = "top"
  BY DEF Shaped
<1> QED
  BY <1>5, <1>7, <1>8

\* What a command is to see of a descriptor is told by one of those that run.
LEMMA OwnerIs ==
    ASSUME stack \in Seq(Frames), Shaped(stack), NEW n \in UserFds
    PROVE  /\ SelectLastInSeq(stack, LAMBDA f : f.sees[n] # Same) \in 1..Len(stack)
           /\ View(n) \in Seen \ {Same}
<1>1. PICK len \in Nat \ {0} : len = Len(stack)
  <2>1. stack # <<>>
    BY DEF Shaped
  <2> QED
    BY <2>1, FrontIs
<1> DEFINE I == {i \in 1..Len(stack) : stack[i].sees[n] # Same}
           o == SelectLastInSeq(stack, LAMBDA f : f.sees[n] # Same)
<1>2. o = IF I # {} THEN L!Max(I) ELSE 0
  BY DEF SelectLastInSeq, Max, L!Max
<1>3. 1 \in I
  BY <1>1 DEF Shaped
<1>4. I \subseteq Nat /\ \A i \in I : i =< len
  BY <1>1
<1>5. o \in I
  <2> HIDE DEF I, o
  <2> QED
    BY <1>1, <1>2, <1>3, <1>4, LMax
<1>6. View(n) = stack[o].sees[n]
  BY DEF View
<1> HIDE DEF o
<1>7. o \in 1..Len(stack) /\ stack[o].sees[n] # Same /\ stack[o] \in Frames
  BY <1>5
<1>8. stack[o].sees \in [UserFds -> Seen]
  BY <1>7, FrameFields
<1> QED
  BY <1>6, <1>7, <1>8 DEF o

\* A redirection makes something of each descriptor,
LEMMA AskedSeen ==
    ASSUME stack \in Seq(Frames), Shaped(stack), NEW sees \in [UserFds -> Seen],
           NEW r \in Redirections, r.type = "dup" => r.from \in UserFds
    PROVE  Asked(sees, r) \in [UserFds -> Seen]
<1> DEFINE v == CASE r.type = "file"  -> File
                  [] r.type = "close" -> Closed
                  [] r.type = "dup"   -> IF sees[r.from] # Same THEN sees[r.from] ELSE View(r.from)
                  [] OTHER -> sees[r.fd]
<1>1. r.fd \in UserFds
  BY DEF Redirections
<1>2. Asked(sees, r) = [sees EXCEPT ![r.fd] = v]
  BY <1>1 DEF Asked
<1>3. v \in Seen
  <2>1. r.type = "dup" => sees[r.from] \in Seen /\ View(r.from) \in Seen
    BY OwnerIs
  <2>2. sees[r.fd] \in Seen /\ File \in Seen /\ Closed \in Seen
    BY <1>1 DEF Seen
  <2> QED
    BY <2>1, <2>2
<1> HIDE DEF v
<1> QED
  BY <1>1, <1>2, <1>3

NothingSeen == [n \in UserFds |-> Same]
SeeSteps(g, redirs, m) == g = [k \in 0..m |-> IF k = 0 THEN NothingSeen ELSE Asked(g[k - 1], redirs[k])]

\* several do so one after the other, however many there are;
LEMMA SeeStepsExist ==
    ASSUME NEW redirs, NEW n \in Nat
    PROVE  \E g : SeeSteps(g, redirs, n)
<1> DEFINE Steps(g, m) == SeeSteps(g, redirs, m)
           H == {m \in 0..n : \E g : Steps(g, m)}
<1>1. 0 \in H
  <2>1. Steps([k \in 0..0 |-> NothingSeen], 0)
    BY DEF SeeSteps
  <2> HIDE DEF Steps
  <2> QED
    BY <2>1
<1>2. ASSUME NEW m \in 1..n, m - 1 \in H
      PROVE  m \in H
  <2>1. PICK g : Steps(g, m - 1)
    BY <1>2
  <2> DEFINE h == [k \in 0..m |-> IF k = 0 THEN NothingSeen ELSE Asked(g[k - 1], redirs[k])]
  <2>2. \A k \in 0..m - 1 : g[k] = IF k = 0 THEN NothingSeen ELSE Asked(g[k - 1], redirs[k])
    BY <2>1 DEF SeeSteps
  <2>3. \A k \in 0..m - 1 : h[k] = g[k]
    BY <2>2
  <2>4. \A k \in 0..m : k # 0 => k - 1 \in 0..m - 1
    OBVIOUS
  <2>5. Steps(h, m)
    BY <2>3, <2>4 DEF SeeSteps
  <2> HIDE DEF Steps, h
  <2> QED
    BY <2>5
<1>3. n \in H
  <2> HIDE DEF H
  <2> QED BY <1>1, <1>2, Upward
<1> QED
  BY <1>3

\* what they make of them is the end of such a chain,
LEMMA Seeing ==
    ASSUME NEW redirs, Len(redirs) \in Nat
    PROVE  \E g : /\ g[0] = NothingSeen
                  /\ \A k \in 1..Len(redirs) : g[k] = Asked(g[k - 1], redirs[k])
                  /\ Sees(redirs) = g[Len(redirs)]
<1> DEFINE n == Len(redirs)
           Steps(g) == g = [k \in 0..n |-> IF k = 0 THEN [d \in UserFds |-> Same] ELSE Asked(g[k - 1], redirs[k])]
           Left == CHOOSE g : Steps(g)
<1>1. Sees(redirs) = Left[n]
  BY DEF Sees
<1>2. n \in Nat
  OBVIOUS
<1> HIDE DEF n
<1>3. \E g : Steps(g)
  <2>1. \E g : SeeSteps(g, redirs, n)
    BY <1>2, SeeStepsExist
  <2> QED
    BY <2>1 DEF SeeSteps, NothingSeen
<1>4. Steps(Left)
  <2> HIDE DEF Steps
  <2> QED BY <1>3
<1> HIDE DEF Left
<1>5. Left = [k \in 0..n |-> IF k = 0 THEN NothingSeen ELSE Asked(Left[k - 1], redirs[k])]
  BY <1>4 DEF NothingSeen
<1>6. Left[0] = NothingSeen
  BY <1>2, <1>5
<1>7. \A k \in 1..n : Left[k] = Asked(Left[k - 1], redirs[k])
  BY <1>2, <1>5
<1> QED
  BY <1>1, <1>6, <1>7 DEF n

\* and it is something for each descriptor.
LEMMA SeesSeen ==
    ASSUME stack \in Seq(Frames), Shaped(stack), world \in Worlds, NEW redirs \in world.redirs
    PROVE  Sees(redirs) \in [UserFds -> Seen]
<1>1. /\ redirs \in Seq(Redirections)
      /\ \A r \in Redirections : r \in Range(redirs) /\ r.type = "dup" => r.from \in UserFds
  BY WorldsAssumption
<1>2. PICK n \in Nat : n = Len(redirs)
  BY <1>1
<1>3. PICK g : /\ g[0] = NothingSeen
               /\ \A k \in 1..Len(redirs) : g[k] = Asked(g[k - 1], redirs[k])
               /\ Sees(redirs) = g[Len(redirs)]
  BY <1>2, Seeing
<1> DEFINE H == {k \in 0..n : g[k] \in [UserFds -> Seen]}
<1>4. 0 \in H
  BY <1>3 DEF NothingSeen, Seen
<1>5. ASSUME NEW m \in 1..n, m - 1 \in H PROVE m \in H
  <2>1. g[m] = Asked(g[m - 1], redirs[m]) /\ g[m - 1] \in [UserFds -> Seen]
    BY <1>2, <1>3, <1>5
  <2>2. redirs[m] \in Redirections /\ redirs[m] \in Range(redirs)
    BY <1>1, <1>2 DEF Range
  <2>3. redirs[m].type = "dup" => redirs[m].from \in UserFds
    BY <1>1, <2>2
  <2>4. Asked(g[m - 1], redirs[m]) \in [UserFds -> Seen]
    BY <2>1, <2>2, <2>3, AskedSeen
  <2> QED
    BY <2>1, <2>4
<1>6. n \in H
  <2>1. n \in Nat /\ n \in 0..n
    BY <1>2
  <2> HIDE DEF H
  <2> QED BY <2>1, <1>4, <1>5, Upward
<1> QED
  BY <1>2, <1>3, <1>6

\* A frame may see the descriptors in another way.
LEMMA FrameSees ==
    ASSUME NEW f \in Frames, NEW sees \in [UserFds -> Seen]
    PROVE  [f EXCEPT !.sees = sees] \in Frames
  BY DEF Frames

\* exec leaves all but that alone.
LEMMA ExecutedAlike ==
    ASSUME stack \in Seq(Frames), Shaped(stack), world \in Worlds, NEW redirs \in world.redirs
    PROVE  /\ Executed(redirs) \in Seq(Frames) /\ Alike(stack, Executed(redirs))
           /\ \A n \in UserFds : Executed(redirs)[1].sees[n] # Same
<1> DEFINE asked == Sees(redirs)
           owner(n) == SelectLastInSeq(stack, LAMBDA f : f.sees[n] # Same)
           sees(i) == [n \in UserFds |-> IF asked[n] # Same /\ owner(n) = i THEN asked[n] ELSE stack[i].sees[n]]
           t == [i \in 1..Len(stack) |-> [stack[i] EXCEPT !.sees = sees(i)]]
<1>0. PICK len \in Nat \ {0} : len = Len(stack)
  <2>1. stack # <<>>
    BY DEF Shaped
  <2> QED
    BY <2>1, FrontIs
<1>1. \A i \in 1..len : stack[i] \in Frames /\ DOMAIN stack[i] = {"kind", "special", "redirs", "sees", "stop", "lstop", "input", "func", "params"}
  BY <1>0, FrameFields
<1>2. Executed(redirs) = t
  BY <1>0, <1>1 DEF Executed
<1>3. asked \in [UserFds -> Seen]
  BY SeesSeen
<1> HIDE DEF asked, owner
<1>4. ASSUME NEW i \in 1..len PROVE sees(i) \in [UserFds -> Seen]
  <2>1. stack[i].sees \in [UserFds -> Seen]
    BY <1>1, FrameFields
  <2> QED
    BY <1>3, <2>1
<1>5. \A n \in UserFds : sees(1)[n] # Same
  BY DEF Shaped
<1> HIDE DEF sees
<1>6. \A i \in 1..len : t[i] = [stack[i] EXCEPT !.sees = sees(i)] /\ t[i] \in Frames
  BY <1>0, <1>1, <1>4, FrameSees
<1>10. t = [i \in 1..len |-> t[i]]
  BY <1>0
<1> HIDE DEF t
<1>11. t \in [1..len -> Frames]
  BY <1>6, <1>10
<1>7. t \in Seq(Frames) /\ Len(t) = len
  BY <1>11
<1>8. Alike(stack, t)
  BY <1>0, <1>1, <1>6, <1>7 DEF Alike
<1>9. \A n \in UserFds : t[1].sees[n] # Same
  <2>1. t[1].sees = sees(1)
    <3>1. 1 \in 1..len
      BY <1>0
    <3>2. t[1] = [stack[1] EXCEPT !.sees = sees(1)] /\ stack[1] \in Frames
      BY <1>1, <1>6, <3>1
    <3>3. "sees" \in DOMAIN stack[1]
      BY <1>1, <3>1
    <3> QED
      BY <3>2, <3>3
  <2> QED
    BY <1>5, <2>1
<1> QED
  BY <1>2, <1>7, <1>8, <1>9

(***************************************************************************)
(* The places of the commands of some kinds, and how many there are from   *)
(* one of them on.                                                         *)
(***************************************************************************)
At(stk, kinds) == {i \in 1..Len(stk) : stk[i].kind \in kinds}
Count(I, i) == Cardinality({j \in I : j >= i})

\* The commands of some kinds are finitely many.
LEMMA AtFinite ==
    ASSUME NEW stk \in Seq(Frames), NEW kinds
    PROVE  /\ At(stk, kinds) \subseteq 1..Len(stk)
           /\ IsFiniteSet(At(stk, kinds)) /\ Cardinality(At(stk, kinds)) \in Nat
<1>1. At(stk, kinds) \subseteq 1..Len(stk) /\ IsFiniteSet(1..Len(stk))
  BY FS_Interval DEF At
<1>2. IsFiniteSet(At(stk, kinds))
  BY <1>1, FS_Subset
<1> QED
  BY <1>1, <1>2, FS_CardinalityType

\* They stay the same when exec changes what commands see.
LEMMA AtAlike ==
    ASSUME NEW s, NEW t, Alike(s, t), NEW kinds
    PROVE  At(t, kinds) = At(s, kinds)
  BY DEF At, Alike

\* The commands of some kinds with one command more,
LEMMA AtPush ==
    ASSUME NEW stk \in Seq(Frames), NEW x \in Frames, NEW kinds
    PROVE  /\ At(Append(stk, x), kinds) = IF x.kind \in kinds THEN At(stk, kinds) \cup {Len(stk) + 1}
                                          ELSE At(stk, kinds)
           /\ Len(stk) + 1 \notin At(stk, kinds)
<1>1. PICK n \in Nat : n = Len(stk)
  OBVIOUS
<1>2. /\ Len(Append(stk, x)) = n + 1 /\ Append(stk, x)[n + 1] = x
      /\ \A i \in 1..n : Append(stk, x)[i] = stk[i]
  BY <1>1, AppendIs
<1>3. 1..n + 1 = (1..n) \cup {n + 1} /\ n + 1 \notin 1..n
  BY <1>1
<1> QED
  BY <1>1, <1>2, <1>3 DEF At

\* and without the innermost.
LEMMA AtFront ==
    ASSUME NEW stk \in Seq(Frames), stk # <<>>, NEW kinds
    PROVE  /\ Last(stk).kind \in kinds => At(stk, kinds) = At(Front(stk), kinds) \cup {Len(stk)}
           /\ Last(stk).kind \notin kinds => At(stk, kinds) = At(Front(stk), kinds)
           /\ Len(stk) \notin At(Front(stk), kinds)
           /\ Front(stk) \in Seq(Frames)
<1>1. PICK n \in Nat \ {0} : n = Len(stk)
  BY FrontIs
<1>2. /\ Len(Front(stk)) = n - 1 /\ Last(stk) = stk[n]
      /\ \A i \in 1..n - 1 : Front(stk)[i] = stk[i]
      /\ Front(stk) \in Seq(Frames)
  BY <1>1, FrontIs
<1>3. 1..n = (1..n - 1) \cup {n} /\ n \notin 1..n - 1
  BY <1>1
<1> QED
  BY <1>1, <1>2, <1>3 DEF At

\* One more at the end is one more from each of them on.
LEMMA CountPush ==
    ASSUME NEW n \in Nat, NEW I, I \subseteq 1..n
    PROVE  /\ IsFiniteSet(I) /\ Cardinality(I) \in Nat
           /\ Cardinality(I \cup {n + 1}) = Cardinality(I) + 1
           /\ Count(I \cup {n + 1}, n + 1) = 1
           /\ \A i \in I : /\ Count(I \cup {n + 1}, i) = Count(I, i) + 1
                           /\ Count(I, i) \in 1..Cardinality(I)
<1>0. n + 1 \notin I /\ IsFiniteSet(1..n) /\ \A j \in I : j < n + 1
  BY FS_Interval
<1>1. IsFiniteSet(I) /\ Cardinality(I) \in Nat /\ n + 1 \notin I
  BY <1>0, FS_Subset, FS_CardinalityType
<1>2. Cardinality(I \cup {n + 1}) = Cardinality(I) + 1
  BY <1>1, FS_AddElement
<1>3. Count(I \cup {n + 1}, n + 1) = 1
  <2>1. {j \in I \cup {n + 1} : j >= n + 1} = {n + 1}
    <3>1. \A j \in I : j \in Nat /\ ~(j >= n + 1)
      BY <1>0
    <3>2. n + 1 >= n + 1
      OBVIOUS
    <3> QED
      BY <3>1, <3>2
  <2> QED
    BY <2>1, FS_Singleton DEF Count
<1>4. ASSUME NEW i \in I
      PROVE  /\ Count(I \cup {n + 1}, i) = Count(I, i) + 1
             /\ Count(I, i) \in 1..Cardinality(I)
  <2> DEFINE J == {j \in I : j >= i}
  <2>1. {j \in I \cup {n + 1} : j >= i} = J \cup {n + 1}
    OBVIOUS
  <2>2. J \subseteq I /\ n + 1 \notin J /\ i \in J
    BY <1>1
  <2>3. IsFiniteSet(J) /\ Cardinality(J) \in Nat /\ Cardinality(J) =< Cardinality(I)
    BY <1>1, <2>2, FS_Subset, FS_CardinalityType
  <2>4. Cardinality(J) # 0
    BY <2>2, <2>3, FS_EmptySet
  <2>5. Cardinality(J \cup {n + 1}) = Cardinality(J) + 1
    BY <2>2, <2>3, FS_AddElement
  <2> QED
    BY <1>1, <2>1, <2>3, <2>4, <2>5 DEF Count
<1> QED
  BY <1>1, <1>2, <1>3, <1>4

(***************************************************************************)
(* The inputs: one for each reader, the innermost first.                   *)
(***************************************************************************)
Reading == {"top", "eval", "dot"}
\* Whatever was caught.
Inputs(stk, ins) ==
    /\ ins \in Seq(Nat) /\ Len(ins) >= Cardinality(At(stk, Reading))
    /\ \A i, j \in 1..Len(ins) : ins[i] = ins[j] => i = j
\* Unless an error was.
ReadRight(stk, ins) ==
    /\ Len(ins) = Cardinality(At(stk, Reading))
    /\ \A i \in At(stk, Reading) : ins[Count(At(stk, Reading), i)] = stk[i].input

\* What is read stays the same when exec changes what commands see.
LEMMA ReadAlike ==
    ASSUME NEW s \in Seq(Frames), NEW t \in Seq(Frames), Alike(s, t), NEW ins
    PROVE  /\ Inputs(s, ins) => Inputs(t, ins)
           /\ ReadRight(s, ins) => ReadRight(t, ins)
<1>1. At(t, Reading) = At(s, Reading) /\ At(s, Reading) \subseteq 1..Len(s)
  BY AtAlike, AtFinite
<1>2. \A i \in At(s, Reading) : t[i].input = s[i].input
  BY <1>1 DEF Alike
<1> QED
  BY <1>1, <1>2 DEF Inputs, ReadRight

\* A command that reads nothing leaves the inputs as they are.
LEMMA ReadOther ==
    ASSUME NEW stk \in Seq(Frames), NEW ins
    PROVE  /\ \A x \in Frames : x.kind \notin Reading =>
                /\ Inputs(stk, ins) => Inputs(Append(stk, x), ins)
                /\ ReadRight(stk, ins) => ReadRight(Append(stk, x), ins)
           /\ stk # <<>> /\ Last(stk).kind \notin Reading =>
                /\ Inputs(stk, ins) => Inputs(Front(stk), ins)
                /\ ReadRight(stk, ins) => ReadRight(Front(stk), ins)
<1> DEFINE I == At(stk, Reading)
<1>1. ASSUME NEW x \in Frames, x.kind \notin Reading
      PROVE  At(Append(stk, x), Reading) = I /\ \A i \in I : Append(stk, x)[i].input = stk[i].input
  <2>1. I \subseteq 1..Len(stk)
    BY AtFinite
  <2> QED
    BY <1>1, <2>1, AtPush, AppendIs
<1>2. ASSUME stk # <<>>, Last(stk).kind \notin Reading
      PROVE  At(Front(stk), Reading) = I /\ \A i \in I : Front(stk)[i].input = stk[i].input
  <2>1. At(Front(stk), Reading) = I /\ Front(stk) \in Seq(Frames)
    BY <1>2, AtFront
  <2>2. I \subseteq 1..Len(Front(stk))
    BY <2>1, AtFinite
  <2> QED
    BY <1>2, <2>1, <2>2, FrontIs
<1> HIDE DEF I
<1> QED
  BY <1>1, <1>2 DEF Inputs, ReadRight, I

\* A new reader pushes its input,
LEMMA ReadPush ==
    ASSUME NEW stk \in Seq(Frames), NEW ins, Inputs(stk, ins), NEW x \in Frames, x.kind \in Reading,
           \A i \in 1..Len(ins) : ins[i] # x.input
    PROVE  /\ Inputs(Append(stk, x), <<x.input>> \o ins)
           /\ ReadRight(stk, ins) => ReadRight(Append(stk, x), <<x.input>> \o ins)
<1>1. PICK n \in Nat : n = Len(stk)
  OBVIOUS
<1>2. PICK len \in Nat : len = Len(ins) /\ ins \in Seq(Nat)
  BY DEF Inputs
<1> DEFINE more == <<x.input>> \o ins
           I == At(stk, Reading)
           J == At(Append(stk, x), Reading)
<1>3. x.input \in Nat /\ <<x.input>> \in Seq(Nat)
  BY FrameFields
<1>4. /\ more \in Seq(Nat) /\ Len(more) = len + 1 /\ more[1] = x.input
      /\ \A i \in 1..len : more[i + 1] = ins[i]
  BY <1>2, <1>3
<1>5. I \subseteq 1..n /\ J = I \cup {n + 1}
  BY <1>1, AtFinite, AtPush
<1> HIDE DEF more, J, I
<1>6. /\ Cardinality(J) = Cardinality(I) + 1 /\ Cardinality(I) \in Nat
      /\ Count(J, n + 1) = 1
      /\ \A i \in I : Count(J, i) = Count(I, i) + 1 /\ Count(I, i) \in 1..Cardinality(I)
  <2>1. /\ Cardinality(I \cup {n + 1}) = Cardinality(I) + 1 /\ Cardinality(I) \in Nat
        /\ Count(I \cup {n + 1}, n + 1) = 1
        /\ \A i \in I : Count(I \cup {n + 1}, i) = Count(I, i) + 1 /\ Count(I, i) \in 1..Cardinality(I)
    <3>1. n \in Nat /\ I \subseteq 1..n
      BY <1>1, <1>5
    <3> QED
      BY <3>1, CountPush
  <2> QED
    BY <1>5, <2>1
<1>7. Len(ins) >= Cardinality(I)
  BY DEF Inputs, I
<1>8. Len(more) >= Cardinality(J)
  BY <1>2, <1>4, <1>6, <1>7
<1>9. ASSUME NEW i \in 1..Len(more), NEW j \in 1..Len(more), more[i] = more[j] PROVE i = j
  <2>1. \A k \in 1..len + 1 : k = 1 \/ k - 1 \in 1..len
    BY <1>2
  <2>2. \A k \in 1..len + 1 : k # 1 => more[k] = ins[k - 1]
    BY <1>2, <1>4, <2>1, SMTT(30)
  <2>6. \A k \in 1..len + 1 : k # 1 => more[k] # more[1]
    BY <1>2, <1>4, <2>1, <2>2
  <2>3. CASE i = 1
    BY <1>4, <1>9, <2>3, <2>6
  <2>4. CASE j = 1
    BY <1>4, <1>9, <2>4, <2>6
  <2>5. CASE i # 1 /\ j # 1
    <3>1. i - 1 \in 1..len /\ j - 1 \in 1..len /\ ins[i - 1] = ins[j - 1]
      BY <1>4, <1>9, <2>1, <2>2, <2>5
    <3>2. i - 1 = j - 1
      BY <1>2, <3>1 DEF Inputs
    <3> QED
      BY <1>2, <1>4, <3>2
  <2> QED
    BY <2>3, <2>4, <2>5
<1>10. Inputs(Append(stk, x), more)
  BY <1>4, <1>8, <1>9 DEF Inputs, J
<1>11. ASSUME ReadRight(stk, ins) PROVE ReadRight(Append(stk, x), more)
  <2>1. Len(ins) = Cardinality(I) /\ \A i \in I : ins[Count(I, i)] = stk[i].input
    BY <1>11 DEF ReadRight, I
  <2>2. Len(more) = Cardinality(J)
    BY <1>2, <1>4, <1>6, <2>1
  <2>3. \A i \in 1..n : Append(stk, x)[i] = stk[i]
    BY <1>1, AppendIs
  <2>4. Append(stk, x)[n + 1] = x
    BY <1>1, AppendIs
  <2>5. ASSUME NEW i \in I PROVE more[Count(J, i)] = Append(stk, x)[i].input
    <3>1. Count(I, i) \in 1..len /\ Count(J, i) = Count(I, i) + 1
      BY <1>2, <1>6, <2>1
    <3>2. more[Count(I, i) + 1] = ins[Count(I, i)]
      BY <1>4, <3>1
    <3> QED
      BY <1>5, <2>1, <2>3, <3>1, <3>2
  <2>6. more[Count(J, n + 1)] = Append(stk, x)[n + 1].input
    BY <1>4, <1>6, <2>4
  <2> QED
    BY <1>5, <2>2, <2>5, <2>6 DEF ReadRight, J
<1> QED
  BY <1>10, <1>11 DEF more

\* and pops it when it ends.
LEMMA ReadPop ==
    ASSUME NEW stk \in Seq(Frames), stk # <<>>, NEW ins, Inputs(stk, ins), Last(stk).kind \in Reading
    PROVE  /\ ins # <<>>
           /\ Inputs(Front(stk), Tail(ins))
           /\ ReadRight(stk, ins) => ReadRight(Front(stk), Tail(ins))
<1>1. PICK n \in Nat \ {0} : n = Len(stk)
  BY FrontIs
<1>2. PICK len \in Nat : len = Len(ins) /\ ins \in Seq(Nat)
  BY DEF Inputs
<1> DEFINE I == At(Front(stk), Reading)
           J == At(stk, Reading)
<1>3. Front(stk) \in Seq(Frames) /\ Len(Front(stk)) = n - 1 /\ \A i \in 1..n - 1 : Front(stk)[i] = stk[i]
  BY <1>1, FrontIs
<1>4. I \subseteq 1..n - 1 /\ J = I \cup {n}
  BY <1>1, <1>3, AtFinite, AtFront
<1> HIDE DEF J, I
<1>5. PICK m \in Nat : n - 1 = m /\ n = m + 1
  BY <1>1
<1>6. /\ Cardinality(J) = Cardinality(I) + 1 /\ Cardinality(I) \in Nat
      /\ \A i \in I : Count(J, i) = Count(I, i) + 1 /\ Count(I, i) \in 1..Cardinality(I)
  <2>1. /\ Cardinality(I \cup {m + 1}) = Cardinality(I) + 1 /\ Cardinality(I) \in Nat
        /\ \A i \in I : Count(I \cup {m + 1}, i) = Count(I, i) + 1 /\ Count(I, i) \in 1..Cardinality(I)
    <3>1. m \in Nat /\ I \subseteq 1..m
      BY <1>4, <1>5
    <3> QED
      BY <3>1, CountPush
  <2> QED
    BY <1>4, <1>5, <2>1
<1>7. Len(ins) >= Cardinality(J)
  BY DEF Inputs, J
<1>8. len >= 1 /\ len - 1 >= Cardinality(I)
  BY <1>2, <1>6, <1>7
<1>9. ins # <<>>
  BY <1>2, <1>8
<1>10. Tail(ins) \in Seq(Nat) /\ Len(Tail(ins)) = len - 1 /\ \A i \in 1..len - 1 : Tail(ins)[i] = ins[i + 1]
  BY <1>2, <1>9, HeadTailOf
<1>11. ASSUME NEW i \in 1..len - 1, NEW j \in 1..len - 1, Tail(ins)[i] = Tail(ins)[j] PROVE i = j
  <2>1. i + 1 \in 1..len /\ j + 1 \in 1..len
    BY <1>2
  <2>2. i + 1 = j + 1
    BY <1>2, <1>10, <1>11, <2>1 DEF Inputs
  <2> QED
    BY <2>2
<1>12. Inputs(Front(stk), Tail(ins))
  BY <1>8, <1>10, <1>11 DEF Inputs, I
<1>13. ASSUME ReadRight(stk, ins) PROVE ReadRight(Front(stk), Tail(ins))
  <2>1. Len(ins) = Cardinality(J) /\ \A i \in J : ins[Count(J, i)] = stk[i].input
    BY <1>13 DEF ReadRight, J
  <2>2. Cardinality(I) = len - 1
    BY <1>2, <1>6, <2>1
  <2>3. ASSUME NEW i \in I PROVE Tail(ins)[Count(I, i)] = Front(stk)[i].input
    <3>1. Count(I, i) \in 1..len - 1 /\ Count(J, i) = Count(I, i) + 1
      BY <1>6, <2>2
    <3>2. Tail(ins)[Count(I, i)] = ins[Count(I, i) + 1]
      BY <1>10, <3>1
    <3>3. Front(stk)[i] = stk[i] /\ i \in J
      BY <1>3, <1>4
    <3> QED
      BY <2>1, <3>1, <3>2, <3>3
  <2> QED
    BY <1>10, <2>2, <2>3 DEF ReadRight, I
<1> QED
  BY <1>9, <1>12, <1>13

\* After an error only the shell itself reads on.
LEMMA ReadTop ==
    ASSUME NEW stk \in Seq(Frames), stk # <<>>, stk[1].kind = "top", NEW ins, Inputs(stk, ins)
    PROVE  /\ ins # <<>>
           /\ Inputs(<<stk[1]>>, <<Last(ins)>>)
           /\ ReadRight(stk, ins) => ReadRight(<<stk[1]>>, <<Last(ins)>>)
<1>1. PICK n \in Nat \ {0} : n = Len(stk)
  BY FrontIs
<1>2. PICK len \in Nat : len = Len(ins) /\ ins \in Seq(Nat)
  BY DEF Inputs
<1> DEFINE J == At(stk, Reading)
<1>13. 1 \in J
  BY <1>1 DEF At, Reading
<1>3. 1 \in J /\ J \subseteq 1..n /\ IsFiniteSet(J) /\ Cardinality(J) \in Nat
  <2> HIDE DEF J
  <2>1. J \subseteq 1..n /\ IsFiniteSet(J) /\ Cardinality(J) \in Nat
    BY <1>1, AtFinite DEF J
  <2> QED
    BY <1>13, <2>1
<1>4. Cardinality(J) # 0
  BY <1>3, FS_EmptySet
<1>5. Len(ins) >= Cardinality(J)
  BY DEF Inputs
<1>6. len >= 1
  BY <1>2, <1>3, <1>4, <1>5
<1>7. ins # <<>> /\ Last(ins) = ins[len] /\ Last(ins) \in Nat
  BY <1>2, <1>6 DEF Last
<1> DEFINE one == <<stk[1]>>
           last == <<Last(ins)>>
<1>14. Len(one) = 1 /\ one[1] = stk[1]
  OBVIOUS
<1>15. last \in Seq(Nat) /\ Len(last) = 1 /\ last[1] = Last(ins)
  BY <1>7
<1> HIDE DEF one, last
<1>16. 1..1 = {1}
  OBVIOUS
<1>8. At(one, Reading) = {1} /\ Cardinality({1}) = 1
  <2>1. At(one, Reading) = {1}
    BY <1>14, <1>16 DEF At, Reading
  <2> QED
    BY <2>1, FS_Singleton
<1>9. Inputs(one, last)
  BY <1>8, <1>15, <1>16 DEF Inputs
<1>10. Count({1}, 1) = 1
  <2>1. {j \in {1} : j >= 1} = {1}
    OBVIOUS
  <2> QED
    BY <1>8, <2>1 DEF Count
<1>11. Count(J, 1) = Cardinality(J)
  <2>1. {j \in J : j >= 1} = J
    BY <1>3
  <2> QED
    BY <2>1 DEF Count
<1>12. ASSUME ReadRight(stk, ins) PROVE ReadRight(one, last)
  <2>1. Len(ins) = Cardinality(J) /\ ins[Count(J, 1)] = stk[1].input
    BY <1>3, <1>12 DEF ReadRight
  <2>2. Last(ins) = stk[1].input
    BY <1>2, <1>7, <1>11, <2>1
  <2> QED
    BY <1>8, <1>10, <1>14, <1>15, <2>2 DEF ReadRight
<1> QED
  BY <1>7, <1>9, <1>12 DEF one, last

\* There is an input that none of those that are open is.
LEMMA NewInput ==
    ASSUME NEW ins \in Seq(Nat)
    PROVE  /\ Min((0..Len(ins)) \ Range(ins)) \in Nat
           /\ \A i \in 1..Len(ins) : ins[i] # Min((0..Len(ins)) \ Range(ins))
<1>1. PICK n \in Nat : n = Len(ins)
  OBVIOUS
<1> DEFINE free == (0..n) \ Range(ins)
<1>2. free # {}
  <2> SUFFICES ASSUME free = {} PROVE FALSE
    OBVIOUS
  <2>1. 0..n \subseteq Range(ins)
    OBVIOUS
  <2>2. \A k \in 0..n : \E i \in 1..n : ins[i] = k
    BY <1>1, <2>1 DEF Range
  <2> DEFINE at == [k \in 0..n |-> CHOOSE i \in 1..n : ins[i] = k]
  <2>3. \A k \in 0..n : at[k] \in 1..n /\ ins[at[k]] = k
    BY <2>2
  <2>4. at \in [0..n -> 1..n]
    BY <2>3
  <2>5. /\ IsFiniteSet(0..n) /\ Cardinality(0..n) = n + 1
        /\ IsFiniteSet(1..n) /\ Cardinality(1..n) = n
    BY FS_Interval
  <2> HIDE DEF at
  <2>6. \E x, y \in 0..n : x # y /\ at[x] = at[y]
    <3>1. Cardinality(1..n) < Cardinality(0..n)
      BY <1>1, <2>5
    <3> DEFINE S == 0..n
               T == 1..n
    <3>2. at \in [S -> T] /\ IsFiniteSet(S) /\ IsFiniteSet(T) /\ Cardinality(T) < Cardinality(S)
      BY <2>4, <2>5, <3>1
    <3> HIDE DEF S, T
    <3>3. \E x, y \in S : x # y /\ at[x] = at[y]
      BY <3>2, FS_PigeonHole
    <3> QED
      BY <3>3 DEF S
  <2> QED
    BY <2>3, <2>6
<1>3. free \subseteq Nat
  OBVIOUS
<1>4. Min(free) = L!Min(free)
  BY DEF Min, L!Min
<1> HIDE DEF free
<1>5. Min(free) \in free
  BY <1>2, <1>3, <1>4, LMin
<1>6. \A i \in 1..n : ins[i] \in Range(ins)
  BY <1>1 DEF Range
<1> HIDE DEF Range
<1>7. Min(free) \in Nat /\ Min(free) \notin Range(ins)
  BY <1>5 DEF free
<1>8. \A i \in 1..n : ins[i] # Min(free)
  BY <1>6, <1>7
<1> QED
  BY <1>1, <1>7, <1>8 DEF free

(***************************************************************************)
(* break, continue and return: where they have to lead.                    *)
(***************************************************************************)
\* From the n-th loop from the inside on, or else from the outermost, there
\* are as many as skipcount says.
LEMMA NthCount ==
    ASSUME NEW m \in Nat, NEW I, I \subseteq 1..m, I # {}, NEW n \in Nat \ {0}
    PROVE  LET l == L!Max({i \in I : n =< Count(I, i)} \cup {L!Min(I)})
           IN  /\ l \in I /\ Cardinality(I) \in Nat \ {0}
               /\ Count(I, l) = IF n =< Cardinality(I) THEN n ELSE Cardinality(I)
<1> DEFINE first == L!Min(I)
           K == {i \in I : n =< Count(I, i)}
           l == L!Max(K \cup {first})
<1>1. I \subseteq Nat /\ \A i \in I : i =< m
  OBVIOUS
<1>2. first \in I /\ \A i \in I : first =< i
  BY <1>1, LMin
<1>3. IsFiniteSet(I) /\ Cardinality(I) \in Nat /\ \A i \in I : Count(I, i) \in 1..Cardinality(I)
  BY CountPush
<1>4. Cardinality(I) # 0
  BY <1>3, FS_EmptySet
<1>5. Count(I, first) = Cardinality(I)
  <2> HIDE DEF first
  <2>1. {j \in I : j >= first} = I
    BY <1>1, <1>2
  <2> QED
    BY <2>1 DEF Count
<1> HIDE DEF first
<1> DEFINE T == K \cup {first}
<1>6. T \subseteq Nat /\ T # {} /\ \A i \in T : i =< m
  BY <1>1, <1>2
<1>7. l \in T /\ \A i \in T : l >= i
  <2>1. l = L!Max(T)
    OBVIOUS
  <2> HIDE DEF T, l
  <2> QED
    BY <1>6, <2>1, LMax
<1> HIDE DEF l
<1>8. l \in I
  BY <1>2, <1>7
<1>9. CASE n =< Cardinality(I)
  <2>1. first \in K
    BY <1>2, <1>5, <1>9
  <2>2. l \in K
    BY <1>7, <2>1
  <2>3. n =< Count(I, l) /\ Count(I, l) \in Nat
    BY <1>3, <2>2
  <2>4. CASE Count(I, l) # n
    <3> DEFINE J == {j \in I : j > l}
               Q == {j \in I : j >= l}
    <3>12. \A j \in I : j \in Nat /\ ((j > l) <=> (j >= l /\ j # l))
      BY <1>1, <1>8
    <3>13. l >= l
      BY <1>1, <1>8
    <3>1. l \in Q /\ J = Q \ {l}
      BY <1>8, <3>12, <3>13
    <3>2. Q \subseteq I
      OBVIOUS
    <3>3. IsFiniteSet(Q)
      <4> HIDE DEF Q
      <4> QED
        BY <1>3, <3>2, FS_Subset
    <3>4. Cardinality(J) = Count(I, l) - 1
      <4>1. Count(I, l) = Cardinality(Q)
        BY DEF Count
      <4> HIDE DEF J, Q
      <4>2. Cardinality(Q \ {l}) = Cardinality(Q) - 1
        BY <3>1, <3>3, FS_RemoveElement
      <4> QED
        BY <3>1, <4>1, <4>2
    <3>5. n =< Cardinality(J) /\ Cardinality(J) # 0
      <4> HIDE DEF J
      <4> QED
        BY <2>3, <2>4, <3>4
    <3>6. J # {} /\ J \subseteq Nat
      <4>1. J # {}
        <5> HIDE DEF J
        <5> QED
          BY <3>5, FS_EmptySet
      <4> QED
        BY <1>1, <4>1
    <3> DEFINE b == L!Min(J)
    <3>7. b \in J /\ \A j \in J : b =< j
      <4> HIDE DEF J
      <4> QED
        BY <3>6, LMin
    <3> HIDE DEF b
    <3>14. b \in Nat /\ l \in Nat /\ b > l
      BY <1>1, <1>8, <3>7
    <3>15. \A j \in I : j >= b => j > l
      BY <1>1, <3>14
    <3>16. \A j \in J : j >= b /\ j \in I
      BY <1>1, <3>7, <3>14
    <3>8. {j \in I : j >= b} = J
      BY <3>15, <3>16
    <3>9. Count(I, b) = Cardinality(J)
      BY <3>8 DEF Count
    <3>10. b \in K
      <4>1. b \in I
        BY <3>7
      <4> HIDE DEF J
      <4> QED
        BY <3>5, <3>9, <4>1
    <3>11. b > l /\ b \in Nat /\ l \in Nat
      BY <1>1, <1>8, <3>7
    <3> QED
      BY <1>7, <3>10, <3>11
  <2> QED
    BY <1>3, <1>4, <1>8, <1>9, <2>4 DEF l, first
<1>10. CASE ~(n =< Cardinality(I))
  <2>1. K = {}
    <3> SUFFICES ASSUME NEW i \in I, n =< Count(I, i) PROVE FALSE
      OBVIOUS
    <3> QED
      BY <1>3, <1>10
  <2>2. l = first
    BY <1>7, <2>1
  <2>3. Count(I, l) = Cardinality(I)
    BY <1>5, <2>2
  <2> QED
    BY <1>3, <1>4, <1>8, <1>10, <2>3 DEF l, first
<1> QED
  BY <1>9, <1>10

Scripting == {"function", "dot", "top"}
FlowRight(stk, fl, g) ==
    /\ fl.loopnest = Cardinality(At(stk, {"loop"}))
    /\ fl.evalskip \in {"break", "cont"} =>
          \E l \in At(stk, {"loop"}) : /\ fl.skipcount = Count(At(stk, {"loop"}), l)
                                       /\ g = IF fl.evalskip = "cont" THEN l ELSE l - 1
    /\ fl.evalskip = "func" => g + 1 \in At(stk, Scripting) /\ \A i \in At(stk, Scripting) : i =< g + 1


(***************************************************************************)
(* Lookup: what the table remembers agrees with what a search would find.  *)
(***************************************************************************)
\* Whether a file of that name is at an entry of PATH, in the directory dir.
Has(dir, w, name, p) == p # "%builtin" /\ w.files[IF p = "" THEN dir ELSE p, name] # "no"

\* The search passes the entry i; one that needs a rehash is not sure of
\* the current directory.
Passed(path, dir, stale, w, name, i) ==
    (path[i + 1] = "" /\ stale) \/ ~Has(dir, w, name, path[i + 1])
Reached(path, dir, stale, w, name, i) ==
    (path[i + 1] = "" /\ stale) \/ Has(dir, w, name, path[i + 1])

EntryFits(e, path, dir, w, name) ==
    /\ e.type = "normal" =>
          /\ e.index \in 0..Len(path) - 1 /\ path[e.index + 1] # "%builtin"
          /\ w.builtin[name] \in {"none", "plain"}
          /\ w.builtin[name] = "plain" => e.index < L!BuiltinAt(path)
          /\ \A i \in 0..e.index - 1 : Passed(path, dir, e.rehash, w, name, i)
          /\ Reached(path, dir, e.rehash, w, name, e.index)
    /\ e.type = "builtin" =>
          /\ w.builtin[name] # "none"
          /\ e.rehash => w.builtin[name] = "plain" /\ L!BuiltinAt(path) > 0
          /\ w.builtin[name] = "plain" =>
                \A i \in 0..L!BuiltinAt(path) - 1 : Passed(path, dir, e.rehash, w, name, i)
    /\ e.type = "none" => ~e.rehash

\* What a search of path has just found.
Settles(e, path, dir, w, name) ==
    /\ e \in Entries /\ e.type # "function" /\ ~e.rehash
    /\ EntryFits(e, path, dir, w, name)
    /\ e.type = "none" =>
          w.builtin[name] = "none" /\ \A i \in 0..Len(path) - 1 : ~Has(dir, w, name, path[i + 1])

Placed(c, w) ==
    /\ c.path \in w.paths /\ c.cwd \in w.cwds
    /\ c.builtinloc = L!BuiltinAt(c.path)
    /\ c.locals \in Seq(Seq(w.paths))
TableRight(c, w) ==
    /\ c \in Tables /\ Placed(c, w)
    /\ \A n \in Names : EntryFits(c.table[n], c.path, c.cwd, w, n)

\* A file that stat finds, and one that there is.
LEMMA StatIs ==
    ASSUME NEW c, NEW w, NEW name, NEW p
    PROVE  L!Stat(c, w.files, p, name) <=> Has(c.cwd, w, name, p)
  BY DEF L!Stat, L!Dir, Has

\* BuiltinAt is the place of the first "%builtin" in path, or -1.
LEMMA BuiltinIs ==
    ASSUME NEW path \in Seq(STRING)
    PROVE  /\ L!BuiltinAt(path) \in Int /\ L!BuiltinAt(path) >= -1
           /\ L!BuiltinAt(path) >= 0 =>
                L!BuiltinAt(path) \in 0..Len(path) - 1 /\ path[L!BuiltinAt(path) + 1] = "%builtin"
           /\ \A i \in 0..Len(path) - 1 :
                path[i + 1] = "%builtin" => 0 =< L!BuiltinAt(path) /\ L!BuiltinAt(path) =< i
<1> DEFINE I == {i \in 1..Len(path) : path[i] = "%builtin"}
<1>0. PICK len \in Nat : len = Len(path)
  OBVIOUS
<1>1. L!BuiltinAt(path) = (IF I # {} THEN L!Min(I) ELSE 0) - 1
  BY DEF L!BuiltinAt, L!SelectInSeq
<1>2. I \subseteq Nat
  OBVIOUS
<1>3. CASE I = {}
  <2>1. L!BuiltinAt(path) = -1
    BY <1>1, <1>3
  <2>2. \A i \in 0..len - 1 : i + 1 \in 1..len
    BY <1>0
  <2>3. \A i \in 0..len - 1 : path[i + 1] # "%builtin"
    BY <1>0, <1>3, <2>2
  <2> QED
    BY <1>0, <2>1, <2>3
<1>4. CASE I # {}
  <2>1. L!Min(I) \in I /\ \A k \in I : L!Min(I) =< k
    <3> HIDE DEF I
    <3> QED
      BY <1>2, <1>4, LMin
  <2>2. PICK m \in I : m = L!Min(I) /\ \A k \in I : m =< k
    BY <2>1
  <2>3. m \in 1..len /\ path[m] = "%builtin"
    BY <1>0, <2>2
  <2>4. L!BuiltinAt(path) = m - 1
    BY <1>1, <1>4, <2>2
  <2>5. m - 1 \in 0..len - 1 /\ m - 1 + 1 = m /\ m - 1 \in Int /\ m - 1 >= 0
    BY <1>0, <2>3
  <2>6. ASSUME NEW i \in 0..len - 1, path[i + 1] = "%builtin" PROVE m - 1 =< i
    <3>1. i + 1 \in I
      BY <1>0, <2>6
    <3>2. m =< i + 1
      BY <2>2, <3>1
    <3> QED
      BY <2>3, <3>2
  <2> QED
    BY <1>0, <2>3, <2>4, <2>5, <2>6
<1> QED
  BY <1>3, <1>4

\* What is known of the entries up to prev before find_command's walk.
Walks(path, dir, w, name, prev) ==
    /\ w.builtin[name] = "none" \/ (w.builtin[name] = "plain" /\ L!BuiltinAt(path) >= 0)
    /\ \A i \in 0..Len(path) - 1 :
          /\ i < prev => path[i + 1] = "" \/ ~Has(dir, w, name, path[i + 1])
          /\ i = prev => path[i + 1] \in {"", "%builtin"} \/ Has(dir, w, name, path[i + 1])

\* The search along PATH, from where it may begin, finds what is first.
LEMMA WalkSettles ==
    ASSUME NEW c, NEW w, NEW name \in Names, NEW path \in Seq(STRING), NEW prev \in Int,
           Walks(path, c.cwd, w, name, prev)
    PROVE  Settles(L!Walk(c, w.files, w.builtin, name, path, prev), path, c.cwd, w, name)
<1> DEFINE stops(i) == \/ path[i + 1] = "%builtin" /\ w.builtin[name] # "none"
                       \/ path[i + 1] \notin {"", "%builtin"} /\ i = prev
                       \/ /\ path[i + 1] = "" \/ i > prev
                          /\ L!Stat(c, w.files, path[i + 1], name)
           at == {i \in 0..Len(path) - 1 : stops(i)}
           b == w.builtin[name]
           has(i) == Has(c.cwd, w, name, path[i + 1])
           e == L!Walk(c, w.files, w.builtin, name, path, prev)
           loc == L!BuiltinAt(path)
<1>0. PICK len \in Nat : len = Len(path)
  OBVIOUS
<1>1. e = IF at = {} THEN L!None
          ELSE L!Entry(IF path[L!Min(at) + 1] = "%builtin" THEN "builtin" ELSE "normal", L!Min(at))
  BY DEF L!Walk
<1>2. \A i \in 0..len - 1 : path[i + 1] = "%builtin" => ~has(i)
  BY DEF Has
<1>3. ASSUME NEW i \in 0..len - 1
      PROVE  stops(i) <=> (path[i + 1] = "%builtin" /\ b # "none") \/ has(i)
  <2>1. i < prev => path[i + 1] = "" \/ ~has(i)
    BY <1>0 DEF Walks
  <2>2. i = prev => path[i + 1] \in {"", "%builtin"} \/ has(i)
    BY <1>0 DEF Walks
  <2>3. L!Stat(c, w.files, path[i + 1], name) <=> has(i)
    BY StatIs
  <2>4. i < prev \/ i = prev \/ i > prev
    OBVIOUS
  <2>5. ~(i = prev /\ i > prev) /\ ~(i < prev /\ i > prev) /\ ~(i < prev /\ i = prev)
    OBVIOUS
  <2>6. path[i + 1] = "%builtin" => ~has(i)
    BY <1>2
  <2> HIDE DEF has
  <2> QED
    BY <2>1, <2>2, <2>3, <2>4, <2>5, <2>6
<1> HIDE DEF stops, has
<1>4. at \subseteq Nat /\ \A i : i \in at <=> i \in 0..len - 1 /\ stops(i)
  BY <1>0
<1>5. /\ loc \in Int /\ loc >= -1
      /\ loc >= 0 => loc \in 0..len - 1 /\ path[loc + 1] = "%builtin"
      /\ \A i \in 0..len - 1 : path[i + 1] = "%builtin" => 0 =< loc /\ loc =< i
  BY <1>0, BuiltinIs
<1> HIDE DEF at, loc, e
<1>6. b = "none" \/ (b = "plain" /\ loc >= 0)
  BY DEF loc, Walks
<1>7. e \in Entries /\ e.type # "function"
  BY WalkedEntry DEF e
<1>8. CASE at = {}
  <2>1. e = L!None
    BY <1>1, <1>8
  <2>2. \A i \in 0..len - 1 : ~has(i) /\ (path[i + 1] = "%builtin" => b = "none")
    BY <1>3, <1>4, <1>8
  <2>3. b = "none"
    BY <1>5, <1>6, <2>2
  <2>4. e.type = "none" /\ ~e.rehash
    BY <2>1 DEF L!None
  <2>5. EntryFits(e, path, c.cwd, w, name)
    BY <2>4 DEF EntryFits
  <2> QED
    BY <1>0, <1>7, <2>2, <2>3, <2>4, <2>5 DEF Settles, has, e
<1>9. CASE at # {}
  <2>1. L!Min(at) \in at /\ \A k \in at : L!Min(at) =< k
    BY <1>4, <1>9, LMin
  <2>2. PICK m \in at : m = L!Min(at) /\ \A k \in at : m =< k
    BY <2>1
  <2>3. m \in 0..len - 1 /\ m \in Nat /\ stops(m)
    BY <1>4, <2>2
  <2>4. \A i \in 0..m - 1 : i \in 0..len - 1 /\ i \notin at
    BY <1>4, <2>2, <2>3
  <2>5. \A i \in 0..m - 1 : ~has(i) /\ (path[i + 1] = "%builtin" => b = "none")
    BY <1>3, <1>4, <2>4
  <2>6. CASE path[m + 1] = "%builtin"
    <3>1. e = L!Entry("builtin", m)
      BY <1>1, <1>9, <2>2, <2>6
    <3>2. e.type = "builtin" /\ ~e.rehash
      BY <3>1 DEF L!Entry
    <3>3. ~has(m)
      BY <1>2, <2>3, <2>6
    <3>4. b = "plain" /\ loc >= 0 /\ loc =< m
      BY <1>3, <1>5, <1>6, <2>3, <2>6, <3>3
    <3>5. \A i \in 0..loc - 1 : i \in 0..m - 1
      BY <1>5, <2>3, <3>4
    <3>6. \A i \in 0..loc - 1 : Passed(path, c.cwd, e.rehash, w, name, i)
      BY <2>5, <3>5 DEF Passed, has
    <3>7. EntryFits(e, path, c.cwd, w, name)
      BY <3>2, <3>4, <3>6 DEF EntryFits, loc
    <3> QED
      BY <1>7, <3>2, <3>7 DEF Settles, e
  <2>7. CASE path[m + 1] # "%builtin"
    <3>1. e = L!Entry("normal", m)
      BY <1>1, <1>9, <2>2, <2>7
    <3>2. e.type = "normal" /\ ~e.rehash /\ e.index = m
      BY <3>1 DEF L!Entry
    <3>3. has(m)
      BY <1>3, <2>3, <2>7
    <3>4. b = "plain" => m < loc
      <4> SUFFICES ASSUME b = "plain", ~(m < loc) PROVE FALSE
        BY <1>5, <2>3
      <4>1. loc >= 0 /\ loc \in 0..len - 1 /\ path[loc + 1] = "%builtin" /\ loc # m
        BY <1>5, <1>6, <2>7
      <4>2. loc \in 0..m - 1
        BY <2>3, <4>1
      <4> QED
        BY <2>5, <4>1, <4>2
    <3>5. \A i \in 0..m - 1 : Passed(path, c.cwd, e.rehash, w, name, i)
      BY <2>5 DEF Passed, has
    <3>6. Reached(path, c.cwd, e.rehash, w, name, m)
      BY <3>3 DEF Reached, has
    <3>7. EntryFits(e, path, c.cwd, w, name)
      BY <1>0, <1>6, <2>3, <2>7, <3>2, <3>4, <3>5, <3>6 DEF EntryFits, loc
    <3> QED
      BY <1>7, <3>2, <3>7 DEF Settles, e
  <2> QED
    BY <2>6, <2>7
<1> QED
  BY <1>8, <1>9 DEF e

\* A builtin comes before what is on PATH, a plain one if %builtin does.
LEMMA BuiltinSettles ==
    ASSUME NEW path, NEW dir, NEW w, NEW name, w.builtin[name] # "none",
           w.builtin[name] = "plain" =>
               \A i \in 0..L!BuiltinAt(path) - 1 : ~Has(dir, w, name, path[i + 1])
    PROVE  Settles(L!Entry("builtin", -1), path, dir, w, name)
<1> DEFINE e == L!Entry("builtin", -1)
<1>1. e \in Entries /\ e.type = "builtin" /\ ~e.rehash
  BY DEF L!Entry, Entries
<1> HIDE DEF e
<1>2. EntryFits(e, path, dir, w, name)
  BY <1>1 DEF EntryFits, Passed
<1> QED
  BY <1>1, <1>2 DEF Settles, e

\* What find_command finds, with the help of the table or not, is what a
\* search would.
LEMMA FoundSettles ==
    ASSUME NEW c, NEW w, TableRight(c, w), NEW name \in Names, NEW path \in Seq(STRING),
           NEW alt \in BOOLEAN, NEW nofunc \in BOOLEAN, ~alt => path = c.path,
           w.builtin[name] \in {"none", "plain", "regular", "special"},
           c.table[name].type = "function" => nofunc
    PROVE  Settles(L!find_command(c, w.files, w.builtin, name, path, alt, nofunc).entry,
                   path, c.cwd, w, name)
<1> DEFINE cached == c.table[name]
           b == w.builtin[name]
           has(i) == Has(c.cwd, w, name, path[i + 1])
           loc == L!BuiltinAt(path)
           refused == \/ cached.type = "normal" /\ alt
                      \/ cached.type = "function" /\ nofunc
                      \/ cached.type = "builtin" /\ alt /\ loc >= 0
           cmdp == IF refused THEN L!None ELSE cached
           first == \/ b \in {"regular", "special"}
                    \/ b = "plain" /\ IF alt THEN loc < 0 ELSE c.builtinloc =< 0
           prev == IF ~cmdp.rehash THEN -1
                   ELSE IF cmdp.type = "builtin" THEN c.builtinloc ELSE cmdp.index
           walked == L!Walk(c, w.files, w.builtin, name, path, prev)
           found == IF cmdp.type # "none" /\ ~cmdp.rehash THEN cmdp
                    ELSE IF first THEN L!Entry("builtin", -1) ELSE walked
           settled == IF found.type = "builtin" THEN L!Entry("builtin", -1) ELSE found
           Sure(e) == Settles(e, path, c.cwd, w, name)
<1>1. L!find_command(c, w.files, w.builtin, name, path, alt, nofunc).entry = settled
  BY DEF L!find_command
<1>2. /\ cached \in Entries /\ c.path \in Seq(STRING) /\ EntryFits(cached, c.path, c.cwd, w, name)
      /\ c.builtinloc = L!BuiltinAt(c.path)
  BY DEF TableRight, Tables, Placed
<1>3. /\ loc \in Int /\ loc >= -1
      /\ loc >= 0 => loc \in 0..Len(path) - 1 /\ path[loc + 1] = "%builtin"
  BY BuiltinIs
<1>4. /\ cmdp.type \in {"none", "normal", "builtin"} /\ cmdp \in Entries
      /\ cmdp.type # "none" => cmdp = cached
      /\ cmdp.type = "normal" => ~alt
      /\ cmdp.type = "builtin" => ~alt \/ loc < 0
      /\ cmdp.type = "none" => ~cmdp.rehash
  <2>1. CASE refused
    BY <2>1, NoneEntry DEF L!None
  <2>2. CASE ~refused
    <3>1. cmdp = cached /\ cached.type # "function"
      BY <2>2
    <3>2. cached.type \in {"none", "normal", "builtin"}
      BY <1>2, <3>1, EntryKinds
    <3>3. cached.type = "normal" => ~alt
      BY <2>2
    <3>4. cached.type = "builtin" => ~alt \/ loc < 0
      BY <1>3, <2>2
    <3>5. cached.type = "none" => ~cached.rehash
      BY <1>2 DEF EntryFits
    <3> HIDE DEF cached, cmdp
    <3> QED
      BY <1>2, <3>1, <3>2, <3>3, <3>4, <3>5
  <2> QED
    BY <2>1, <2>2
<1>5. b \in {"none", "plain", "regular", "special"}
  OBVIOUS
<1>6. alt \/ loc = c.builtinloc
  BY <1>2
<1>7. ASSUME NEW e, Sure(e) PROVE IF e.type = "builtin" THEN Sure(L!Entry("builtin", -1)) ELSE Sure(e)
  <2> SUFFICES ASSUME e.type = "builtin" PROVE Sure(L!Entry("builtin", -1))
    BY <1>7
  <2>1. b # "none" /\ (b = "plain" => \A i \in 0..loc - 1 : ~has(i))
    BY <1>7 DEF Settles, EntryFits, Passed
  <2> QED
    BY <2>1, BuiltinSettles
<1>8. CASE cmdp.type # "none" /\ ~cmdp.rehash
  <2>1. cmdp = cached /\ found = cached
    BY <1>4, <1>8
  <2>2. CASE cached.type = "normal"
    <3>1. path = c.path
      BY <1>4, <2>1, <2>2
    <3>2. settled = cached
      BY <2>1, <2>2
    <3> QED
      BY <1>1, <1>2, <1>8, <2>1, <2>2, <3>1, <3>2 DEF Settles
  <2>3. CASE cached.type = "builtin"
    <3>1. settled = L!Entry("builtin", -1)
      BY <2>1, <2>3
    <3>2. b # "none"
      BY <1>2, <2>3 DEF EntryFits
    <3>3. b = "plain" => \A i \in 0..loc - 1 : ~has(i)
      <4>1. CASE loc < 0
        BY <1>3, <4>1
      <4>2. CASE ~alt
        BY <1>2, <1>8, <2>1, <2>3, <4>2 DEF EntryFits, Passed
      <4> QED
        BY <1>4, <2>1, <2>3, <4>1, <4>2
    <3> QED
      BY <1>1, <3>1, <3>2, <3>3, BuiltinSettles
  <2> QED
    BY <1>4, <1>8, <2>1, <2>2, <2>3
<1>9. CASE ~(cmdp.type # "none" /\ ~cmdp.rehash) /\ first
  <2>1. found = L!Entry("builtin", -1)
    BY <1>9
  <2>2. settled = L!Entry("builtin", -1)
    BY <2>1
  <2>3. b # "none" /\ (b = "plain" => loc =< 0)
    BY <1>3, <1>6, <1>9
  <2>4. b = "plain" => \A i \in 0..loc - 1 : ~has(i)
    BY <1>3, <2>3
  <2> QED
    BY <1>1, <2>2, <2>3, <2>4, BuiltinSettles
<1>10. CASE ~(cmdp.type # "none" /\ ~cmdp.rehash) /\ ~first
  <2>1. b = "none" \/ (b = "plain" /\ loc >= 0)
    BY <1>3, <1>5, <1>6, <1>10
  <2>2. prev \in Int /\ Walks(path, c.cwd, w, name, prev)
    <3>1. CASE ~cmdp.rehash
      <4>1. prev = -1
        BY <3>1
      <4>2. \A i \in 0..Len(path) - 1 : ~(i < -1) /\ i # -1
        OBVIOUS
      <4> HIDE DEF prev
      <4>3. Walks(path, c.cwd, w, name, -1)
        BY <2>1, <4>2 DEF Walks
      <4> QED
        BY <4>1, <4>3
    <3>2. CASE cmdp.rehash
      <4>1. cmdp = cached /\ cmdp.type \in {"normal", "builtin"}
        BY <1>4, <3>2
      <4>2. cached.rehash = TRUE
        BY <1>2, <3>2, <4>1, EntryKinds
      <4>3. CASE cmdp.type = "normal"
        <5>1. prev = cached.index /\ path = c.path
          BY <1>4, <3>2, <4>1, <4>3
        <5>2. /\ prev \in 0..Len(path) - 1
              /\ \A i \in 0..prev - 1 : path[i + 1] = "" \/ ~has(i)
              /\ path[prev + 1] = "" \/ has(prev)
          BY <1>2, <4>1, <4>3, <5>1 DEF EntryFits, Passed, Reached
        <5> HIDE DEF prev, has, b, loc
        <5>3. prev \in Int
          <6>1. 0..Len(path) - 1 \subseteq Int
            OBVIOUS
          <6> QED
            BY <5>2, <6>1
        <5>4. ASSUME NEW i \in 0..Len(path) - 1
              PROVE  /\ i < prev => path[i + 1] = "" \/ ~has(i)
                     /\ i = prev => path[i + 1] \in {"", "%builtin"} \/ has(i)
          <6>1. i < prev => i \in 0..prev - 1
            BY <5>3
          <6> QED
            BY <5>2, <6>1
        <5> QED
          BY <2>1, <5>3, <5>4 DEF Walks, has, b, loc
      <4>4. CASE cmdp.type = "builtin"
        <5>1. prev = c.builtinloc /\ b = "plain"
          BY <1>2, <3>2, <4>1, <4>2, <4>4 DEF EntryFits
        <5>2. ~alt
          BY <1>4, <2>1, <4>4, <5>1, <1>3
        <5>3. prev = loc /\ path = c.path /\ loc >= 0
          BY <1>6, <2>1, <5>1, <5>2
        <5>4. \A i \in 0..loc - 1 : path[i + 1] = "" \/ ~has(i)
          BY <1>2, <4>1, <4>4, <5>1, <5>3 DEF EntryFits, Passed
        <5> HIDE DEF prev, has, b, loc
        <5>5. ASSUME NEW i \in 0..Len(path) - 1
              PROVE  /\ i < prev => path[i + 1] = "" \/ ~has(i)
                     /\ i = prev => path[i + 1] \in {"", "%builtin"} \/ has(i)
          <6>1. i < prev => i \in 0..loc - 1
            BY <1>3, <5>3
          <6> QED
            BY <1>3, <5>3, <5>4, <6>1
        <5> QED
          BY <1>3, <2>1, <5>3, <5>5 DEF Walks, has, b, loc
      <4> QED
        BY <4>1, <4>3, <4>4
    <3> QED
      BY <3>1, <3>2
  <2>3. Sure(walked)
    <3> HIDE DEF prev
    <3> QED
      BY <2>2, WalkSettles
  <2>4. found = walked
    BY <1>10
  <2> HIDE DEF walked, found, Sure
  <2>5. Sure(settled)
    BY <1>7, <2>3, <2>4
  <2> QED
    BY <1>1, <2>5 DEF Sure
<1> QED
  BY <1>8, <1>9, <1>10
\* A table with one entry replaced.
LEMMA ReplacedRight ==
    ASSUME NEW c, NEW w, TableRight(c, w), NEW name \in Names, NEW e, NEW d \in Tables,
           d.path = c.path, d.cwd = c.cwd, d.locals = c.locals, d.builtinloc = c.builtinloc,
           \A n \in Names : d.table[n] = IF n = name THEN e ELSE c.table[n],
           EntryFits(e, c.path, c.cwd, w, name)
    PROVE  TableRight(d, w)
<1>1. \A n \in Names : EntryFits(c.table[n], c.path, c.cwd, w, n)
  BY DEF TableRight
<1>2. \A n \in Names : EntryFits(d.table[n], c.path, c.cwd, w, n)
  BY <1>1
<1> QED
  BY <1>2 DEF TableRight, Placed

\* What find_command puts into the table agrees with a search.
LEMMA FoundRight ==
    ASSUME NEW c, NEW w, TableRight(c, w), NEW name \in Names, NEW path \in Seq(STRING),
           NEW alt \in BOOLEAN, NEW nofunc \in BOOLEAN, ~alt => path = c.path,
           w.builtin[name] \in {"none", "plain", "regular", "special"}
    PROVE  TableRight(L!find_command(c, w.files, w.builtin, name, path, alt, nofunc).ct, w)
<1> DEFINE cached == c.table[name]
           refused == \/ cached.type = "normal" /\ alt
                      \/ cached.type = "function" /\ nofunc
                      \/ cached.type = "builtin" /\ alt /\ L!BuiltinAt(path) >= 0
           update == ~alt /\ ~refused
           found == L!find_command(c, w.files, w.builtin, name, path, alt, nofunc)
           d == found.ct
           e == found.entry
<1>1. d = IF update THEN [c EXCEPT !.table[name] = e] ELSE c
  BY DEF L!find_command
<1>2. c \in Tables /\ cached \in Entries /\ EntryFits(cached, c.path, c.cwd, w, name)
  BY DEF TableRight, Tables
<1>3. e \in Entries /\ (e.type = "function" => e = cached)
  BY <1>2, FoundLike
<1>4. CASE ~update
  BY <1>1, <1>4
<1>5. CASE update
  <2>0. path = c.path /\ (cached.type = "function" => ~nofunc)
    BY <1>5
  <2>1. EntryFits(e, c.path, c.cwd, w, name)
    <3>1. CASE cached.type = "function"
      <4>1. ~cached.rehash
        BY <1>2, <3>1, EntryKinds DEF L!Entry
      <4>2. e = cached
        BY <2>0, <3>1, <4>1 DEF L!find_command
      <4> QED
        BY <1>2, <4>2
    <3>2. CASE cached.type # "function"
      <4>1. Settles(e, path, c.cwd, w, name)
        <5> HIDE DEF e
        <5>1. c.table[name].type = "function" => nofunc
          BY <3>2
        <5> QED
          BY <5>1, FoundSettles DEF e
      <4> QED
        BY <2>0, <4>1 DEF Settles
    <3> QED
      BY <3>1, <3>2
  <2>2. d = [c EXCEPT !.table[name] = e]
    BY <1>1, <1>5
  <2> HIDE DEF d, e, cached, update, found
  <2>3. /\ d \in Tables /\ d.path = c.path /\ d.cwd = c.cwd /\ d.locals = c.locals
        /\ d.builtinloc = c.builtinloc
        /\ \A n \in Names : d.table[n] = IF n = name THEN e ELSE c.table[n]
    BY <1>2, <1>3, <2>2 DEF Tables
  <2>4. TableRight(d, w)
    BY <2>1, <2>3, ReplacedRight
  <2> QED
    BY <2>4 DEF d, found
<1> QED
  BY <1>4, <1>5

\* clearcmdentry alone, from the first entry.
LEMMA ClearedRight ==
    ASSUME NEW c, NEW w, TableRight(c, w), NEW first \in Int
    PROVE  TableRight(L!clearcmdentry(c, first), w)
<1> DEFINE d == L!clearcmdentry(c, first)
<1>1. c \in Tables /\ \A n \in Names : EntryFits(c.table[n], c.path, c.cwd, w, n)
  BY DEF TableRight
<1>2. /\ d \in Tables /\ d.locals = c.locals /\ d.path = c.path /\ d.cwd = c.cwd
      /\ d.builtinloc = c.builtinloc
      /\ \A n \in Names : d.table[n] = c.table[n] \/ d.table[n] = L!None
  <2>1. d \in Tables /\ d.locals = c.locals /\ d.path = c.path /\ d.cwd = c.cwd
    BY <1>1, Cleared
  <2>2. d.builtinloc = c.builtinloc /\ \A n \in Names : d.table[n] = c.table[n] \/ d.table[n] = L!None
    BY <1>1 DEF L!clearcmdentry, Tables
  <2> QED
    BY <2>1, <2>2
<1>3. \A n \in Names : EntryFits(L!None, c.path, c.cwd, w, n)
  BY DEF EntryFits, L!None
<1> HIDE DEF d
<1>4. \A n \in Names : EntryFits(d.table[n], c.path, c.cwd, w, n)
  BY <1>1, <1>2, <1>3
<1>5. TableRight(d, w)
  BY <1>2, <1>4 DEF TableRight, Placed
<1> QED
  BY <1>5 DEF d

\* What the values of PATH have in common before the first change.
LEMMA CommonPrefix ==
    ASSUME NEW old \in Seq(STRING), NEW new \in Seq(STRING), old # new,
           NEW i \in 0..L!FirstChange(old, new) - 1
    PROVE  i \in 0..Len(old) - 1 /\ i \in 0..Len(new) - 1 /\ old[i + 1] = new[i + 1]
<1> DEFINE common == {k \in 1..Len(old) : k =< Len(new) /\ old[k] = new[k]}
           I == {k \in 0..Len(old) : 1..k \subseteq common}
<1>0. PICK n \in Nat : n = Len(old)
  OBVIOUS
<1>9. PICK m \in Nat : m = Len(new)
  OBVIOUS
<1>1. L!FirstChange(old, new) = L!Max(I)
  BY DEF L!FirstChange
<1>2. I \subseteq Nat /\ 0 \in I /\ \A k \in I : k =< n
  BY <1>0
<1>3. L!Max(I) \in I
  <2> HIDE DEF I
  <2> QED
    BY <1>2, LMax
<1>4. PICK f \in I : f = L!FirstChange(old, new)
  BY <1>1, <1>3
<1>5. f \in Nat /\ 1..f \subseteq common
  BY <1>4
<1>6. i + 1 \in 1..f /\ i \in Nat
  BY <1>4, <1>5
<1>7. i + 1 \in 1..n /\ i + 1 =< m /\ old[i + 1] = new[i + 1]
  BY <1>0, <1>9, <1>5, <1>6
<1>8. i \in 0..n - 1 /\ i \in 0..m - 1
  BY <1>6, <1>7
<1> QED
  BY <1>0, <1>9, <1>7, <1>8

\* After changepath the entries that stay agree with a search of the new PATH.
LEMMA PathRight ==
    ASSUME NEW c, NEW w, TableRight(c, w), w.paths \subseteq Seq(STRING), NEW new \in w.paths
    PROVE  TableRight(L!changepath(c, new), w)
<1> DEFINE bltin == L!BuiltinAt(new)
           was == L!BuiltinAt(c.path)
           loc == IF c.builtinloc < 0 THEN bltin ELSE c.builtinloc
           first == IF loc >= 0 /\ bltin < 0 THEN 0 ELSE L!FirstChange(c.path, new)
           d == L!changepath(c, new)
           gone(n) == \/ c.table[n].type = "normal" /\ c.table[n].index >= first
                      \/ c.table[n].type = "builtin" /\ loc >= first
<1>1. /\ c \in Tables /\ c.path \in Seq(STRING) /\ c.path \in w.paths /\ c.cwd \in w.cwds
      /\ c.locals \in Seq(Seq(w.paths)) /\ c.builtinloc = was
      /\ \A n \in Names : c.table[n] \in Entries /\ EntryFits(c.table[n], c.path, c.cwd, w, n)
  BY DEF TableRight, Tables, Placed
<1>2. d \in Tables /\ d.locals = c.locals /\ d.path = new /\ d.cwd = c.cwd
  BY <1>1, PathChanged
<1>3. /\ d.builtinloc = bltin
      /\ \A n \in Names : d.table[n] = IF gone(n) THEN L!None ELSE c.table[n]
  <2> DEFINE b == [c EXCEPT !.builtinloc = loc]
             e == L!clearcmdentry(b, first)
  <2>1. d = [e EXCEPT !.builtinloc = bltin, !.path = new]
    BY DEF L!changepath
  <2> HIDE DEF loc, first, bltin
  <2>2. b.table = c.table /\ b.builtinloc = loc
    BY <1>1 DEF Tables
  <2>4. e = [b EXCEPT !.table = [n \in Names |-> IF gone(n) THEN L!None ELSE c.table[n]]]
    BY <2>2 DEF L!clearcmdentry
  <2>3. /\ e.table = [n \in Names |-> IF gone(n) THEN L!None ELSE c.table[n]]
        /\ DOMAIN e = DOMAIN c
    BY <1>1, <2>4 DEF Tables
  <2>5. DOMAIN c = {"path", "builtinloc", "cwd", "table", "count", "locals"}
    BY <1>1 DEF Tables
  <2> HIDE DEF e, gone
  <2>6. d.builtinloc = bltin /\ d.table = e.table
    BY <2>1, <2>3, <2>5
  <2> QED
    BY <2>3, <2>6
<1>4. /\ was \in Int /\ was >= -1 /\ bltin \in Int /\ bltin >= -1
      /\ was >= 0 => was \in 0..Len(c.path) - 1 /\ c.path[was + 1] = "%builtin"
      /\ bltin >= 0 => bltin \in 0..Len(new) - 1 /\ new[bltin + 1] = "%builtin"
      /\ \A i \in 0..Len(c.path) - 1 : c.path[i + 1] = "%builtin" => 0 =< was /\ was =< i
      /\ \A i \in 0..Len(new) - 1 : new[i + 1] = "%builtin" => 0 =< bltin /\ bltin =< i
  BY <1>1, BuiltinIs
<1>5. \A n \in Names : EntryFits(L!None, new, c.cwd, w, n)
  BY DEF EntryFits, L!None
<1>6. L!FirstChange(c.path, new) \in Nat
  BY <1>1, ChangePlace
<1> HIDE DEF d, was
<1>7. ASSUME NEW n \in Names, ~gone(n)
      PROVE  EntryFits(c.table[n], new, c.cwd, w, n)
  <2> DEFINE e == c.table[n]
  <2>1. EntryFits(e, c.path, c.cwd, w, n)
    BY <1>1
  <2>2. CASE c.path = new
    BY <2>1, <2>2
  <2>3. CASE c.path # new
    <3> DEFINE change == L!FirstChange(c.path, new)
    <3>1. \A i \in 0..change - 1 :
             i \in 0..Len(c.path) - 1 /\ i \in 0..Len(new) - 1 /\ c.path[i + 1] = new[i + 1]
      BY <1>1, <2>3, CommonPrefix
    <3>2. change \in Nat
      BY <1>6
    <3> HIDE DEF change, bltin
    <3>3. CASE e.type = "normal"
      <4>1. e.index \in 0..Len(c.path) - 1 /\ e.index \in Nat
        BY <2>1, <3>3 DEF EntryFits
      <4>2. e.index < first
        BY <1>6, <1>7, <3>3, <4>1 DEF change
      <4>3. e.index < change /\ ~(loc >= 0 /\ bltin < 0)
        BY <4>1, <4>2 DEF change
      <4>4. e.index \in 0..change - 1 /\ \A i \in 0..e.index - 1 : i \in 0..change - 1
        BY <3>2, <4>1, <4>3
      <4>5. /\ e.index \in 0..Len(new) - 1 /\ new[e.index + 1] = c.path[e.index + 1]
            /\ \A i \in 0..e.index - 1 : new[i + 1] = c.path[i + 1]
        BY <3>1, <4>4
      <4>6. ASSUME w.builtin[n] = "plain" PROVE e.index < bltin
        <5>1. e.index < was
          BY <2>1, <3>3, <4>6 DEF EntryFits, was
        <5>2. loc = was /\ was >= 0 /\ bltin >= 0
          BY <1>1, <1>4, <4>1, <4>3, <5>1
        <5> SUFFICES ASSUME bltin =< e.index PROVE FALSE
          BY <1>4, <4>1
        <5>3. bltin \in 0..change - 1
          BY <1>4, <4>1, <4>4, <5>2
        <5>4. bltin \in 0..Len(c.path) - 1 /\ c.path[bltin + 1] = "%builtin"
          BY <1>4, <3>1, <5>2, <5>3
        <5> QED
          BY <1>4, <4>1, <5>1, <5>4
      <4>7. \A i \in 0..e.index - 1 : Passed(new, c.cwd, e.rehash, w, n, i)
        BY <2>1, <3>3, <4>5 DEF EntryFits, Passed
      <4>8. Reached(new, c.cwd, e.rehash, w, n, e.index)
        BY <2>1, <3>3, <4>5 DEF EntryFits, Reached
      <4>9. new[e.index + 1] # "%builtin" /\ w.builtin[n] \in {"none", "plain"}
        BY <2>1, <3>3, <4>5 DEF EntryFits
      <4> QED
        BY <3>3, <4>5, <4>6, <4>7, <4>8, <4>9 DEF EntryFits, bltin
    <3>4. CASE e.type = "builtin"
      <4>1. loc < first
        BY <1>1, <1>4, <1>6, <1>7, <3>4 DEF change
      <4>2. bltin = was
        <5>1. CASE was < 0
          <6> SUFFICES ASSUME bltin >= 0 PROVE FALSE
            BY <1>4, <5>1
          <6>4. loc = bltin
            BY <1>1, <5>1
          <6>5. first = change
            BY <1>4, <6>4 DEF change
          <6>1. bltin < change
            BY <4>1, <6>4, <6>5
          <6>2. bltin \in 0..change - 1
            BY <1>4, <3>2, <6>1
          <6>3. bltin \in 0..Len(c.path) - 1 /\ c.path[bltin + 1] = "%builtin"
            BY <1>4, <3>1, <6>2
          <6> QED
            BY <1>4, <5>1, <6>3
        <5>2. CASE was >= 0
          <6>1. loc = was
            BY <1>1, <1>4, <5>2
          <6>2. bltin >= 0 /\ was < change
            BY <1>4, <4>1, <5>2, <6>1 DEF change
          <6>3. was \in 0..change - 1
            BY <1>4, <3>2, <5>2, <6>2
          <6>4. was \in 0..Len(new) - 1 /\ new[was + 1] = "%builtin"
            BY <1>4, <3>1, <5>2, <6>3
          <6>5. bltin =< was
            BY <1>4, <6>4
          <6>6. bltin \in 0..change - 1
            BY <1>4, <3>2, <6>2, <6>5
          <6>7. was =< bltin
            BY <1>4, <3>1, <6>2, <6>6
          <6> QED
            BY <1>4, <6>5, <6>7
        <5> QED
          BY <1>4, <5>1, <5>2
      <4>3. \A i \in 0..bltin - 1 : new[i + 1] = c.path[i + 1]
        <5>1. CASE was < 0
          BY <1>4, <4>2, <5>1
        <5>2. CASE was >= 0
          <6>1. loc = was
            BY <1>1, <1>4, <5>2
          <6>2. was < change
            BY <1>4, <4>1, <4>2, <5>2, <6>1 DEF change
          <6>3. \A i \in 0..bltin - 1 : i \in 0..change - 1
            BY <1>4, <3>2, <4>2, <6>2
          <6> QED
            BY <3>1, <6>3
        <5> QED
          BY <1>4, <5>1, <5>2
      <4> QED
        BY <2>1, <3>4, <4>2, <4>3 DEF EntryFits, Passed, was, bltin
    <3>5. CASE e.type \notin {"normal", "builtin"}
      BY <2>1, <3>5 DEF EntryFits
    <3> QED
      BY <3>3, <3>4, <3>5
  <2> QED
    BY <2>2, <2>3
<1> HIDE DEF gone
<1>8. \A n \in Names : EntryFits(d.table[n], new, c.cwd, w, n)
  BY <1>3, <1>5, <1>7
<1>9. TableRight(d, w)
  BY <1>1, <1>2, <1>3, <1>8 DEF TableRight, Placed
<1> QED
  BY <1>9 DEF d
\* The counts of functions do not matter, nor which values of PATH are saved.
LEMMA RightSame ==
    ASSUME NEW c, NEW w, TableRight(c, w), NEW d \in Tables, d.table = c.table, d.path = c.path,
           d.builtinloc = c.builtinloc, d.cwd = c.cwd, d.locals \in Seq(Seq(w.paths))
    PROVE  TableRight(d, w)
  BY DEF TableRight, Placed

\* So do they when several values of PATH are restored,
LEMMA RestoredRight ==
    ASSUME NEW c, NEW w, TableRight(c, w), w.paths \subseteq Seq(STRING), NEW values \in Seq(w.paths)
    PROVE  TableRight(L!Restored(c, values), w)
<1>1. PICK g : /\ g[0] = c
               /\ \A k \in 1..Len(values) : g[k] = L!changepath(g[k - 1], values[k])
               /\ L!Restored(c, values) = g[Len(values)]
  BY Restoring
<1>2. PICK n \in Nat : n = Len(values)
  OBVIOUS
<1> DEFINE H == {k \in 0..n : TableRight(g[k], w)}
<1>3. 0 \in H
  BY <1>1
<1>4. ASSUME NEW m \in 1..n, m - 1 \in H PROVE m \in H
  <2>1. TableRight(g[m - 1], w) /\ values[m] \in w.paths /\ g[m] = L!changepath(g[m - 1], values[m])
    BY <1>1, <1>2, <1>4
  <2>2. TableRight(g[m], w)
    BY <2>1, PathRight
  <2> QED
    BY <1>4, <2>2
<1>5. n \in H
  <2>1. n \in Nat /\ n \in 0..n
    BY <1>2
  <2> HIDE DEF H
  <2> QED BY <2>1, <1>3, <1>4, Upward
<1> QED
  BY <1>1, <1>2, <1>5

\* Lists of saved values.
LEMMA SavedValues ==
    ASSUME NEW S, NEW s \in Seq(Seq(S))
    PROVE  /\ <<<<>>>> \o s \in Seq(Seq(S))
           /\ \A p \in S : Len(s) >= 1 => [s EXCEPT ![1] = <<p>> \o s[1]] \in Seq(Seq(S))
<1>1. <<<<>>>> \o s \in Seq(Seq(S))
  <2>1. <<<<>>>> \in Seq(Seq(S))
    <3>1. <<>> \in Seq(S)
      OBVIOUS
    <3> HIDE DEF Seq
    <3> QED
      BY <3>1
  <2> QED
    BY <2>1
<1>2. ASSUME NEW p \in S, Len(s) >= 1 PROVE [s EXCEPT ![1] = <<p>> \o s[1]] \in Seq(Seq(S))
  <2>1. s[1] \in Seq(S) /\ <<p>> \in Seq(S)
    BY <1>2
  <2>2. <<p>> \o s[1] \in Seq(S)
    BY <2>1
  <2> QED
    BY <1>2, <2>2
<1> QED
  BY <1>1, <1>2

\* and a list of local variables begins,
LEMMA PushedRight ==
    ASSUME NEW c, NEW w, TableRight(c, w)
    PROVE  TableRight(L!pushlocalvars(c), w)
<1> DEFINE d == L!pushlocalvars(c)
<1>1. c \in Tables /\ c.locals \in Seq(Seq(w.paths))
  BY DEF TableRight, Placed
<1>2. d \in Tables
  BY <1>1, Pushed DEF Like
<1>3. /\ d.table = c.table /\ d.path = c.path /\ d.builtinloc = c.builtinloc /\ d.cwd = c.cwd
      /\ d.locals = <<<<>>>> \o c.locals
  BY <1>1 DEF L!pushlocalvars, Tables
<1>4. d.locals \in Seq(Seq(w.paths))
  BY <1>1, <1>3, SavedValues
<1> HIDE DEF d
<1>5. TableRight(d, w)
  BY <1>2, <1>3, <1>4, RightSame
<1> QED
  BY <1>5 DEF d

\* or ends,
LEMMA PoppedRight ==
    ASSUME NEW c, NEW w, TableRight(c, w), w.paths \subseteq Seq(STRING), NEW keep \in {0, 1},
           Len(c.locals) >= 1
    PROVE  TableRight(L!poplocalvars(c, keep), w)
<1> DEFINE b == IF keep = 1 THEN c ELSE L!Restored(c, Head(c.locals))
           d == L!poplocalvars(c, keep)
<1>1. c \in Tables /\ c.locals \in Seq(Seq(w.paths)) /\ c.locals # <<>>
  BY DEF TableRight, Placed
<1>2. Head(c.locals) \in Seq(w.paths) /\ Tail(c.locals) \in Seq(Seq(w.paths))
  BY <1>1, HeadTailOf
<1>3. TableRight(b, w)
  BY <1>2, RestoredRight
<1>4. d \in Tables /\ d.locals = Tail(c.locals)
  BY <1>1, Popped DEF Like
<1>5. d = [b EXCEPT !.locals = Tail(@)]
  BY DEF L!poplocalvars
<1> HIDE DEF b, d
<1>6. b \in Tables
  BY <1>3 DEF TableRight
<1>7. d.table = b.table /\ d.path = b.path /\ d.builtinloc = b.builtinloc /\ d.cwd = b.cwd
  BY <1>5, <1>6 DEF Tables
<1>8. TableRight(d, w)
  BY <1>2, <1>3, <1>4, <1>7, RightSame
<1> QED
  BY <1>8 DEF d

\* or several end,
LEMMA UnwoundRight ==
    ASSUME NEW c, NEW w, TableRight(c, w), w.paths \subseteq Seq(STRING), NEW stop \in Nat
    PROVE  TableRight(L!unwindlocalvars(c, stop), w)
<1>0. c \in Tables
  BY DEF TableRight
<1>1. CASE ~(Len(c.locals) > stop)
  <2>1. Len(c.locals) \in Nat
    BY <1>0 DEF Tables
  <2>2. L!unwindlocalvars(c, stop) = c
    BY <1>1, <2>1 DEF L!unwindlocalvars
  <2> QED
    BY <2>2
<1>2. CASE Len(c.locals) > stop
  <2>1. Len(c.locals) \in Nat /\ Len(c.locals) - stop \in Nat
    BY <1>0, <1>2 DEF Tables
  <2>2. PICK g : /\ g[0] = c
                 /\ \A k \in 1..Len(c.locals) - stop : g[k] = L!poplocalvars(g[k - 1], 0)
                 /\ L!unwindlocalvars(c, stop) = g[Len(c.locals) - stop]
    BY <2>1, Unwinding
  <2>3. PICK n \in Nat : n = Len(c.locals) - stop
    BY <2>1
  <2> DEFINE H == {k \in 0..n : TableRight(g[k], w) /\ Len(g[k].locals) = Len(c.locals) - k}
  <2>4. 0 \in H
    BY <2>1, <2>2
  <2>5. ASSUME NEW m \in 1..n, m - 1 \in H PROVE m \in H
    <3>1. TableRight(g[m - 1], w) /\ g[m] = L!poplocalvars(g[m - 1], 0)
      BY <2>2, <2>3, <2>5
    <3>2. Len(g[m - 1].locals) = Len(c.locals) - (m - 1)
      BY <2>5
    <3>3. Len(g[m - 1].locals) >= 1
      BY <2>1, <2>3, <3>2
    <3>4. TableRight(g[m], w)
      BY <3>1, <3>3, PoppedRight
    <3>5. Len(g[m].locals) = Len(g[m - 1].locals) - 1
      BY <3>1, <3>3, Popped DEF TableRight
    <3>6. Len(g[m].locals) = Len(c.locals) - m
      BY <2>1, <3>2, <3>5
    <3> QED
      BY <2>5, <3>4, <3>6
  <2>6. n \in H
    <3>1. n \in Nat /\ n \in 0..n
      BY <2>3
    <3> HIDE DEF H
    <3> QED BY <3>1, <2>4, <2>5, Upward
  <2> QED
    BY <2>2, <2>3, <2>6
<1> QED
  BY <1>1, <1>2

\* or PATH becomes local.
LEMMA LocalRight ==
    ASSUME NEW c, NEW w, TableRight(c, w), w.paths \subseteq Seq(STRING), NEW path \in w.paths,
           Len(c.locals) >= 1
    PROVE  TableRight(L!mklocal(c, path), w)
<1> DEFINE b == L!changepath(c, path)
           d == L!mklocal(c, path)
<1>1. c \in Tables /\ c.path \in w.paths /\ c.locals \in Seq(Seq(w.paths)) /\ path \in Seq(STRING)
  BY DEF TableRight, Placed
<1>2. TableRight(b, w)
  BY PathRight
<1>3. b \in Tables /\ b.locals = c.locals
  BY <1>1, PathChanged
<1>4. d \in Tables
  BY <1>1, MadeLocal DEF Like
<1>5. d = [b EXCEPT !.locals[1] = <<c.path>> \o @]
  BY DEF L!mklocal
<1>6. 1 \in 1..Len(c.locals)
  <2>1. Len(c.locals) \in Nat
    BY <1>1 DEF Tables
  <2> QED
    BY <2>1
<1> DEFINE new == [c.locals EXCEPT ![1] = <<c.path>> \o c.locals[1]]
<1>8. new \in Seq(Seq(w.paths))
  BY <1>1, SavedValues
<1> HIDE DEF b, d
<1>9. /\ d.table = b.table /\ d.path = b.path /\ d.builtinloc = b.builtinloc /\ d.cwd = b.cwd
      /\ d.locals = new
  BY <1>3, <1>5, <1>6 DEF Tables
<1> HIDE DEF new
<1>10. TableRight(d, w)
  BY <1>2, <1>4, <1>8, <1>9, RightSame
<1> QED
  BY <1>10 DEF d

\* cd: entries after the current directory in PATH are looked for again.
LEMMA CdRight ==
    ASSUME NEW c, NEW w, TableRight(c, w), NEW dir \in w.cwds, w.cwds \subseteq STRING
    PROVE  TableRight([L!hashcd(c, w.builtin) EXCEPT !.cwd = dir], w)
<1> DEFINE gone(n) == \/ c.table[n].type = "normal"
                      \/ c.table[n].type = "builtin" /\ w.builtin[n] = "plain" /\ c.builtinloc > 0
           b == L!hashcd(c, w.builtin)
           d == [b EXCEPT !.cwd = dir]
<1>1. /\ c \in Tables /\ c.locals \in Seq(Seq(w.paths)) /\ c.path \in w.paths
      /\ c.builtinloc = L!BuiltinAt(c.path) /\ c.path \in Seq(STRING)
      /\ \A n \in Names : c.table[n] \in Entries /\ EntryFits(c.table[n], c.path, c.cwd, w, n)
  BY DEF TableRight, Placed, Tables
<1>2. b \in Tables /\ b.locals = c.locals /\ b.path = c.path /\ b.builtinloc = c.builtinloc
  BY <1>1, CdLike DEF Like
<1>3. \A n \in Names :
         b.table[n] = IF gone(n) THEN [c.table[n] EXCEPT !.rehash = TRUE] ELSE c.table[n]
  BY <1>1 DEF L!hashcd, Tables
<1> HIDE DEF b
<1>4. /\ d \in Tables /\ d.locals = c.locals /\ d.path = c.path /\ d.builtinloc = c.builtinloc
      /\ d.cwd = dir /\ d.table = b.table
  BY <1>2 DEF Tables
<1>5. ASSUME NEW n \in Names PROVE EntryFits(b.table[n], c.path, dir, w, n)
  <2> DEFINE e == c.table[n]
             f == b.table[n]
  <2>1. e \in Entries /\ EntryFits(e, c.path, c.cwd, w, n)
    BY <1>1
  <2>2. e.rehash \in BOOLEAN
    BY <2>1, EntryKinds
  <2>3. CASE gone(n)
    <3>1. f = [e EXCEPT !.rehash = TRUE]
      BY <1>3, <2>3
    <3>2. e \in [type : {"none", "normal", "builtin"}, index : Int, rehash : BOOLEAN]
      BY <2>1, <2>3, EntryKinds
    <3> HIDE DEF e, f
    <3>3. f.type = e.type /\ f.index = e.index /\ f.rehash
      BY <3>1, <3>2
    <3>4. \A i : Passed(c.path, c.cwd, e.rehash, w, n, i) => Passed(c.path, dir, f.rehash, w, n, i)
      BY <3>3 DEF Passed, Has
    <3>5. \A i : Reached(c.path, c.cwd, e.rehash, w, n, i) => Reached(c.path, dir, f.rehash, w, n, i)
      BY <3>3 DEF Reached, Has
    <3>6. CASE e.type = "normal"
      <4>1. /\ f.type = "normal" /\ f.index = e.index /\ f.index \in 0..Len(c.path) - 1
            /\ c.path[f.index + 1] # "%builtin"
            /\ w.builtin[n] \in {"none", "plain"}
            /\ w.builtin[n] = "plain" => f.index < L!BuiltinAt(c.path)
        BY <2>1, <3>3, <3>6 DEF EntryFits
      <4>2. /\ \A i \in 0..f.index - 1 : Passed(c.path, dir, f.rehash, w, n, i)
            /\ Reached(c.path, dir, f.rehash, w, n, f.index)
        BY <2>1, <3>3, <3>4, <3>5, <3>6 DEF EntryFits
      <4>3. EntryFits(f, c.path, dir, w, n)
        BY <4>1, <4>2 DEF EntryFits
      <4> QED
        BY <4>3 DEF f
    <3>7. CASE e.type = "builtin" /\ w.builtin[n] = "plain" /\ c.builtinloc > 0
      <4>1. /\ f.type = "builtin" /\ w.builtin[n] = "plain" /\ L!BuiltinAt(c.path) > 0
            /\ \A i \in 0..L!BuiltinAt(c.path) - 1 : Passed(c.path, dir, f.rehash, w, n, i)
        BY <1>1, <2>1, <3>3, <3>4, <3>7 DEF EntryFits
      <4>2. EntryFits(f, c.path, dir, w, n)
        BY <4>1 DEF EntryFits
      <4> QED
        BY <4>2 DEF f
    <3> QED
      BY <2>3, <3>6, <3>7 DEF e
  <2>4. CASE ~gone(n)
    <3>1. f = e /\ e.type # "normal"
      BY <1>3, <2>4
    <3>2. CASE e.type = "builtin"
      <4>1. ~(w.builtin[n] = "plain" /\ L!BuiltinAt(c.path) > 0)
        BY <1>1, <2>4, <3>2
      <4>2. ~e.rehash
        BY <2>1, <3>2, <4>1 DEF EntryFits
      <4>3. L!BuiltinAt(c.path) \in Int
        BY <1>1, BuiltinPlace
      <4>4. w.builtin[n] = "plain" => \A i \in 0..L!BuiltinAt(c.path) - 1 : FALSE
        BY <4>1, <4>3
      <4> QED
        BY <2>1, <3>1, <3>2, <4>2, <4>4 DEF EntryFits
    <3>3. CASE e.type # "builtin"
      BY <2>1, <3>1, <3>3 DEF EntryFits
    <3> QED
      BY <3>2, <3>3
  <2> QED
    BY <2>3, <2>4
<1> HIDE DEF d, gone
<1>6. TableRight(d, w)
  BY <1>1, <1>4, <1>5 DEF TableRight, Placed
<1> QED
  BY <1>6 DEF d, b

\* An entry that is dropped, or becomes a function, needs no search.
LEMMA ForgottenRight ==
    ASSUME NEW c, NEW w, TableRight(c, w), NEW name \in Names, NEW d \in Tables, NEW e,
           d.path = c.path, d.cwd = c.cwd, d.locals = c.locals, d.builtinloc = c.builtinloc,
           \A n \in Names : d.table[n] = IF n = name THEN e ELSE c.table[n],
           e = L!None \/ e.type = "function"
    PROVE  TableRight(d, w)
<1>1. EntryFits(e, c.path, c.cwd, w, name)
  BY DEF EntryFits, L!None
<1> QED
  BY <1>1, ReplacedRight

\* What hashcmd puts into the table agrees with a search.
LEMMA HashedRight ==
    ASSUME NEW c, NEW w, TableRight(c, w), NEW name \in Names,
           w.builtin[name] \in {"none", "plain", "regular", "special"}
    PROVE  TableRight(L!hashcmd(c, w.files, w.builtin, name), w)
<1> DEFINE e == c.table[name]
           forgets == e.type = "normal" \/ (e.type = "builtin" /\ c.builtinloc >= 0)
           dropped == IF forgets THEN L!delete_cmd_entry(c, name) ELSE c
<1>1. L!hashcmd(c, w.files, w.builtin, name)
        = L!find_command(dropped, w.files, w.builtin, name, c.path, FALSE, FALSE).ct
  BY DEF L!hashcmd
<1>2. c \in Tables
  BY DEF TableRight
<1>3. TableRight(dropped, w) /\ dropped.path = c.path
  <2>1. CASE ~forgets
    BY <2>1
  <2>2. CASE forgets
    <3>1. e.type # "function"
      BY <2>2
    <3>2. dropped = [c EXCEPT !.table[name] = L!None]
      BY <2>2, <3>1 DEF L!delete_cmd_entry
    <3> HIDE DEF dropped
    <3>3. /\ dropped \in Tables /\ dropped.locals = c.locals /\ dropped.path = c.path
          /\ dropped.cwd = c.cwd /\ dropped.builtinloc = c.builtinloc
          /\ \A n \in Names : dropped.table[n] = IF n = name THEN L!None ELSE c.table[n]
      BY <1>2, <3>2, NoneEntry DEF Tables
    <3> QED
      BY <3>3, ForgottenRight
  <2> QED
    BY <2>1, <2>2
<1> HIDE DEF dropped
<1>4. c.path \in Seq(STRING)
  BY <1>2 DEF Tables
<1>5. \A alt \in BOOLEAN, nofunc \in BOOLEAN :
         (~alt => c.path = dropped.path) =>
         TableRight(L!find_command(dropped, w.files, w.builtin, name, c.path, alt, nofunc).ct, w)
  BY <1>3, <1>4, FoundRight
<1> QED
  BY <1>1, <1>3, <1>5

(***************************************************************************)
(* Redirections: the tables hold what gives each command its descriptors   *)
(* back.  The table at level k is that of the k-th command with            *)
(* redirections, from the outside; V[k + 1] is what it sees, and V[1] what *)
(* the shell sees.                                                         *)
(***************************************************************************)
Contents == {Closed, File, Terminal}
Marks == {R!EMPTY, R!CLOSED, R!REALLY_CLOSED} \cup SaveFds
RedirTabs == [UserFds -> Marks]
Views == [UserFds -> Seen]
TableAt(list, k) == list[Len(list) + 1 - k]

\* What n is to the k-th: the innermost of the first k that says what.
Shows(V, k, n, v) == v # Same /\ \E j \in 1..k : V[j][n] = v /\ \A i \in j + 1..k : V[i][n] = Same

\* A descriptor is only one thing to a command.
LEMMA ShowsOne ==
    ASSUME NEW V, NEW k \in Nat, NEW n, NEW v, NEW u, Shows(V, k, n, v), Shows(V, k, n, u)
    PROVE  u = v
<1>1. PICK j \in 1..k : V[j][n] = v /\ \A i \in j + 1..k : V[i][n] = Same
  BY DEF Shows
<1>2. PICK l \in 1..k : V[l][n] = u /\ \A i \in l + 1..k : V[i][n] = Same
  BY DEF Shows
<1>3. u # Same /\ v # Same
  BY DEF Shows
<1>4. l \notin j + 1..k /\ j \notin l + 1..k
  BY <1>1, <1>2, <1>3
<1>5. j = l
  BY <1>4
<1> QED
  BY <1>1, <1>2, <1>5

\* What a descriptor is to one command more.
LEMMA ShowsNext ==
    ASSUME NEW V, NEW k \in Nat, NEW l, l = k + 1, NEW n, NEW v
    PROVE  /\ Shows(V, l, n, v) => v # Same
           /\ Shows(V, l, n, v) /\ V[l][n] = Same => Shows(V, k, n, v)
           /\ Shows(V, l, n, v) => V[l][n] \in {Same, v}
           /\ V[l][n] = Same /\ Shows(V, k, n, v) => Shows(V, l, n, v)
           /\ v # Same /\ v = V[l][n] => Shows(V, l, n, v)
<1>1. ASSUME Shows(V, k + 1, n, v), V[k + 1][n] = Same PROVE Shows(V, k, n, v)
  <2>1. PICK j \in 1..k + 1 : V[j][n] = v /\ \A i \in j + 1..k + 1 : V[i][n] = Same
    BY <1>1 DEF Shows
  <2>2. v # Same
    BY <1>1 DEF Shows
  <2>3. j \in 1..k /\ \A i \in j + 1..k : i \in j + 1..k + 1
    BY <1>1, <2>1, <2>2
  <2> QED
    BY <2>1, <2>2, <2>3 DEF Shows
<1>2. ASSUME Shows(V, k + 1, n, v), V[k + 1][n] # Same PROVE v = V[k + 1][n]
  <2>1. PICK j \in 1..k + 1 : V[j][n] = v /\ \A i \in j + 1..k + 1 : V[i][n] = Same
    BY <1>2 DEF Shows
  <2>2. k + 1 \notin j + 1..k + 1
    BY <1>2, <2>1
  <2>3. j = k + 1
    BY <2>1, <2>2
  <2> QED
    BY <2>1, <2>3
<1>3. ASSUME V[k + 1][n] = Same, Shows(V, k, n, v) PROVE Shows(V, k + 1, n, v)
  <2>1. PICK j \in 1..k : V[j][n] = v /\ \A i \in j + 1..k : V[i][n] = Same
    BY <1>3 DEF Shows
  <2>2. j \in 1..k + 1 /\ \A i \in j + 1..k + 1 : i \in j + 1..k \/ i = k + 1
    BY <2>1
  <2>3. \A i \in j + 1..k + 1 : V[i][n] = Same
    BY <1>3, <2>1, <2>2
  <2> QED
    BY <1>3, <2>1, <2>2, <2>3 DEF Shows
<1>4. ASSUME v # Same, v = V[k + 1][n] PROVE Shows(V, k + 1, n, v)
  <2>1. k + 1 \in 1..k + 1 /\ (k + 1) + 1..k + 1 = {}
    OBVIOUS
  <2> QED
    BY <1>4, <2>1 DEF Shows
<1>5. Shows(V, k + 1, n, v) => v # Same
  BY DEF Shows
<1> QED
  BY <1>1, <1>2, <1>3, <1>4, <1>5

\* What it is to the k-th goes by the first k only.
LEMMA ShowsLike ==
    ASSUME NEW V, NEW U, NEW k \in Nat, NEW n, \A i \in 1..k : U[i][n] = V[i][n], NEW v
    PROVE  Shows(U, k, n, v) <=> Shows(V, k, n, v)
<1>1. \A j \in 1..k : \A i \in j + 1..k : i \in 1..k
  OBVIOUS
<1> QED
  BY <1>1 DEF Shows

(***************************************************************************)
(* The invariant of the tables.                                            *)
(***************************************************************************)
\* What the mark t for n, in the table at level k, says.
Saved(open, t, V, k, n, w) ==
    /\ t = R!EMPTY => \/ V[k + 1][n] = Same
                      \/ "exec" \notin w.program /\ Shows(V, k, n, V[k + 1][n])
    /\ t # R!EMPTY => V[k + 1][n] # Same
    /\ t \in SaveFds => open[t] # Closed /\ Shows(V, k, n, open[t])
    /\ t \in {R!CLOSED, R!REALLY_CLOSED} => Shows(V, k, n, Closed)
    /\ t = R!REALLY_CLOSED => V[k + 1][n] = Closed /\ ("exec" \in w.program => n \in Shuts(w))
DescTypes(r, V) ==
    /\ DOMAIN r = {"open", "list"} /\ r.open \in [AllFds -> Contents] /\ r.list \in Seq(RedirTabs)
    /\ V \in Seq(Views) /\ Len(V) = Len(r.list) + 1
SavedRight(r, V, w) == \A k \in 1..Len(r.list), n \in UserFds :
    Saved(r.open, TableAt(r.list, k)[n], V, k, n, w)
\* No two marks are the same copy.
CopiesApart(r) == \A k, l \in 1..Len(r.list), n, m \in UserFds :
    TableAt(r.list, k)[n] \in SaveFds /\ TableAt(r.list, k)[n] = TableAt(r.list, l)[m] => k = l /\ n = m
OpenRight(r, V) == \A n \in UserFds : Shows(V, Len(V), n, r.open[n])
NoneLeft(r) == \A c \in AllFds \ UserFds : r.open[c] # Closed =>
    \E k \in 1..Len(r.list), n \in UserFds : TableAt(r.list, k)[n] = c
Restores(r, V, w) ==
    DescTypes(r, V) /\ SavedRight(r, V, w) /\ CopiesApart(r) /\ OpenRight(r, V) /\ NoneLeft(r)

\* The descriptors that commands name and the copies are not the same, nor marks.
LEMMA FdsApart ==
    /\ UserFds \subseteq Nat /\ LowFds \subseteq Nat /\ SaveFds \subseteq Nat /\ AllFds \subseteq Nat
    /\ \A c \in SaveFds : c \notin UserFds /\ c \notin LowFds /\ c \in AllFds
    /\ \A n \in UserFds : n \in AllFds /\ n \notin SaveFds
    /\ R!EMPTY \notin SaveFds /\ R!CLOSED \notin SaveFds /\ R!REALLY_CLOSED \notin SaveFds
    /\ R!EMPTY = -2 /\ R!CLOSED = -1 /\ R!REALLY_CLOSED = -3 /\ R!NoFd = -2
    /\ \A n \in UserFds \cup LowFds \cup SaveFds : n \in Nat /\ n # -1 /\ n # -2 /\ n # -3
    /\ Contents \cap {Same} = {} /\ Seen = Contents \cup {Same} /\ Closed \in Contents /\ File \in Contents
<1>1. R!EMPTY = -2 /\ R!CLOSED = -1 /\ R!REALLY_CLOSED = -3 /\ R!NoFd = -2
  BY DEF R!EMPTY, R!CLOSED, R!REALLY_CLOSED, R!NoFd
<1>2. UserFds \subseteq Nat /\ LowFds \subseteq Nat /\ SaveFds \subseteq Nat
  BY DescriptorsAssumption
<1>3. \A n \in UserFds \cup LowFds \cup SaveFds : n \in Nat /\ n # -1 /\ n # -2 /\ n # -3
  BY <1>2
<1>4. \A c \in SaveFds : c \notin UserFds /\ c \notin LowFds /\ c \in AllFds
  BY DescriptorsAssumption DEF AllFds
<1>5. Contents \cap {Same} = {} /\ Seen = Contents \cup {Same} /\ Closed \in Contents /\ File \in Contents
  BY DescriptorsAssumption DEF Contents, Seen, Same
<1>6. \A n \in UserFds : n \in AllFds /\ n \notin SaveFds
  BY <1>4 DEF AllFds
<1> QED
  BY <1>1, <1>2, <1>3, <1>4, <1>5, <1>6 DEF AllFds

\* The first on the list is the table of the innermost.
LEMMA FirstTable ==
    ASSUME NEW S, NEW list \in Seq(S), list # <<>>
    PROVE  /\ Len(list) \in Nat \ {0} /\ Len(list) \in 1..Len(list)
           /\ Head(list) = TableAt(list, Len(list)) /\ list[1] = TableAt(list, Len(list))
           /\ \A k \in 1..Len(list) : TableAt(list, k) \in S
           /\ Tail(list) \in Seq(S) /\ Len(Tail(list)) = Len(list) - 1
           /\ \A k \in 1..Len(list) - 1 : TableAt(Tail(list), k) = TableAt(list, k)
<1>1. PICK len \in Nat \ {0} : len = Len(list)
  OBVIOUS
<1>2. Tail(list) \in Seq(S) /\ Len(Tail(list)) = len - 1
  BY <1>1
<1>3. \A i \in 1..len - 1 : Tail(list)[i] = list[i + 1]
  BY <1>1
<1>4. \A k \in 1..len - 1 : (len - 1) + 1 - k \in 1..len - 1 /\ (len - 1) + 1 - k + 1 = len + 1 - k
  BY <1>1
<1>5. \A k \in 1..len - 1 : TableAt(Tail(list), k) = TableAt(list, k)
  BY <1>1, <1>2, <1>3, <1>4 DEF TableAt
<1>6. \A k \in 1..len : len + 1 - k \in 1..len
  BY <1>1
<1>7. len + 1 - len = 1 /\ len \in 1..len
  BY <1>1
<1>8. Head(list) = list[1]
  OBVIOUS
<1> QED
  BY <1>1, <1>2, <1>5, <1>6, <1>7, <1>8 DEF TableAt

\* A new table is the last, from the outside.
LEMMA PushedTable ==
    ASSUME NEW S, NEW list \in Seq(S), NEW x \in S
    PROVE  /\ <<x>> \o list \in Seq(S) /\ Len(<<x>> \o list) = Len(list) + 1
           /\ TableAt(<<x>> \o list, Len(list) + 1) = x
           /\ \A k \in 1..Len(list) : TableAt(<<x>> \o list, k) = TableAt(list, k)
<1>1. PICK len \in Nat : len = Len(list)
  OBVIOUS
<1> DEFINE t == <<x>> \o list
<1>2. t \in Seq(S) /\ Len(t) = len + 1 /\ t[1] = x /\ \A i \in 1..len : t[i + 1] = list[i]
  BY <1>1
<1> HIDE DEF t
<1>3. \A k \in 1..len : len + 1 - k \in 1..len /\ (len + 1) + 1 - k = (len + 1 - k) + 1
  BY <1>1
<1>4. (len + 1) + 1 - (len + 1) = 1
  BY <1>1
<1> QED
  BY <1>1, <1>2, <1>3, <1>4 DEF TableAt, t

\* Another table for the innermost.
LEMMA ChangedTable ==
    ASSUME NEW S, NEW list \in Seq(S), list # <<>>, NEW x \in S
    PROVE  /\ [list EXCEPT ![1] = x] \in Seq(S) /\ Len([list EXCEPT ![1] = x]) = Len(list)
           /\ \A k \in 1..Len(list) :
                 TableAt([list EXCEPT ![1] = x], k) = IF k = Len(list) THEN x ELSE TableAt(list, k)
<1>1. PICK len \in Nat \ {0} : len = Len(list)
  OBVIOUS
<1> DEFINE t == [list EXCEPT ![1] = x]
<1>2. list \in [1..len -> S] /\ 1 \in 1..len
  BY <1>1
<1>3. t \in [1..len -> S] /\ t[1] = x /\ \A i \in 2..len : t[i] = list[i]
  BY <1>2
<1> HIDE DEF t
<1>4. t \in Seq(S) /\ Len(t) = len
  BY <1>3
<1>5. \A k \in 1..len : IF k = len THEN len + 1 - k = 1 ELSE len + 1 - k \in 2..len
  BY <1>1
<1> QED
  BY <1>1, <1>3, <1>4, <1>5 DEF TableAt, t

\* popredir gives back what there was.
LEMMA PopRestores ==
    ASSUME NEW r, NEW V, NEW w, Restores(r, V, w), r.list # <<>>
    PROVE  Restores(R!popredir(r, 0), Front(V), w)
<1> DEFINE p == R!popredir(r, 0)
           U == Front(V)
           tab == Head(r.list)
           copies == {tab[n] : n \in UserFds} \cap SaveFds
           left == {n \in UserFds : tab[n] \in {R!EMPTY, R!REALLY_CLOSED}}
           content(n) == CASE n \in copies \/ (n \in UserFds \ left /\ tab[n] = R!CLOSED) -> Closed
                           [] n \in UserFds \ left /\ tab[n] # R!CLOSED -> r.open[tab[n]]
                           [] OTHER -> r.open[n]
<1>1. /\ r.open \in [AllFds -> Contents] /\ r.list \in Seq(RedirTabs)
      /\ V \in Seq(Views) /\ Len(V) = Len(r.list) + 1
  BY DEF Restores, DescTypes
<1>2. PICK len \in Nat \ {0} : len = Len(r.list) /\ Len(V) = len + 1 /\ len \in 1..len
  BY <1>1
<1>3. /\ tab = TableAt(r.list, len) /\ tab \in RedirTabs
      /\ Tail(r.list) \in Seq(RedirTabs) /\ Len(Tail(r.list)) = len - 1
      /\ \A k \in 1..len - 1 : TableAt(Tail(r.list), k) = TableAt(r.list, k)
      /\ \A k \in 1..len : TableAt(r.list, k) \in RedirTabs
  BY <1>1, <1>2, FirstTable
<1>4. p = [open |-> [n \in DOMAIN r.open |-> content(n)], list |-> Tail(r.list)]
  BY DEF R!popredir
<1>5. DOMAIN p = {"open", "list"} /\ p.list = Tail(r.list) /\ p.open = [n \in AllFds |-> content(n)]
  <2> HIDE DEF content, p
  <2> QED BY <1>1, <1>4
<1>6. U \in Seq(Views) /\ Len(U) = len /\ \A i \in 1..len : U[i] = V[i]
  <2>1. V # <<>>
    BY <1>1, <1>2
  <2>2. Len(V) - 1 = len
    BY <1>2
  <2> QED
    BY <1>1, <2>1, <2>2, FrontIs
<1> HIDE DEF p, U
<1>7. \A k \in 0..len, n \in UserFds : \A v : Shows(U, k, n, v) <=> Shows(V, k, n, v)
  <2> SUFFICES ASSUME NEW k \in 0..len, NEW n \in UserFds, NEW v
               PROVE  Shows(U, k, n, v) <=> Shows(V, k, n, v)
    OBVIOUS
  <2>1. k \in Nat /\ \A i \in 1..k : U[i][n] = V[i][n]
    BY <1>2, <1>6
  <2> QED
    BY <2>1, ShowsLike
<1>8. \A n \in UserFds : Saved(r.open, tab[n], V, len, n, w)
  BY <1>2, <1>3 DEF Restores, SavedRight
<1>9. \A n \in UserFds : tab[n] \in Marks /\ (tab[n] \notin {R!EMPTY, R!REALLY_CLOSED, R!CLOSED} => tab[n] \in SaveFds)
  BY <1>3 DEF RedirTabs, Marks
<1>10. ASSUME NEW n \in UserFds PROVE Shows(V, len, n, content(n)) /\ content(n) \in Contents
  <2>1. n \notin copies /\ n \in AllFds
    BY FdsApart
  <2>2. CASE tab[n] = R!CLOSED
    <3>1. tab[n] \notin {R!EMPTY, R!REALLY_CLOSED}
      BY <2>2, FdsApart
    <3>2. content(n) = Closed
      BY <2>2, <3>1
    <3> QED
      BY <1>8, <2>2, <3>2, FdsApart DEF Saved
  <2>3. CASE tab[n] \in SaveFds
    <3>1. tab[n] \notin {R!EMPTY, R!REALLY_CLOSED, R!CLOSED} /\ tab[n] \in AllFds
      BY <2>3, FdsApart
    <3>2. content(n) = r.open[tab[n]]
      BY <2>1, <3>1
    <3> QED
      BY <1>1, <1>8, <2>3, <3>1, <3>2 DEF Saved
  <2>4. CASE tab[n] \in {R!EMPTY, R!REALLY_CLOSED}
    <3>1. content(n) = r.open[n] /\ r.open[n] \in Contents
      BY <1>1, <2>1, <2>4
    <3>2. Shows(V, len + 1, n, r.open[n])
      BY <1>2 DEF Restores, OpenRight
    <3>3. /\ r.open[n] # Same
          /\ V[len + 1][n] = Same => Shows(V, len, n, r.open[n])
          /\ V[len + 1][n] # Same => r.open[n] = V[len + 1][n]
      <4>1. PICK l : l = len + 1 /\ len \in Nat
        BY <1>2
      <4>2. PICK v : v = r.open[n]
        OBVIOUS
      <4>3. Shows(V, l, n, v)
        BY <3>2, <4>1, <4>2
      <4> HIDE DEF tab, copies, left, content
      <4>4. v # Same
        BY <4>1, <4>3, ShowsNext
      <4>5. V[l][n] = Same => Shows(V, len, n, v)
        BY <4>1, <4>3, ShowsNext
      <4>6. V[l][n] \in {Same, v}
        BY <4>1, <4>3, ShowsNext
      <4> QED
        BY <4>1, <4>2, <4>4, <4>5, <4>6
    <3>4. CASE tab[n] = R!REALLY_CLOSED
      <4>1. V[len + 1][n] = Closed /\ Shows(V, len, n, Closed)
        BY <1>8, <3>4 DEF Saved
      <4>2. Closed # Same
        BY FdsApart
      <4> QED
        BY <3>1, <3>3, <4>1, <4>2
    <3>5. CASE tab[n] = R!EMPTY
      BY <1>8, <3>1, <3>3, <3>5 DEF Saved
    <3> QED
      BY <2>4, <3>4, <3>5
  <2> QED
    BY <1>9, <2>2, <2>3, <2>4
<1>11. ASSUME NEW c \in AllFds \ UserFds PROVE content(c) = IF c \in copies THEN Closed ELSE r.open[c]
  OBVIOUS
<1>12. p.open \in [AllFds -> Contents]
  <2>1. ASSUME NEW n \in AllFds PROVE content(n) \in Contents
    <3>1. CASE n \in UserFds
      BY <1>10, <3>1
    <3>2. CASE n \notin UserFds
      BY <1>1, <1>11, <3>2, FdsApart
    <3> QED
      BY <3>1, <3>2
  <2> HIDE DEF content
  <2> QED
    BY <1>5, <2>1
<1>13. /\ \A n \in UserFds : Shows(V, len, n, p.open[n])
       /\ \A c \in AllFds \ UserFds : p.open[c] = IF c \in copies THEN Closed ELSE r.open[c]
  BY <1>5, <1>10, <1>11, FdsApart, SMTT(30)
<1> HIDE DEF content
<1>14. DescTypes(p, U)
  <2>1. len = (len - 1) + 1
    BY <1>2
  <2> QED
    BY <1>3, <1>5, <1>6, <1>12, <2>1 DEF DescTypes
<1>15. \A k \in 1..len - 1 : /\ k \in 1..len /\ k \in 0..len /\ k + 1 \in 1..len /\ k # len
                             /\ TableAt(p.list, k) = TableAt(r.list, k)
  BY <1>2, <1>3, <1>5
<1>16. ASSUME NEW k \in 1..len - 1, NEW n \in UserFds, TableAt(r.list, k)[n] \in SaveFds
       PROVE  TableAt(r.list, k)[n] \notin copies
  <2> SUFFICES ASSUME NEW m \in UserFds, TableAt(r.list, k)[n] = TableAt(r.list, len)[m]
               PROVE  FALSE
    BY <1>3
  <2>1. k = len
    BY <1>2, <1>15, <1>16 DEF Restores, CopiesApart
  <2> QED
    BY <1>15, <2>1
<1>17. SavedRight(p, U, w)
  <2> SUFFICES ASSUME NEW k \in 1..len - 1, NEW n \in UserFds
               PROVE  Saved(p.open, TableAt(r.list, k)[n], U, k, n, w)
    BY <1>3, <1>5, <1>15 DEF SavedRight
  <2> DEFINE t == TableAt(r.list, k)[n]
  <2>1. Saved(r.open, t, V, k, n, w)
    BY <1>2, <1>15 DEF Restores, SavedRight
  <2>2. U[k + 1] = V[k + 1] /\ \A v : Shows(U, k, n, v) <=> Shows(V, k, n, v)
    BY <1>6, <1>7, <1>15
  <2>3. t \in SaveFds => p.open[t] = r.open[t]
    BY <1>13, <1>16, FdsApart
  <2> HIDE DEF t
  <2>4. Saved(p.open, t, U, k, n, w)
    BY <2>1, <2>2, <2>3 DEF Saved
  <2> QED
    BY <2>4 DEF t
<1>18. CopiesApart(p)
  BY <1>2, <1>3, <1>5, <1>15, SMTT(30) DEF Restores, CopiesApart
<1>19. OpenRight(p, U)
  <2>1. len \in 0..len
    BY <1>2
  <2> QED
    BY <1>6, <1>7, <1>13, <2>1 DEF OpenRight
<1>20. NoneLeft(p)
  <2> SUFFICES ASSUME NEW c \in AllFds \ UserFds, p.open[c] # Closed
               PROVE  \E k \in 1..len - 1, n \in UserFds : TableAt(r.list, k)[n] = c
    BY <1>3, <1>5, <1>15 DEF NoneLeft
  <2>1. c \notin copies /\ r.open[c] # Closed
    BY <1>13
  <2>2. PICK k \in 1..len, n \in UserFds : TableAt(r.list, k)[n] = c
    BY <1>2, <2>1 DEF Restores, NoneLeft
  <2>3. TableAt(r.list, k)[n] \in Marks
    BY <1>3 DEF RedirTabs
  <2>4. c \in SaveFds
    <3>1. c \in UserFds \cup LowFds \cup SaveFds
      BY DEF AllFds
    <3> QED
      BY <2>2, <2>3, <3>1, FdsApart DEF Marks
  <2>5. k # len
    BY <1>3, <2>1, <2>2, <2>4
  <2>6. k \in 1..len - 1
    BY <2>5
  <2> QED
    BY <2>2, <2>6
<1> QED
  BY <1>14, <1>17, <1>18, <1>19, <1>20 DEF Restores, p, U

\* All the tables from one on are popped.
LEMMA UnwindRestores ==
    ASSUME NEW r, NEW V, NEW w, Restores(r, V, w), NEW stop \in Nat, stop =< Len(r.list)
    PROVE  /\ Restores(R!unwindredir(r, stop), SubSeq(V, 1, stop + 1), w)
           /\ Len(R!unwindredir(r, stop).list) = stop
<1>0. r.list \in Seq(RedirTabs) /\ V \in Seq(Views) /\ Len(V) = Len(r.list) + 1
  BY DEF Restores, DescTypes
<1>1. PICK len \in Nat : len = Len(r.list) /\ Len(V) = len + 1
  BY <1>0
<1>2. PICK n \in Nat : n = len - stop /\ len - n = stop
  <2>1. len - stop \in Nat /\ len - (len - stop) = stop
    BY <1>1
  <2> QED
    BY <2>1
<1>3. PICK g : /\ g[0] = r
               /\ \A k \in 1..Len(r.list) - stop : g[k] = R!popredir(g[k - 1], 0)
               /\ R!unwindredir(r, stop) = g[Len(r.list) - stop]
  BY <1>1, <1>2, UnwindingRedirs
<1> DEFINE H == {k \in 0..n : Restores(g[k], SubSeq(V, 1, len + 1 - k), w) /\ Len(g[k].list) = len - k}
<1>4. 0 \in H
  <2>1. len + 1 - 0 = Len(V) /\ len - 0 = len
    BY <1>1
  <2>2. SubSeq(V, 1, len + 1 - 0) = V
    BY <1>0, <2>1, FirstPart
  <2>4. 0 \in 0..n
    BY <1>2
  <2>5. g[0] = r
    BY <1>3
  <2>3. Restores(g[0], SubSeq(V, 1, len + 1 - 0), w) /\ Len(g[0].list) = len - 0 /\ 0 \in 0..n
    BY <1>1, <2>1, <2>2, <2>4, <2>5
  <2> QED
    BY <2>3
<1>5. ASSUME NEW m \in 1..n, m - 1 \in H PROVE m \in H
  <2>1. /\ g[m] = R!popredir(g[m - 1], 0)
        /\ Restores(g[m - 1], SubSeq(V, 1, len + 1 - (m - 1)), w) /\ Len(g[m - 1].list) = len - (m - 1)
    BY <1>1, <1>2, <1>3, <1>5
  <2>2. PICK i \in 1..len + 1 : i = len + 1 - (m - 1) /\ i - 1 = len + 1 - m
    <3>1. len + 1 - (m - 1) \in 1..len + 1 /\ len + 1 - (m - 1) - 1 = len + 1 - m
      BY <1>1, <1>2
    <3> QED
      BY <3>1
  <2>3. Front(SubSeq(V, 1, i)) = SubSeq(V, 1, i - 1)
    BY <1>0, <1>1, PartOfPart
  <2>4. g[m - 1].list \in Seq(RedirTabs) /\ len - (m - 1) # 0 /\ len - (m - 1) - 1 = len - m
    BY <1>1, <1>2, <2>1 DEF Restores, DescTypes
  <2>5. g[m - 1].list # <<>>
    BY <2>1, <2>4
  <2>6. Restores(g[m], SubSeq(V, 1, i - 1), w)
    <3>1. PICK part : part = SubSeq(V, 1, i)
      OBVIOUS
    <3>2. Restores(g[m - 1], part, w)
      BY <2>1, <2>2, <3>1
    <3>3. Restores(R!popredir(g[m - 1], 0), Front(part), w)
      BY <2>5, <3>2, PopRestores
    <3> QED
      BY <2>1, <2>3, <3>1, <3>3
  <2>7. Len(g[m].list) = len - m
    <3>1. g[m].list = Tail(g[m - 1].list)
      <4>1. R!popredir(g[m - 1], 0).list = Tail(g[m - 1].list)
        BY DEF R!popredir
      <4> QED
        BY <2>1, <4>1
    <3> QED
      BY <2>1, <2>4, <2>5, <3>1, HeadTailOf
  <2> QED
    BY <2>2, <2>6, <2>7
<1>6. n \in H
  <2>1. n \in Nat /\ n \in 0..n
    BY <1>2
  <2> HIDE DEF H
  <2> QED BY <2>1, <1>4, <1>5, Upward
<1>7. len + 1 - n = stop + 1
  BY <1>1, <1>2
<1> QED
  BY <1>1, <1>2, <1>3, <1>6, <1>7

\* A redirection of n by the innermost: it is v now, and its mark is t.
Viewed(V, n, v) == [V EXCEPT ![Len(V)] = [V[Len(V)] EXCEPT ![n] = v]]
Marked(list, n, t) == [list EXCEPT ![1] = [list[1] EXCEPT ![n] = t]]
Changes(q, r, V, w, n, v, t) ==
    /\ DOMAIN q = {"open", "list"} /\ q.open \in [AllFds -> Contents] /\ q.list = Marked(r.list, n, t)
    /\ n \in UserFds /\ v \in Contents /\ t \in Marks
    /\ q.open[n] = v /\ \A m \in UserFds : m # n => q.open[m] = r.open[m]
    /\ \A c \in AllFds \ UserFds : c # t => q.open[c] = r.open[c]
    /\ TableAt(r.list, Len(r.list))[n] \in SaveFds => t = TableAt(r.list, Len(r.list))[n]
    /\ t = R!EMPTY => "exec" \notin w.program /\ Shows(V, Len(r.list), n, v)
    /\ t \in SaveFds => /\ q.open[t] # Closed /\ Shows(V, Len(r.list), n, q.open[t])
                        /\ t = TableAt(r.list, Len(r.list))[n] \/ r.open[t] = Closed
    /\ t \in {R!CLOSED, R!REALLY_CLOSED} => Shows(V, Len(r.list), n, Closed)
    /\ t = R!REALLY_CLOSED => v = Closed /\ ("exec" \in w.program => n \in Shuts(w))

\* The innermost command with redirections sees v for n.
LEMMA ViewedIs ==
    ASSUME NEW V \in Seq(Views), V # <<>>, NEW n \in UserFds, NEW v \in Seen
    PROVE  /\ Viewed(V, n, v) \in Seq(Views) /\ Len(Viewed(V, n, v)) = Len(V)
           /\ \A i \in 1..Len(V) - 1 : Viewed(V, n, v)[i] = V[i]
           /\ \A m \in UserFds : Viewed(V, n, v)[Len(V)][m] = IF m = n THEN v ELSE V[Len(V)][m]
<1>1. PICK len \in Nat \ {0} : len = Len(V)
  OBVIOUS
<1> DEFINE x == [V[len] EXCEPT ![n] = v]
           U == [V EXCEPT ![len] = x]
<1>2. V \in [1..len -> Views] /\ len \in 1..len
  BY <1>1
<1>3. V[len] \in Views
  BY <1>2
<1>4. x \in Views /\ \A m \in UserFds : x[m] = IF m = n THEN v ELSE V[len][m]
  BY <1>3 DEF Views
<1> HIDE DEF x
<1>5. U \in [1..len -> Views] /\ U[len] = x /\ \A i \in 1..len - 1 : U[i] = V[i]
  BY <1>2, <1>4
<1>6. Viewed(V, n, v) = U
  BY <1>1 DEF Viewed, x
<1> HIDE DEF U
<1>7. U \in Seq(Views) /\ Len(U) = len
  BY <1>1, <1>5
<1> QED
  BY <1>1, <1>4, <1>5, <1>6, <1>7

\* Its table has the mark t for n.
LEMMA MarkedIs ==
    ASSUME NEW list \in Seq(RedirTabs), list # <<>>, NEW n \in UserFds, NEW t \in Marks
    PROVE  /\ Marked(list, n, t) \in Seq(RedirTabs) /\ Len(Marked(list, n, t)) = Len(list)
           /\ \A k \in 1..Len(list), m \in UserFds : TableAt(Marked(list, n, t), k)[m] =
                 IF k = Len(list) /\ m = n THEN t ELSE TableAt(list, k)[m]
<1> DEFINE x == [list[1] EXCEPT ![n] = t]
<1>1. list[1] \in RedirTabs /\ list[1] = TableAt(list, Len(list))
  BY FirstTable
<1>2. x \in RedirTabs /\ \A m \in UserFds : x[m] = IF m = n THEN t ELSE list[1][m]
  BY <1>1 DEF RedirTabs
<1>3. Marked(list, n, t) = [list EXCEPT ![1] = x]
  BY DEF Marked
<1> HIDE DEF x
<1>4. /\ [list EXCEPT ![1] = x] \in Seq(RedirTabs) /\ Len([list EXCEPT ![1] = x]) = Len(list)
      /\ \A k \in 1..Len(list) : TableAt([list EXCEPT ![1] = x], k) = IF k = Len(list) THEN x ELSE TableAt(list, k)
  BY <1>2, ChangedTable
<1>5. ASSUME NEW k \in 1..Len(list), NEW m \in UserFds
      PROVE  TableAt(Marked(list, n, t), k)[m] = IF k = Len(list) /\ m = n THEN t ELSE TableAt(list, k)[m]
  <2>1. CASE k = Len(list)
    <3>1. TableAt(Marked(list, n, t), k) = x
      BY <1>3, <1>4, <2>1
    <3> QED
      BY <1>1, <1>2, <2>1, <3>1
  <2>2. CASE k # Len(list)
    BY <1>3, <1>4, <2>2
  <2> QED
    BY <2>1, <2>2
<1> QED
  BY <1>3, <1>4, <1>5

\* A change of a descriptor with its mark keeps that the tables give all back.
LEMMA ChangeRestores ==
    ASSUME NEW r, NEW V, NEW w, Restores(r, V, w), r.list # <<>>,
           NEW q, NEW n, NEW v, NEW t, Changes(q, r, V, w, n, v, t)
    PROVE  Restores(q, Viewed(V, n, v), w)
<1> DEFINE U == Viewed(V, n, v)
           tab(k) == TableAt(r.list, k)
           new(k) == TableAt(q.list, k)
<1>1. /\ r.open \in [AllFds -> Contents] /\ r.list \in Seq(RedirTabs)
      /\ V \in Seq(Views) /\ Len(V) = Len(r.list) + 1
  BY DEF Restores, DescTypes
<1>2. PICK len \in Nat \ {0} : len = Len(r.list) /\ Len(V) = len + 1 /\ len \in 1..len /\ Len(V) - 1 = len
  BY <1>1
<1>3. /\ n \in UserFds /\ v \in Contents /\ t \in Marks
      /\ q.open \in [AllFds -> Contents] /\ q.list = Marked(r.list, n, t) /\ DOMAIN q = {"open", "list"}
  BY DEF Changes
<1>4. v \in Seen /\ v # Same /\ V # <<>>
  BY <1>1, <1>2, <1>3, FdsApart
<1>5. /\ U \in Seq(Views) /\ Len(U) = len + 1 /\ \A i \in 1..len : U[i] = V[i]
      /\ \A m \in UserFds : U[len + 1][m] = IF m = n THEN v ELSE V[len + 1][m]
  <2>1. /\ U \in Seq(Views) /\ Len(U) = Len(V) /\ \A i \in 1..Len(V) - 1 : U[i] = V[i]
        /\ \A m \in UserFds : U[Len(V)][m] = IF m = n THEN v ELSE V[Len(V)][m]
    <3>1. V \in Seq(Views) /\ V # <<>> /\ n \in UserFds /\ v \in Seen
      BY <1>1, <1>3, <1>4
    <3>2. /\ Viewed(V, n, v) \in Seq(Views) /\ Len(Viewed(V, n, v)) = Len(V)
          /\ \A i \in 1..Len(V) - 1 : Viewed(V, n, v)[i] = V[i]
      BY <3>1, ViewedIs
    <3>3. \A m \in UserFds : Viewed(V, n, v)[Len(V)][m] = IF m = n THEN v ELSE V[Len(V)][m]
      BY <3>1, ViewedIs
    <3> QED
      BY <3>2, <3>3
  <2> HIDE DEF U
  <2> QED
    BY <1>2, <2>1
<1>6. /\ q.list \in Seq(RedirTabs) /\ Len(q.list) = len
      /\ \A k \in 1..len, m \in UserFds : new(k)[m] = IF k = len /\ m = n THEN t ELSE tab(k)[m]
  BY <1>1, <1>2, <1>3, MarkedIs
<1>7. \A k \in 1..len : tab(k) \in RedirTabs
  BY <1>1, <1>2, FirstTable
<1> HIDE DEF U, tab, new
<1>8. /\ \A m \in UserFds : m # n => q.open[m] = r.open[m]
      /\ \A c \in AllFds \ UserFds : c # t => q.open[c] = r.open[c]
      /\ q.open[n] = v
      /\ tab(len)[n] \in SaveFds => t = tab(len)[n]
      /\ t \in SaveFds => q.open[t] # Closed /\ (t = tab(len)[n] \/ r.open[t] = Closed)
  BY <1>2 DEF Changes, tab
<1>9. \A k \in 1..len, m \in UserFds : Saved(r.open, tab(k)[m], V, k, m, w)
  BY <1>2 DEF Restores, SavedRight, tab
<1>10. \A k, l \in 1..len, i, j \in UserFds :
         tab(k)[i] \in SaveFds /\ tab(k)[i] = tab(l)[j] => k = l /\ i = j
  BY <1>2 DEF Restores, CopiesApart, tab
\* The new copy is not one of the others.
<1>11. ASSUME NEW k \in 1..len, NEW m \in UserFds, ~(k = len /\ m = n), tab(k)[m] \in SaveFds
       PROVE  tab(k)[m] # t
  <2> SUFFICES ASSUME tab(k)[m] = t PROVE FALSE
    OBVIOUS
  <2>1. t \in SaveFds /\ r.open[t] # Closed
    BY <1>9, <1>11 DEF Saved
  <2>2. t = tab(len)[n]
    BY <1>8, <2>1
  <2> QED
    BY <1>2, <1>3, <1>10, <1>11, <2>1, <2>2
<1>12. \A k \in 1..len, m \in UserFds : ~(k = len /\ m = n) /\ tab(k)[m] \in SaveFds =>
         q.open[tab(k)[m]] = r.open[tab(k)[m]]
  BY <1>8, <1>11, FdsApart
<1>13. DescTypes(q, U)
  BY <1>3, <1>5, <1>6 DEF DescTypes
<1>14. \A k \in 1..len, m \in UserFds : \A u : Shows(U, k, m, u) <=> Shows(V, k, m, u)
  <2> SUFFICES ASSUME NEW k \in 1..len, NEW m \in UserFds, NEW u
               PROVE  Shows(U, k, m, u) <=> Shows(V, k, m, u)
    OBVIOUS
  <2>1. k \in Nat /\ \A i \in 1..k : U[i][m] = V[i][m]
    BY <1>5
  <2> QED
    BY <2>1, ShowsLike
<1>15. ASSUME NEW k \in 1..len, NEW m \in UserFds PROVE Saved(q.open, new(k)[m], U, k, m, w)
  <2>1. CASE k = len /\ m = n
    <3>1. new(k)[m] = t /\ U[k + 1][m] = v /\ \A u : Shows(U, k, m, u) <=> Shows(V, len, n, u)
      BY <1>3, <1>5, <1>6, <1>14, <2>1
    <3>2. Saved(q.open, t, U, k, m, w)
      BY <1>2, <1>4, <2>1, <3>1 DEF Changes, Saved
    <3> QED
      BY <3>1, <3>2
  <2>2. CASE ~(k = len /\ m = n)
    <3>1. new(k)[m] = tab(k)[m]
      BY <1>6, <2>2
    <3>2. U[k + 1][m] = V[k + 1][m]
      <4>1. CASE k = len
        BY <1>5, <2>2, <4>1
      <4>2. CASE k # len
        <5>1. k + 1 \in 1..len
          BY <1>2, <4>2
        <5> QED
          BY <1>5, <5>1
      <4> QED
        BY <4>1, <4>2
    <3>3. Saved(r.open, tab(k)[m], V, k, m, w)
      BY <1>9
    <3>4. tab(k)[m] \in SaveFds => q.open[tab(k)[m]] = r.open[tab(k)[m]]
      BY <1>12, <2>2
    <3>5. \A u : Shows(U, k, m, u) <=> Shows(V, k, m, u)
      BY <1>14
    <3>6. Saved(q.open, tab(k)[m], U, k, m, w)
      BY <3>2, <3>3, <3>4, <3>5 DEF Saved
    <3> QED
      BY <3>1, <3>6
  <2> QED
    BY <2>1, <2>2
<1>16. SavedRight(q, U, w)
  BY <1>6, <1>15 DEF SavedRight, new
<1>17. CopiesApart(q)
  <2> SUFFICES ASSUME NEW k \in 1..len, NEW l \in 1..len, NEW i \in UserFds, NEW j \in UserFds,
                      new(k)[i] \in SaveFds, new(k)[i] = new(l)[j]
               PROVE  k = l /\ i = j
    BY <1>6 DEF CopiesApart, new
  <2>1. CASE (k = len /\ i = n) /\ ~(l = len /\ j = n)
    <3>1. t \in SaveFds /\ tab(l)[j] = t
      BY <1>6, <2>1
    <3> QED
      BY <1>11, <2>1, <3>1
  <2>2. CASE ~(k = len /\ i = n) /\ (l = len /\ j = n)
    <3>1. tab(k)[i] \in SaveFds /\ tab(k)[i] = t
      BY <1>6, <2>2
    <3> QED
      BY <1>11, <2>2, <3>1
  <2>3. CASE ~(k = len /\ i = n) /\ ~(l = len /\ j = n)
    BY <1>6, <1>10, <2>3
  <2>4. CASE (k = len /\ i = n) /\ (l = len /\ j = n)
    BY <2>4
  <2> QED
    BY <2>1, <2>2, <2>3, <2>4
<1>18. OpenRight(q, U)
  <2> SUFFICES ASSUME NEW m \in UserFds PROVE Shows(U, len + 1, m, q.open[m])
    BY <1>5 DEF OpenRight
  <2>1. CASE m = n
    <3>1. PICK l \in Nat : l = len + 1 /\ len \in Nat
      BY <1>2
    <3>2. U[l][n] = v /\ v # Same
      BY <1>3, <1>4, <1>5, <3>1
    <3>3. l \in 1..l /\ \A i \in l + 1..l : FALSE
      BY <3>1
    <3>4. Shows(U, l, n, v)
      BY <3>2, <3>3 DEF Shows
    <3> QED
      BY <1>8, <2>1, <3>1, <3>4
  <2>2. CASE m # n
    <3>1. Shows(V, len + 1, m, q.open[m])
      BY <1>2, <1>8, <2>2 DEF Restores, OpenRight
    <3>2. PICK l \in Nat : l = len + 1
      BY <1>2
    <3>3. \A i \in 1..l : i \in 1..len \/ i = len + 1
      BY <1>2, <3>2
    <3>4. \A i \in 1..l : U[i][m] = V[i][m]
      BY <1>5, <2>2, <3>3
    <3>5. Shows(U, l, m, q.open[m]) <=> Shows(V, l, m, q.open[m])
      BY <3>4, ShowsLike
    <3> QED
      BY <3>1, <3>2, <3>5
  <2> QED
    BY <2>1, <2>2
<1>19. NoneLeft(q)
  <2> SUFFICES ASSUME NEW c \in AllFds \ UserFds, q.open[c] # Closed
               PROVE  \E k \in 1..len, m \in UserFds : new(k)[m] = c
    BY <1>6 DEF NoneLeft, new
  <2>1. CASE c = t
    BY <1>2, <1>3, <1>6, <2>1
  <2>2. CASE c # t
    <3>1. r.open[c] # Closed
      BY <1>8, <2>2
    <3>2. PICK k \in 1..len, m \in UserFds : tab(k)[m] = c
      BY <1>2, <3>1 DEF Restores, NoneLeft, tab
    <3>3. tab(k)[m] \in Marks /\ c \in UserFds \cup LowFds \cup SaveFds
      BY <1>7 DEF RedirTabs, AllFds
    <3>4. c \in SaveFds
      BY <3>2, <3>3, FdsApart DEF Marks
    <3>5. ~(k = len /\ m = n)
      BY <1>8, <2>2, <3>2, <3>4
    <3> QED
      BY <1>6, <3>2, <3>5
  <2> QED
    BY <2>1, <2>2
<1> QED
  BY <1>13, <1>16, <1>17, <1>18, <1>19 DEF Restores, U

\* A new table with no marks.
LEMMA PushRestores ==
    ASSUME NEW r, NEW V, NEW w, Restores(r, V, w)
    PROVE  /\ Restores(R!pushredir(r), Append(V, NothingSeen), w)
           /\ Len(R!pushredir(r).list) = Len(r.list) + 1
           /\ R!pushredir(r).open = r.open
<1> DEFINE U == Append(V, NothingSeen)
           x == [n \in UserFds |-> R!EMPTY]
           q == R!pushredir(r)
<1>1. /\ r.open \in [AllFds -> Contents] /\ r.list \in Seq(RedirTabs) /\ DOMAIN r = {"open", "list"}
      /\ V \in Seq(Views) /\ Len(V) = Len(r.list) + 1
  BY DEF Restores, DescTypes
<1>2. PICK len \in Nat : len = Len(r.list) /\ Len(V) = len + 1
  BY <1>1
<1>3. NothingSeen \in Views /\ \A n \in UserFds : NothingSeen[n] = Same
  BY DEF NothingSeen, Views, Seen
<1>4. /\ U \in Seq(Views) /\ Len(U) = (len + 1) + 1 /\ U[(len + 1) + 1] = NothingSeen
      /\ \A i \in 1..len + 1 : U[i] = V[i]
  BY <1>1, <1>2, <1>3, AppendIs
<1>5. x \in RedirTabs
  BY DEF RedirTabs, Marks
<1>6. DOMAIN q = {"open", "list"} /\ q.open = r.open /\ q.list = <<x>> \o r.list
  BY <1>1 DEF R!pushredir
<1>11. \A n \in UserFds : x[n] = R!EMPTY
  OBVIOUS
<1> HIDE DEF U, x, q
<1>7. /\ q.list \in Seq(RedirTabs) /\ Len(q.list) = len + 1 /\ TableAt(q.list, len + 1) = x
      /\ \A k \in 1..len : TableAt(q.list, k) = TableAt(r.list, k)
  BY <1>1, <1>2, <1>5, <1>6, PushedTable
<1>8. \A k \in 0..len + 1, n \in UserFds : \A v : Shows(U, k, n, v) <=> Shows(V, k, n, v)
  <2> SUFFICES ASSUME NEW k \in 0..len + 1, NEW n \in UserFds, NEW v
               PROVE  Shows(U, k, n, v) <=> Shows(V, k, n, v)
    OBVIOUS
  <2>1. k \in Nat /\ \A i \in 1..k : U[i][n] = V[i][n]
    BY <1>2, <1>4
  <2> QED
    BY <2>1, ShowsLike
<1>9. \A k \in 1..len + 1 : k = len + 1 \/ (k \in 1..len /\ k + 1 \in 1..len + 1 /\ k \in 0..len + 1)
  BY <1>2
<1>10. \A k \in 1..len, n \in UserFds : k \in 1..len + 1
  BY <1>2
<1>12. SavedRight(q, U, w)
  <2> SUFFICES ASSUME NEW k \in 1..len + 1, NEW n \in UserFds
               PROVE  Saved(q.open, TableAt(q.list, k)[n], U, k, n, w)
    BY <1>7 DEF SavedRight
  <2>1. CASE k = len + 1
    <3>1. TableAt(q.list, k)[n] = R!EMPTY /\ U[k + 1][n] = Same
      BY <1>3, <1>4, <1>7, <1>11, <2>1
    <3> QED
      BY <3>1, FdsApart DEF Saved
  <2>2. CASE k \in 1..len
    <3>1. TableAt(q.list, k) = TableAt(r.list, k) /\ U[k + 1] = V[k + 1]
          /\ \A v : Shows(U, k, n, v) <=> Shows(V, k, n, v)
      BY <1>4, <1>7, <1>8, <1>9, <2>2
    <3>2. Saved(r.open, TableAt(r.list, k)[n], V, k, n, w)
      BY <1>2, <2>2 DEF Restores, SavedRight
    <3> QED
      BY <1>6, <3>1, <3>2 DEF Saved
  <2> QED
    BY <1>9, <2>1, <2>2
<1>13. CopiesApart(q)
  <2> SUFFICES ASSUME NEW k \in 1..len + 1, NEW l \in 1..len + 1, NEW i \in UserFds, NEW j \in UserFds,
                      TableAt(q.list, k)[i] \in SaveFds, TableAt(q.list, k)[i] = TableAt(q.list, l)[j]
               PROVE  k = l /\ i = j
    BY <1>7 DEF CopiesApart
  <2>1. k # len + 1 /\ l # len + 1
    BY <1>7, <1>11, FdsApart
  <2> QED
    BY <1>2, <1>7, <1>9, <2>1 DEF Restores, CopiesApart
<1>14. OpenRight(q, U)
  <2> SUFFICES ASSUME NEW n \in UserFds PROVE Shows(U, (len + 1) + 1, n, r.open[n])
    BY <1>4, <1>6 DEF OpenRight
  <2>1. Shows(V, len + 1, n, r.open[n])
    BY <1>2 DEF Restores, OpenRight
  <2>2. Shows(U, len + 1, n, r.open[n])
    <3>1. len + 1 \in 0..len + 1
      BY <1>2
    <3> QED
      BY <1>8, <2>1, <3>1
  <2>3. PICK l : l = (len + 1) + 1
    OBVIOUS
  <2>4. PICK m \in Nat : m = len + 1 /\ l = m + 1
    BY <1>2, <2>3
  <2>5. U[l][n] = Same /\ Shows(U, m, n, r.open[n])
    BY <1>3, <1>4, <2>2, <2>3, <2>4
  <2>6. Shows(U, l, n, r.open[n])
    BY <2>4, <2>5, ShowsNext
  <2> QED
    BY <2>3, <2>6
<1>15. NoneLeft(q)
  <2> SUFFICES ASSUME NEW c \in AllFds \ UserFds, r.open[c] # Closed
               PROVE  \E k \in 1..len + 1, n \in UserFds : TableAt(q.list, k)[n] = c
    BY <1>6, <1>7 DEF NoneLeft
  <2>1. PICK k \in 1..len, n \in UserFds : TableAt(r.list, k)[n] = c
    BY <1>2 DEF Restores, NoneLeft
  <2> QED
    BY <1>7, <1>10, <2>1
<1>16. DescTypes(q, U)
  BY <1>1, <1>4, <1>6, <1>7 DEF DescTypes
<1> QED
  BY <1>2, <1>6, <1>7, <1>12, <1>13, <1>14, <1>15, <1>16 DEF Restores, U, q

\* There are copies enough for k commands.
Room(k) == k * Cardinality(UserFds) =< Cardinality(SaveFds)

\* There is a copy left for a descriptor that has none.
LEMMA RoomForCopy ==
    ASSUME NEW r, NEW V, NEW w, Restores(r, V, w), r.list # <<>>,
           Room(Len(r.list)),
           NEW n \in UserFds, TableAt(r.list, Len(r.list))[n] = R!EMPTY
    PROVE  \E c \in SaveFds : r.open[c] = Closed
<1>1. r.list \in Seq(RedirTabs)
  BY DEF Restores, DescTypes
<1>2. PICK len \in Nat \ {0} : len = Len(r.list) /\ len \in 1..len
  BY <1>1
<1> DEFINE P == (1..len) \X UserFds
           Q == P \ {<<len, n>>}
           f == [c \in SaveFds |-> CHOOSE p \in Q : TableAt(r.list, p[1])[p[2]] = c]
<1> SUFFICES ASSUME \A c \in SaveFds : r.open[c] # Closed PROVE FALSE
  OBVIOUS
<1>3. ASSUME NEW c \in SaveFds PROVE \E p \in Q : TableAt(r.list, p[1])[p[2]] = c
  <2>1. c \in AllFds \ UserFds /\ c # R!EMPTY
    BY FdsApart
  <2>2. PICK k \in 1..len, m \in UserFds : TableAt(r.list, k)[m] = c
    BY <1>2, <2>1 DEF Restores, NoneLeft
  <2>3. ~(k = len /\ m = n)
    BY <1>2, <2>1, <2>2
  <2>4. <<k, m>> \in Q /\ <<k, m>>[1] = k /\ <<k, m>>[2] = m
    BY <2>3
  <2> QED
    BY <2>2, <2>4
<1>4. \A c \in SaveFds : f[c] \in Q /\ TableAt(r.list, f[c][1])[f[c][2]] = c
  <2> HIDE DEF Q
  <2> QED
    BY <1>3
<1>5. IsFiniteSet(1..len) /\ Cardinality(1..len) = len
  <2>1. 1 \in Int /\ len \in Int /\ ~(1 > len) /\ len - 1 + 1 = len
    BY <1>2
  <2> QED
    BY <2>1, FS_Interval
<1>6. IsFiniteSet(P) /\ Cardinality(P) = len * Cardinality(UserFds)
  BY <1>5, CopiesAssumption, FS_Product
<1>7. <<len, n>> \in P
  BY <1>2
<1>8. IsFiniteSet(Q) /\ Cardinality(Q) = Cardinality(P) - 1
  <2> HIDE DEF P
  <2> QED
    BY <1>6, <1>7, FS_RemoveElement
<1>9. Cardinality(P) \in Nat /\ Cardinality(SaveFds) \in Nat /\ IsFiniteSet(SaveFds)
  <2> HIDE DEF P
  <2> QED
    BY <1>6, CopiesAssumption, FS_CardinalityType
<1>10. Cardinality(P) =< Cardinality(SaveFds)
  BY <1>2, <1>6 DEF Room
<1>11. Cardinality(Q) < Cardinality(SaveFds)
  <2> HIDE DEF P, Q
  <2> QED
    BY <1>8, <1>9, <1>10
<1>12. f \in [SaveFds -> Q]
  <2> HIDE DEF Q
  <2>1. f = [c \in SaveFds |-> f[c]]
    OBVIOUS
  <2> HIDE DEF f
  <2> QED
    BY <1>4, <2>1
<1> HIDE DEF P, Q, f
<1>13. \E c, d \in SaveFds : c # d /\ f[c] = f[d]
  BY <1>8, <1>9, <1>11, <1>12, FS_PigeonHole
<1> QED
  BY <1>4, <1>13

\* The least descriptor that is free.
LEMMA FreshIs ==
    ASSUME NEW open, NEW fds, fds \subseteq Nat, \E c \in fds : open[c] = Closed
    PROVE  R!Fresh(open, fds) \in fds /\ open[R!Fresh(open, fds)] = Closed
<1> DEFINE I == {c \in fds : open[c] = Closed}
<1>1. I \subseteq Nat /\ I # {}
  OBVIOUS
<1>2. PICK k \in I : \A i \in I : k =< i
  <2> HIDE DEF I
  <2> QED
    BY <1>1, LeastNumber
<1>3. R!Fresh(open, fds) = CHOOSE x \in I : \A y \in I : x =< y
  BY DEF R!Fresh, R!Min
<1>4. R!Fresh(open, fds) \in I
  <2> HIDE DEF I
  <2> QED
    BY <1>2, <1>3
<1> QED
  BY <1>4

\* open() finds one that scripts do not name, if no other.
LEMMA LowIsFree ==
    ASSUME NEW r, NEW V, NEW w, Restores(r, V, w)
    PROVE  R!Fresh(r.open, LowFds) \in LowFds /\ r.open[R!Fresh(r.open, LowFds)] = Closed
<1>1. r.list \in Seq(RedirTabs)
  BY DEF Restores, DescTypes
<1>2. PICK c \in LowFds : c \notin UserFds
  BY DescriptorsAssumption
<1>3. c \in AllFds \ UserFds /\ c \notin SaveFds /\ c \in Nat
  BY <1>2, FdsApart DEF AllFds
<1>4. ASSUME r.open[c] # Closed PROVE FALSE
  <2>1. PICK k \in 1..Len(r.list), m \in UserFds : TableAt(r.list, k)[m] = c
    BY <1>3, <1>4 DEF Restores, NoneLeft
  <2>2. r.list # <<>>
    BY <1>1, <2>1
  <2>3. TableAt(r.list, k) \in RedirTabs
    BY <1>1, <2>1, <2>2, FirstTable
  <2>4. c \in Marks
    BY <2>1, <2>3 DEF RedirTabs
  <2> QED
    BY <1>2, <1>3, <2>4, FdsApart DEF Marks
<1>5. LowFds \subseteq Nat
  BY FdsApart
<1> QED
  BY <1>2, <1>4, <1>5, FreshIs

\* savefd makes a copy, of a descriptor that is open, where none is.
LEMMA SavingIs ==
    ASSUME NEW open \in [AllFds -> Contents], NEW n \in UserFds, \E c \in SaveFds : open[c] = Closed
    PROVE  \/ open[n] = Closed /\ R!savefd(open, n) = [fd |-> R!CLOSED, open |-> open]
           \/ /\ open[n] # Closed
              /\ \E c \in SaveFds :
                    /\ open[c] = Closed
                    /\ R!savefd(open, n) = [fd |-> c, open |-> [m \in AllFds |->
                          IF m = n THEN Closed ELSE IF m = c THEN open[n] ELSE open[m]]]
<1>1. CASE open[n] = Closed
  BY <1>1 DEF R!savefd
<1>2. CASE open[n] # Closed
  <2> DEFINE c == R!Fresh(open, SaveFds)
  <2>1. c \in SaveFds /\ open[c] = Closed
    BY FdsApart, FreshIs
  <2>2. R!savefd(open, n) = [fd |-> c, open |-> R!Close(R!Dup2(open, n, c), n)]
    BY <1>2 DEF R!savefd
  <2> HIDE DEF c
  <2>3. c # n /\ c \in AllFds /\ n \in AllFds
    BY <2>1, FdsApart
  <2>4. R!Close(R!Dup2(open, n, c), n) = [m \in AllFds |->
                          IF m = n THEN Closed ELSE IF m = c THEN open[n] ELSE open[m]]
    BY <2>3 DEF R!Close, R!Dup2
  <2> QED
    BY <1>2, <2>1, <2>2, <2>4
<1> QED
  BY <1>1, <1>2

\* Without a mark, what n is, it is to the commands around.
LEMMA EmptyShows ==
    ASSUME NEW r, NEW V, NEW w, Restores(r, V, w), r.list # <<>>, NEW n \in UserFds,
           TableAt(r.list, Len(r.list))[n] = R!EMPTY
    PROVE  Shows(V, Len(r.list), n, r.open[n])
<1>1. r.list \in Seq(RedirTabs) /\ Len(V) = Len(r.list) + 1
  BY DEF Restores, DescTypes
<1>2. PICK len \in Nat \ {0} : len = Len(r.list) /\ len \in 1..len
  BY <1>1
<1>3. PICK l : l = len + 1
  OBVIOUS
<1>4. Shows(V, l, n, r.open[n])
  BY <1>1, <1>2, <1>3 DEF Restores, OpenRight
<1>5. Saved(r.open, R!EMPTY, V, len, n, w)
  BY <1>2 DEF Restores, SavedRight
<1>6. V[l][n] \in {Same, r.open[n]} /\ (V[l][n] = Same => Shows(V, len, n, r.open[n]))
  <2>1. PICK v : v = r.open[n]
    OBVIOUS
  <2>2. Shows(V, l, n, v) /\ len \in Nat /\ l = len + 1
    BY <1>2, <1>3, <1>4, <2>1
  <2>3. V[l][n] \in {Same, v}
    BY <2>2, ShowsNext
  <2>4. V[l][n] = Same => Shows(V, len, n, v)
    BY <2>2, ShowsNext
  <2> QED
    BY <2>1, <2>3, <2>4
<1>7. V[l][n] = Same \/ Shows(V, len, n, V[l][n])
  BY <1>3, <1>5 DEF Saved
<1> QED
  BY <1>2, <1>6, <1>7

\* What a redirection of n saves: its mark is t, and open what is left of io.
Kept(t, open, io, r, V, n) ==
    /\ t \in Marks /\ t # R!EMPTY /\ open \in [AllFds -> Contents]
    /\ \A c \in AllFds : c # n /\ c # t => open[c] = io[c]
    /\ TableAt(r.list, Len(r.list))[n] \in SaveFds => t = TableAt(r.list, Len(r.list))[n]
    /\ t \in SaveFds => /\ open[t] # Closed /\ Shows(V, Len(r.list), n, open[t])
                        /\ t = TableAt(r.list, Len(r.list))[n] \/ r.open[t] = Closed
    /\ t \in {R!CLOSED, R!REALLY_CLOSED} => Shows(V, Len(r.list), n, Closed)
    /\ t = R!REALLY_CLOSED => TableAt(r.list, Len(r.list))[n] = R!REALLY_CLOSED

Spared(old, fd, n, io) == IF old = R!EMPTY /\ fd # n THEN R!savefd(io, n)
                          ELSE [fd |-> IF old = R!EMPTY THEN R!CLOSED ELSE old, open |-> io]

Sparable(old, fd, n, io, r) ==
    /\ io \in [AllFds -> Contents] /\ \A c \in SaveFds : io[c] = r.open[c]
    /\ fd = n => r.open[n] = Closed
    /\ fd # n => io[n] = r.open[n]
    /\ old = R!EMPTY => \E c \in SaveFds : r.open[c] = Closed

Spares(s, old, fd, n, io, r, V) ==
    /\ Kept(s.fd, s.open, io, r, V, n)
    /\ old = R!EMPTY /\ fd # n => s.open[n] = Closed
    /\ ~(old = R!EMPTY /\ fd # n) => s.open = io

\* The copy that a first redirection of n makes is the mark for it.
LEMMA KeptIs ==
    ASSUME NEW r, NEW V, NEW w, Restores(r, V, w), r.list # <<>>,
           NEW n \in UserFds, NEW old, old = TableAt(r.list, Len(r.list))[n],
           NEW fd, NEW io, Sparable(old, fd, n, io, r)
    PROVE  Spares(Spared(old, fd, n, io), old, fd, n, io, r, V)
<1> DEFINE s == Spared(old, fd, n, io)
<1>0. s = IF old = R!EMPTY /\ fd # n THEN R!savefd(io, n)
          ELSE [fd |-> IF old = R!EMPTY THEN R!CLOSED ELSE old, open |-> io]
  BY DEF Spared
<1> SUFFICES /\ Kept(s.fd, s.open, io, r, V, n)
             /\ old = R!EMPTY /\ fd # n => s.open[n] = Closed
             /\ ~(old = R!EMPTY /\ fd # n) => s.open = io
  BY DEF Spares
<1> HIDE DEF s
<1> USE DEF Sparable
<1>1. r.list \in Seq(RedirTabs) /\ r.open \in [AllFds -> Contents]
  BY DEF Restores, DescTypes
<1>2. old \in Marks /\ Len(r.list) \in 1..Len(r.list)
  BY <1>1, FirstTable DEF RedirTabs
<1>3. old = R!EMPTY => Shows(V, Len(r.list), n, r.open[n])
  BY EmptyShows
<1>4. R!CLOSED \in Marks /\ R!CLOSED # R!EMPTY /\ R!CLOSED # R!REALLY_CLOSED /\ R!CLOSED \notin SaveFds
      /\ R!EMPTY \notin SaveFds /\ R!REALLY_CLOSED \notin SaveFds
  BY FdsApart DEF Marks
<1>5. CASE old = R!EMPTY /\ fd # n
  <2>1. s = R!savefd(io, n) /\ io[n] = r.open[n]
    BY <1>0, <1>5
  <2>2. \/ io[n] = Closed /\ R!savefd(io, n) = [fd |-> R!CLOSED, open |-> io]
        \/ /\ io[n] # Closed
           /\ \E c \in SaveFds :
                 /\ io[c] = Closed
                 /\ R!savefd(io, n) = [fd |-> c, open |-> [m \in AllFds |->
                       IF m = n THEN Closed ELSE IF m = c THEN io[n] ELSE io[m]]]
    BY <1>5, SavingIs
  <2>3. CASE io[n] = Closed /\ R!savefd(io, n) = [fd |-> R!CLOSED, open |-> io]
    <3>1. s.fd = R!CLOSED /\ s.open = io
      BY <2>1, <2>3
    <3>2. Shows(V, Len(r.list), n, Closed)
      BY <1>3, <1>5, <2>1, <2>3
    <3> QED
      BY <1>4, <1>5, <2>3, <3>1, <3>2 DEF Kept
  <2>4. CASE \E c \in SaveFds :
                 /\ io[c] = Closed
                 /\ R!savefd(io, n) = [fd |-> c, open |-> [m \in AllFds |->
                       IF m = n THEN Closed ELSE IF m = c THEN io[n] ELSE io[m]]]
    <3>1. PICK c \in SaveFds :
                 /\ io[c] = Closed
                 /\ R!savefd(io, n) = [fd |-> c, open |-> [m \in AllFds |->
                       IF m = n THEN Closed ELSE IF m = c THEN io[n] ELSE io[m]]]
      BY <2>4
    <3> DEFINE open == [m \in AllFds |-> IF m = n THEN Closed ELSE IF m = c THEN io[n] ELSE io[m]]
    <3>2. s.fd = c /\ s.open = open
      BY <2>1, <3>1
    <3>3. c \in AllFds /\ n \in AllFds /\ c # n /\ c \in Marks /\ c # R!EMPTY /\ c # R!CLOSED
          /\ c # R!REALLY_CLOSED /\ Closed \in Contents
      BY FdsApart DEF Marks
    <3>4. open \in [AllFds -> Contents] /\ open[n] = Closed /\ open[c] = io[n]
          /\ \A m \in AllFds : m # n /\ m # c => open[m] = io[m]
      BY <3>3
    <3> HIDE DEF open
    <3>5. CASE io[n] # Closed
      <4>1. open[c] # Closed /\ Shows(V, Len(r.list), n, open[c]) /\ r.open[c] = Closed
        BY <1>3, <1>5, <2>1, <3>1, <3>4, <3>5
      <4>2. Kept(c, open, io, r, V, n)
        BY <1>4, <1>5, <3>3, <3>4, <4>1 DEF Kept
      <4> QED
        BY <1>5, <3>2, <3>4, <4>2
    <3>6. CASE io[n] = Closed
      BY <2>2, <2>3, <3>6
    <3> QED
      BY <3>5, <3>6
  <2> QED
    BY <2>2, <2>3, <2>4
<1>6. CASE old = R!EMPTY /\ fd = n
  <2>1. s.fd = R!CLOSED /\ s.open = io
    BY <1>0, <1>6
  <2>2. Shows(V, Len(r.list), n, Closed)
    BY <1>3, <1>6
  <2> QED
    BY <1>4, <1>6, <2>1, <2>2 DEF Kept
<1>7. CASE old # R!EMPTY
  <2>1. s.fd = old /\ s.open = io
    BY <1>0, <1>7
  <2>2. Saved(r.open, old, V, Len(r.list), n, w)
    BY <1>2 DEF Restores, SavedRight
  <2>3. old \in SaveFds => io[old] = r.open[old]
    OBVIOUS
  <2>4. Kept(old, io, io, r, V, n)
    BY <1>2, <1>4, <1>7, <2>2, <2>3 DEF Kept, Saved
  <2> QED
    BY <1>7, <2>1, <2>4
<1> QED
  BY <1>5, <1>6, <1>7

\* What is asked of a redirection where the last mark of its descriptor is old.
Fits(x, old, w) ==
    /\ x \in Redirections /\ (x.type = "dup" => x.from \in UserFds)
    /\ old = R!REALLY_CLOSED => x.type \in {"close", "fail"}
    /\ x.type = "close" => x.fd \in Shuts(w)
    /\ "exec" \in w.program => /\ x.type = "dup" => x.from # x.fd
                               /\ x.fd \in Shuts(w) => x.type \in {"close", "fail"}

\* The tables after it.
Redone(next, done, V, U, x, w) ==
    /\ Restores(next.rd, U, w)
    /\ Len(next.rd.list) = Len(done.rd.list) /\ DOMAIN next = {"rd", "err"} /\ next.err \in BOOLEAN
    /\ Len(U) = Len(V) /\ \A i \in 1..Len(V) - 1 : U[i] = V[i]
    /\ ~next.err => ~done.err /\ U[Len(V)] = Asked(V[Len(V)], x)
    /\ \A m \in UserFds :
          TableAt(next.rd.list, Len(done.rd.list))[m] = R!REALLY_CLOSED =>
             \/ TableAt(done.rd.list, Len(done.rd.list))[m] = R!REALLY_CLOSED
             \/ m = x.fd /\ x.type = "close"
    /\ "exec" \in w.program => \A m \in Shuts(w) : U[Len(V)][m] \in {V[Len(V)][m], Closed}

\* A redirection keeps that the tables give all back, whether it fails or not.
LEMMA ChangeRedone ==
    ASSUME NEW r, NEW V, NEW w, Restores(r, V, w), r.list # <<>>, NEW x \in Redirections, NEW n, n = x.fd,
           NEW done, done.rd = r, done.err = FALSE, NEW next, DOMAIN next = {"rd", "err"}, next.err \in BOOLEAN,
           NEW v, NEW t, Changes(next.rd, r, V, w, n, v, t),
           t = R!REALLY_CLOSED =>
              TableAt(r.list, Len(r.list))[n] = R!REALLY_CLOSED \/ x.type = "close",
           ~next.err => Asked(V[Len(V)], x) = [V[Len(V)] EXCEPT ![n] = v],
           "exec" \in w.program /\ n \in Shuts(w) => v \in {Closed, V[Len(V)][n]}
    PROVE  \E U : Redone(next, done, V, U, x, w)
<1> DEFINE U == Viewed(V, n, v)
<1>1. r.list \in Seq(RedirTabs) /\ V \in Seq(Views) /\ Len(V) = Len(r.list) + 1
  BY DEF Restores, DescTypes
<1>2. PICK len \in Nat \ {0} : len = Len(r.list) /\ Len(V) = len + 1 /\ len \in 1..len /\ V # <<>>
  BY <1>1
<1>3. n \in UserFds /\ t \in Marks /\ v \in Contents /\ next.rd.list = Marked(r.list, n, t)
  BY DEF Changes
<1>4. v \in Seen
  BY <1>3, FdsApart
<1>5. Restores(next.rd, U, w)
  BY ChangeRestores
<1>6. U \in Seq(Views) /\ Len(U) = Len(V) /\ \A i \in 1..Len(V) - 1 : U[i] = V[i]
  <2>1. V \in Seq(Views) /\ V # <<>> /\ n \in UserFds /\ v \in Seen
    BY <1>1, <1>2, <1>3, <1>4
  <2>2. /\ Viewed(V, n, v) \in Seq(Views) /\ Len(Viewed(V, n, v)) = Len(V)
        /\ \A i \in 1..Len(V) - 1 : Viewed(V, n, v)[i] = V[i]
    BY <2>1, ViewedIs
  <2> QED
    BY <2>2
<1>7. \A m \in UserFds : U[Len(V)][m] = IF m = n THEN v ELSE V[Len(V)][m]
  BY <1>1, <1>2, <1>3, <1>4, ViewedIs
<1>8. U[Len(V)] = [V[Len(V)] EXCEPT ![n] = v]
  <2>1. Len(V) \in 1..Len(V)
    BY <1>2
  <2>2. V \in [1..Len(V) -> Views]
    BY <1>1
  <2> QED
    BY <2>1, <2>2 DEF Viewed
<1>9. \A m \in UserFds : TableAt(next.rd.list, len)[m] = IF m = n THEN t ELSE TableAt(r.list, len)[m]
  <2>1. \A k \in 1..Len(r.list), m \in UserFds : TableAt(Marked(r.list, n, t), k)[m] =
                 IF k = Len(r.list) /\ m = n THEN t ELSE TableAt(r.list, k)[m]
    BY <1>1, <1>3, MarkedIs
  <2> QED
    BY <1>2, <1>3, <2>1
<1>10. Len(next.rd.list) = len
  BY <1>1, <1>2, <1>3, MarkedIs
<1>11. Shuts(w) \subseteq UserFds
  BY DEF Shuts
<1> HIDE DEF U
<1>12. \A m \in UserFds : TableAt(next.rd.list, len)[m] = R!REALLY_CLOSED =>
             TableAt(r.list, len)[m] = R!REALLY_CLOSED \/ (m = n /\ x.type = "close")
  BY <1>2, <1>9
<1>13. "exec" \in w.program => \A m \in Shuts(w) : U[Len(V)][m] \in {V[Len(V)][m], Closed}
  BY <1>7, <1>11
<1>14. Redone(next, done, V, U, x, w)
  BY <1>2, <1>5, <1>6, <1>8, <1>10, <1>12, <1>13 DEF Redone
<1> QED
  BY <1>14

\* One redirection: what it asks for is what the command sees.
LEMMA RedirectedRestores ==
    ASSUME NEW r, NEW V, NEW w, Restores(r, V, w), r.list # <<>>,
           Room(Len(r.list)),
           \A m \in UserFds : Shows(V, Len(r.list), m, View(m)),
           NEW x, NEW n, n = x.fd, NEW old, old = TableAt(r.list, Len(r.list))[n], Fits(x, old, w),
           NEW done, DOMAIN done = {"rd", "err"}, done.err \in BOOLEAN, done.rd = r
    PROVE  \E U : Redone(R!Redirected(done, x), done, V, U, x, w)
<1> DEFINE next == R!Redirected(done, x)
           o == R!openredirect(done.rd.open, x)
           s == Spared(Head(done.rd.list)[x.fd], o.fd, x.fd, o.open)
           t == IF s.fd = o.fd THEN R!REALLY_CLOSED ELSE s.fd
           kept == [done.rd EXCEPT !.open = s.open, !.list[1][x.fd] = t]
           top == V[Len(V)]
<1>1. /\ r.open \in [AllFds -> Contents] /\ r.list \in Seq(RedirTabs) /\ DOMAIN r = {"open", "list"}
      /\ V \in Seq(Views) /\ Len(V) = Len(r.list) + 1
  BY DEF Restores, DescTypes
<1>2. PICK len \in Nat \ {0} : len = Len(r.list) /\ Len(V) = len + 1 /\ len \in 1..len /\ len + 1 \in 1..len + 1
  BY <1>1
<1>3. x \in Redirections /\ n \in UserFds /\ n \in AllFds /\ n \in Nat /\ (x.type = "dup" => x.from \in UserFds)
      /\ x.type \in {"file", "dup", "close", "fail"}
  BY FdsApart DEF Fits, Redirections
<1>4. Head(r.list) = TableAt(r.list, Len(r.list)) /\ old \in Marks /\ Head(r.list)[n] = old
  BY <1>1, <1>3, FirstTable DEF RedirTabs
<1>5. top \in Views
  BY <1>1, <1>2
<1>6. next = IF done.err \/ (x.type # "fail" /\ o.fd = R!NoFd) THEN done
             ELSE IF x.type = "fail" THEN [done EXCEPT !.err = TRUE]
             ELSE IF o.fd = n /\ ~(old = R!EMPTY /\ o.fd # n) THEN [done EXCEPT !.rd = kept]
             ELSE IF R!Bad(s.open, x, o.fd) THEN [rd |-> kept, err |-> TRUE]
             ELSE [done EXCEPT !.rd = [kept EXCEPT !.open = R!dupredirect(s.open, x, o.fd)]]
  <2>1. R!Redirected(done, x) =
             IF done.err \/ (x.type # "fail" /\ o.fd = R!NoFd) THEN done
             ELSE IF x.type = "fail" THEN [done EXCEPT !.err = TRUE]
             ELSE IF o.fd = x.fd /\ ~(Head(done.rd.list)[x.fd] = R!EMPTY /\ o.fd # x.fd) THEN [done EXCEPT !.rd = kept]
             ELSE IF R!Bad(s.open, x, o.fd) THEN [rd |-> kept, err |-> TRUE]
             ELSE [done EXCEPT !.rd = [kept EXCEPT !.open = R!dupredirect(s.open, x, o.fd)]]
    BY DEF R!Redirected, Spared
  <2> HIDE DEF o, s, t, kept
  <2> QED
    BY <1>4, <2>1
<1>15. DOMAIN kept = {"open", "list"} /\ kept.open = s.open /\ kept.list = Marked(r.list, n, t)
  <2> HIDE DEF s, t
  <2> QED
    BY <1>1 DEF Marked
<1>16. o = R!openredirect(r.open, x) /\ s = Spared(old, o.fd, n, o.open)
  BY <1>4
<1> HIDE DEF kept, s
\* Nothing to do
<1>7. ASSUME next.rd = r, DOMAIN next = {"rd", "err"}, next.err \in BOOLEAN, next.err \/ (~done.err /\ Asked(top, x) = top)
      PROVE  Redone(next, done, V, V, x, w)
  <2> HIDE DEF next
  <2> QED
    BY <1>7 DEF Redone
<1>8. CASE done.err
  <2>1. next = done
    BY <1>6, <1>8
  <2>2. Redone(next, done, V, V, x, w)
    BY <1>7, <1>8, <2>1
  <2> QED
    BY <2>2
<1>9. CASE ~done.err /\ x.type = "fail"
  <2>1. next = [done EXCEPT !.err = TRUE]
    BY <1>6, <1>9
  <2>2. next.rd = r /\ DOMAIN next = {"rd", "err"} /\ next.err /\ next.err \in BOOLEAN
    BY <2>1
  <2>3. Redone(next, done, V, V, x, w)
    BY <1>7, <2>2
  <2> QED
    BY <2>3
\* What the descriptor copied is now, is what it is to be.
<1>10. ASSUME x.type = "dup" PROVE Asked(top, x) = [top EXCEPT ![n] = r.open[x.from]]
  <2>1. PICK l, m, u : l = len + 1 /\ m = x.from /\ u = r.open[m]
    OBVIOUS
  <2>2. m \in UserFds /\ Shows(V, l, m, u) /\ top = V[l]
    BY <1>2, <1>3, <1>10, <2>1 DEF Restores, OpenRight
  <2>3. top[m] \in {Same, u} /\ (top[m] = Same => Shows(V, len, m, u))
    <3>1. len \in Nat /\ l = len + 1
      BY <1>2, <2>1
    <3>2. V[l][m] \in {Same, u}
      BY <2>2, <3>1, ShowsNext
    <3>3. V[l][m] = Same => Shows(V, len, m, u)
      BY <2>2, <3>1, ShowsNext
    <3> QED
      BY <2>2, <3>2, <3>3
  <2>4. top[m] = Same => View(m) = u
    BY <1>2, <2>2, <2>3, ShowsOne
  <2>5. (IF top[x.from] # Same THEN top[x.from] ELSE View(x.from)) = r.open[x.from]
    BY <2>1, <2>3, <2>4
  <2> QED
    BY <1>10, <2>5 DEF Asked
<1>11. x.type = "file" => Asked(top, x) = [top EXCEPT ![n] = File]
  BY DEF Asked
<1>12. x.type = "close" => Asked(top, x) = [top EXCEPT ![n] = Closed]
  BY DEF Asked
\* n>&n
<1>13. CASE ~done.err /\ x.type = "dup" /\ x.from = n
  <2>1. next = done
    BY <1>6, <1>13 DEF R!openredirect
  <2>2. PICK v : v = r.open[n]
    OBVIOUS
  <2>3. v \in Contents /\ Asked(top, x) = [top EXCEPT ![n] = v]
    BY <1>1, <1>3, <1>10, <1>13, <2>2
  <2>4. Shows(V, len + 1, n, v)
    BY <1>2, <1>3, <2>2 DEF Restores, OpenRight
  <2>5. top[n] \in {Same, v} /\ (top[n] = Same => Shows(V, len, n, v))
    <3>1. PICK l : l = len + 1 /\ len \in Nat
      BY <1>2
    <3>2. V[l][n] \in {Same, v}
      BY <2>4, <3>1, ShowsNext
    <3>3. V[l][n] = Same => Shows(V, len, n, v)
      BY <2>4, <3>1, ShowsNext
    <3> QED
      BY <1>2, <3>1, <3>2, <3>3
  <2>6. CASE top[n] # Same
    <3>1. Asked(top, x) = top
      BY <1>3, <1>5, <2>3, <2>5, <2>6 DEF Views
    <3>2. Redone(next, done, V, V, x, w)
      BY <1>7, <1>13, <2>1, <3>1
    <3> QED
      BY <3>2
  <2>7. CASE top[n] = Same
    <3>1. "exec" \notin w.program
      BY <1>13 DEF Fits
    <3>2. Saved(r.open, old, V, len, n, w)
      BY <1>2, <1>3 DEF Restores, SavedRight
    <3>3. old = R!EMPTY
      BY <1>2, <2>7, <3>2 DEF Saved
    <3>4. Marked(r.list, n, old) = r.list
      <4>1. r.list \in [1..len -> RedirTabs] /\ 1 \in 1..len /\ r.list[1] \in RedirTabs
        BY <1>1, <1>2
      <4>2. r.list[1][n] = old
        BY <1>1, <1>4
      <4>3. [r.list[1] EXCEPT ![n] = old] = r.list[1]
        BY <4>1, <4>2 DEF RedirTabs
      <4> QED
        BY <4>1, <4>3 DEF Marked
    <3>5. next.rd = r /\ DOMAIN next = {"rd", "err"} /\ next.err \in BOOLEAN
      BY <2>1
    <3>6. /\ R!EMPTY \notin SaveFds /\ R!EMPTY \notin {R!CLOSED, R!REALLY_CLOSED} /\ R!EMPTY # R!REALLY_CLOSED
      BY FdsApart
    <3> HIDE DEF next
    <3>7. Changes(next.rd, r, V, w, n, v, R!EMPTY)
      BY <1>1, <1>2, <1>3, <1>4, <2>2, <2>3, <2>5, <2>7, <3>1, <3>3, <3>4, <3>5, <3>6 DEF Changes
    <3>8. ~next.err => Asked(V[Len(V)], x) = [V[Len(V)] EXCEPT ![n] = v]
      BY <2>3
    <3>9. done.err = FALSE
      BY <1>13
    <3>10. \E U : Redone(next, done, V, U, x, w)
      BY <1>3, <3>1, <3>5, <3>6, <3>7, <3>8, <3>9, ChangeRedone
    <3> QED
      BY <3>10 DEF next
  <2> QED
    BY <2>6, <2>7
\* A descriptor is saved, unless it was before.
<1>14. CASE ~done.err /\ x.type \in {"file", "dup", "close"} /\ (x.type = "dup" => x.from # n)
  <2>0. done.err = FALSE /\ x.type # "fail"
    BY <1>14
  <2>1. PICK f \in LowFds : f = R!Fresh(r.open, LowFds) /\ r.open[f] = Closed
    BY LowIsFree
  <2>2. f \in AllFds /\ f \in Nat /\ f \notin SaveFds
    BY <2>1, FdsApart DEF AllFds
  <2>3. /\ x.type = "file" => o.fd = f /\ o.open = [r.open EXCEPT ![f] = File]
        /\ x.type = "dup" => o.fd = x.from /\ o.open = r.open
        /\ x.type = "close" => o.fd = R!CLOSED /\ o.open = r.open
    BY <1>14, <1>16, <2>1 DEF R!openredirect
  <2>4. /\ o.open \in [AllFds -> Contents] /\ \A c \in SaveFds : o.open[c] = r.open[c]
        /\ o.fd = n => r.open[n] = Closed /\ x.type = "file"
        /\ o.fd # n => o.open[n] = r.open[n]
        /\ o.fd # R!NoFd /\ o.fd \notin SaveFds /\ (x.type # "close" => o.fd # R!CLOSED)
        /\ x.type # "close" => o.fd # R!REALLY_CLOSED
        /\ R!CLOSED # R!REALLY_CLOSED
    <3>1. \A c \in SaveFds : c \in AllFds
      BY FdsApart
    <3>2. CASE x.type = "file"
      <4>1. o.fd = f /\ o.open = [r.open EXCEPT ![f] = File] /\ File \in Contents
        BY <2>3, <3>2, FdsApart
      <4>2. f # R!NoFd /\ f # R!CLOSED /\ f # R!REALLY_CLOSED /\ R!CLOSED # R!REALLY_CLOSED
        BY <2>2, FdsApart
      <4>3. \A c \in AllFds : c # f => o.open[c] = r.open[c]
        BY <1>1, <4>1
      <4>4. o.open \in [AllFds -> Contents]
        BY <1>1, <4>1
      <4> HIDE DEF o
      <4> QED
        BY <1>3, <2>1, <2>2, <3>1, <3>2, <4>1, <4>2, <4>3, <4>4
    <3>3. CASE x.type = "dup"
      BY <1>1, <1>3, <1>14, <2>3, <3>1, <3>3, FdsApart
    <3>4. CASE x.type = "close"
      BY <1>1, <1>3, <2>3, <3>1, <3>4, FdsApart
    <3> QED
      BY <1>14, <3>2, <3>3, <3>4
  <2>5. old = R!EMPTY => \E c \in SaveFds : r.open[c] = Closed
    BY <1>3, RoomForCopy
  <2> HIDE DEF o
  <2>6. /\ Kept(s.fd, s.open, o.open, r, V, n)
        /\ old = R!EMPTY /\ o.fd # n => s.open[n] = Closed
        /\ ~(old = R!EMPTY /\ o.fd # n) => s.open = o.open
    <3>1. PICK fd, io, y : fd = o.fd /\ io = o.open /\ y = s
      OBVIOUS
    <3> HIDE DEF next, top, t
    <3>2. Sparable(old, fd, n, io, r)
      BY <2>4, <2>5, <3>1 DEF Sparable
    <3>3. y = Spared(old, fd, n, io)
      BY <1>16, <3>1
    <3>4. Restores(r, V, w) /\ r.list # <<>> /\ n \in UserFds /\ old = TableAt(r.list, Len(r.list))[n]
      BY <1>3
    <3>5. Spares(Spared(old, fd, n, io), old, fd, n, io, r, V)
      BY <3>2, <3>4, KeptIs
    <3> HIDE DEF s
    <3> QED
      BY <3>1, <3>3, <3>5 DEF Spares
  <2> HIDE DEF s
  <2>7. next = IF o.fd = n THEN [done EXCEPT !.rd = kept]
               ELSE IF R!Bad(s.open, x, o.fd) THEN [rd |-> kept, err |-> TRUE]
               ELSE [done EXCEPT !.rd = [kept EXCEPT !.open = R!dupredirect(s.open, x, o.fd)]]
    BY <1>6, <2>0, <2>4
  <2> HIDE DEF next
  <2>8. old = R!REALLY_CLOSED => x.type = "close"
    BY <2>0 DEF Fits
  <2>9. "exec" \in w.program /\ n \in Shuts(w) => x.type = "close"
    BY <2>0 DEF Fits
  <2>10. x.type = "close" => n \in Shuts(w)
    BY DEF Fits
  <2>11. s.fd \in Marks /\ s.open \in [AllFds -> Contents] /\ s.fd # n
         /\ (s.fd = R!REALLY_CLOSED => x.type = "close")
    BY <1>3, <2>6, <2>8, FdsApart DEF Kept, Marks
  \* The mark, where nothing is closed.
  <2>12. ASSUME x.type # "close" PROVE t = s.fd
    <3>1. s.fd # o.fd
      <4>1. CASE x.type = "file"
        BY <2>2, <2>3, <2>11, <4>1, FdsApart DEF Marks
      <4>2. CASE x.type = "dup"
        BY <1>3, <2>3, <2>11, <4>2, FdsApart DEF Marks
      <4> QED
        BY <1>14, <2>12, <4>1, <4>2
    <3> QED
      BY <3>1
  <2> SUFFICES \E v, m : /\ Changes(next.rd, r, V, w, n, v, m) /\ DOMAIN next = {"rd", "err"} /\ next.err \in BOOLEAN
                         /\ m = R!REALLY_CLOSED => x.type = "close"
                         /\ ~next.err => Asked(top, x) = [top EXCEPT ![n] = v]
                         /\ x.type = "close" => v = Closed
    <3>1. \A v, m : /\ Changes(next.rd, r, V, w, n, v, m) /\ DOMAIN next = {"rd", "err"} /\ next.err \in BOOLEAN
                    /\ m = R!REALLY_CLOSED => x.type = "close"
                    /\ ~next.err => Asked(top, x) = [top EXCEPT ![n] = v]
                    /\ x.type = "close" => v = Closed
                    => \E U : Redone(next, done, V, U, x, w)
      BY <1>3, <2>0, <2>9, ChangeRedone
    <3> QED
      BY <3>1 DEF next
  <2> DEFINE q == next.rd
  <2>13. CASE x.type = "file" /\ f = n
    <3>1. next = [done EXCEPT !.rd = kept]
      BY <2>3, <2>7, <2>13
    <3>2. q = kept /\ next.err = FALSE /\ DOMAIN next = {"rd", "err"}
      BY <2>0, <3>1
    <3>3. s.open = [r.open EXCEPT ![n] = File]
      BY <2>3, <2>6, <2>13
    <3>4. DOMAIN q = {"open", "list"} /\ q.open = s.open /\ q.list = Marked(r.list, n, s.fd)
      BY <1>15, <2>12, <2>13, <3>2
    <3>5. File \in Contents /\ q.open[n] = File /\ \A m \in AllFds : m # n => q.open[m] = r.open[m]
      BY <1>1, <1>3, <3>3, <3>4, FdsApart
    <3>6. \A m \in UserFds : m \in AllFds
      BY FdsApart
    <3> HIDE DEF q, t
    <3>7. Changes(q, r, V, w, n, File, s.fd)
      BY <1>3, <2>3, <2>6, <2>8, <2>11, <2>13, <3>4, <3>5, <3>6 DEF Changes, Kept
    <3> QED
      BY <1>11, <2>11, <2>13, <3>2, <3>7 DEF q
  <2>14. CASE x.type = "file" /\ f # n
    <3>1. ~R!Bad(s.open, x, o.fd)
      BY <2>14 DEF R!Bad
    <3>2. next = [done EXCEPT !.rd = [kept EXCEPT !.open = R!dupredirect(s.open, x, o.fd)]]
      BY <2>3, <2>7, <2>14, <3>1
    <3>3. R!dupredirect(s.open, x, o.fd) = [[s.open EXCEPT ![n] = s.open[f]] EXCEPT ![f] = Closed]
      BY <2>3, <2>14 DEF R!dupredirect, R!Close, R!Dup2
    <3>4. next.err = FALSE /\ DOMAIN next = {"rd", "err"}
          /\ DOMAIN q = {"open", "list"} /\ q.open = [[s.open EXCEPT ![n] = s.open[f]] EXCEPT ![f] = Closed]
          /\ q.list = Marked(r.list, n, s.fd)
      BY <1>15, <2>0, <2>12, <2>14, <3>2, <3>3
    <3>5. f # s.fd
      BY <2>2, <2>11, FdsApart DEF Marks
    <3>6. s.open[f] = File /\ \A m \in AllFds : m # n /\ m # s.fd /\ m # f => s.open[m] = r.open[m]
      BY <1>1, <2>2, <2>3, <2>6, <2>14, <3>5 DEF Kept
    <3>7. File \in Contents /\ Closed \in Contents /\ \A m \in UserFds : m \in AllFds /\ m \notin SaveFds
      BY FdsApart
    <3>8. q.open \in [AllFds -> Contents] /\ q.open[n] = File /\ q.open[f] = Closed
          /\ \A m \in AllFds : m # n /\ m # f => q.open[m] = s.open[m]
      BY <1>3, <2>2, <2>11, <2>14, <3>4, <3>6, <3>7
    <3>9. \A m \in AllFds : m # n /\ m # s.fd => q.open[m] = r.open[m]
      BY <2>1, <3>6, <3>8
    <3>10. \A m \in UserFds : m # s.fd
      BY <2>11, <3>7, FdsApart DEF Marks
    <3>11. s.fd \in SaveFds => q.open[s.fd] = s.open[s.fd]
      BY <2>11, <3>5, <3>8, FdsApart
    <3> HIDE DEF q, t
    <3>12. Changes(q, r, V, w, n, File, s.fd)
      BY <1>3, <2>6, <2>8, <2>11, <2>14, <3>4, <3>7, <3>8, <3>9, <3>10, <3>11 DEF Changes, Kept
    <3> QED
      BY <1>11, <2>11, <2>14, <3>4, <3>12 DEF q
  <2>15. CASE x.type = "close"
    <3>1. ~R!Bad(s.open, x, o.fd) /\ o.fd # n
      BY <1>3, <2>3, <2>15, FdsApart DEF R!Bad
    <3>2. next = [done EXCEPT !.rd = [kept EXCEPT !.open = R!dupredirect(s.open, x, o.fd)]]
      BY <2>7, <3>1
    <3>3. R!dupredirect(s.open, x, o.fd) = [s.open EXCEPT ![n] = Closed]
      BY <2>15 DEF R!dupredirect, R!Close
    <3>4. next.err = FALSE /\ DOMAIN next = {"rd", "err"}
          /\ DOMAIN q = {"open", "list"} /\ q.open = [s.open EXCEPT ![n] = Closed]
          /\ q.list = Marked(r.list, n, t)
      BY <1>15, <2>0, <3>2, <3>3
    <3>5. Closed \in Contents /\ \A m \in UserFds : m \in AllFds /\ m \notin SaveFds
      BY FdsApart
    <3>6. q.open \in [AllFds -> Contents] /\ q.open[n] = Closed /\ \A m \in AllFds : m # n => q.open[m] = s.open[m]
      BY <1>3, <2>11, <3>4, <3>5
    <3>7. \A m \in AllFds : m # n /\ m # s.fd => q.open[m] = r.open[m]
      BY <2>3, <2>6, <2>15, <3>6 DEF Kept
    <3>8. \A m \in UserFds : m # s.fd
      BY <2>11, <3>5, FdsApart DEF Marks
    <3>9. s.fd \in SaveFds => q.open[s.fd] = s.open[s.fd] /\ s.fd # n /\ s.fd \in AllFds
      BY <2>11, <3>6, FdsApart
    <3>10. \/ s.fd = R!CLOSED /\ t = R!REALLY_CLOSED
           \/ s.fd # R!CLOSED /\ t = s.fd
      BY <2>3, <2>15
    <3>11. /\ t \in Marks /\ t # R!EMPTY /\ (t \in SaveFds => t = s.fd)
           /\ t \in {R!CLOSED, R!REALLY_CLOSED} => s.fd \in {R!CLOSED, R!REALLY_CLOSED}
           /\ s.fd \in SaveFds => t = s.fd
           /\ \A m \in AllFds : m # t => m # s.fd
      BY <2>6, <2>11, <3>10, FdsApart DEF Marks, Kept, AllFds
    <3> HIDE DEF q, t
    <3>12. Changes(q, r, V, w, n, Closed, t)
      BY <1>3, <2>6, <2>10, <2>11, <2>15, <3>4, <3>5, <3>6, <3>7, <3>8, <3>9, <3>11 DEF Changes, Kept
    <3> QED
      BY <1>12, <2>15, <3>4, <3>12 DEF q
  <2>16. CASE x.type = "dup"
    <3>1. o.fd = x.from /\ x.from # n /\ o.open = r.open /\ x.from \in UserFds
      BY <1>3, <1>14, <2>3, <2>16
    <3>2. \A m \in UserFds : m \in AllFds /\ m # s.fd
      BY <2>11, FdsApart DEF Marks
    <3>3. s.open[x.from] = r.open[x.from] /\ \A m \in AllFds : m # n /\ m # s.fd => s.open[m] = r.open[m]
      BY <2>6, <3>1, <3>2 DEF Kept
    <3>4. CASE R!Bad(s.open, x, o.fd)
      <4>1. next = [rd |-> kept, err |-> TRUE]
        BY <2>7, <3>1, <3>4
      <4>2. next.err /\ DOMAIN next = {"rd", "err"} /\ DOMAIN q = {"open", "list"} /\ q.open = s.open
            /\ q.list = Marked(r.list, n, s.fd)
        BY <1>15, <2>12, <2>16, <4>1
      <4>3. s.open[n] \in Contents
        BY <1>3, <2>11
      <4> HIDE DEF q, t
      <4>4. Changes(q, r, V, w, n, s.open[n], s.fd)
        BY <1>3, <2>6, <2>8, <2>11, <2>16, <3>2, <3>3, <4>2, <4>3 DEF Changes, Kept
      <4> QED
        BY <2>11, <2>16, <4>2, <4>4 DEF q
    <3>5. CASE ~R!Bad(s.open, x, o.fd)
      <4>1. next = [done EXCEPT !.rd = [kept EXCEPT !.open = R!dupredirect(s.open, x, o.fd)]]
        BY <2>7, <3>1, <3>5
      <4>2. R!dupredirect(s.open, x, o.fd) = [s.open EXCEPT ![n] = s.open[x.from]]
        BY <2>16, <3>1 DEF R!dupredirect, R!Dup2
      <4>3. next.err = FALSE /\ DOMAIN next = {"rd", "err"}
            /\ DOMAIN q = {"open", "list"} /\ q.open = [s.open EXCEPT ![n] = s.open[x.from]]
            /\ q.list = Marked(r.list, n, s.fd)
        BY <1>15, <2>0, <2>12, <2>16, <4>1, <4>2
      <4>4. r.open[x.from] \in Contents
        BY <1>1, <3>1, <3>2
      <4>5. q.open \in [AllFds -> Contents] /\ q.open[n] = r.open[x.from]
            /\ \A m \in AllFds : m # n => q.open[m] = s.open[m]
        BY <1>3, <2>11, <3>3, <4>3, <4>4
      <4>6. s.fd \in SaveFds => q.open[s.fd] = s.open[s.fd]
        BY <2>11, <4>5, FdsApart
      <4> HIDE DEF q, t
      <4>7. Changes(q, r, V, w, n, r.open[x.from], s.fd)
        BY <1>3, <2>6, <2>8, <2>11, <2>16, <3>2, <3>3, <4>3, <4>4, <4>5, <4>6 DEF Changes, Kept
      <4>8. Asked(top, x) = [top EXCEPT ![n] = r.open[x.from]]
        BY <1>10, <2>16
      <4> QED
        BY <2>11, <2>16, <4>3, <4>7, <4>8 DEF q
    <3> QED
      BY <3>4, <3>5
  <2> QED
    BY <1>14, <2>13, <2>14, <2>15, <2>16
<1> QED
  BY <1>3, <1>8, <1>9, <1>13, <1>14

\* What the worlds of the hypothesis ask of each redirection.
LEMMA FitsAt ==
    ASSUME NEW w \in Worlds, Lasting(w), NEW redirs \in w.redirs, NEW m \in 1..Len(redirs), NEW old,
           old = R!REALLY_CLOSED => \E i \in 1..m - 1 : redirs[i].type = "close" /\ redirs[i].fd = redirs[m].fd
    PROVE  Fits(redirs[m], old, w)
<1>1. /\ redirs \in Seq(Redirections)
      /\ \A r \in Redirections : r \in Range(redirs) /\ r.type = "dup" => r.from \in UserFds
  BY WorldsAssumption
<1>2. \A i \in 1..Len(redirs) : redirs[i] \in Redirections
  BY <1>1
<1>3. redirs[m] \in Redirections /\ redirs[m] \in Range(redirs)
  BY <1>1, <1>2 DEF Range
<1>4. redirs[m].type = "dup" => redirs[m].from \in UserFds
  BY <1>1, <1>3
<1>5. \A i \in 1..Len(redirs) : redirs[i].type = "close" => redirs[i].fd \in Shuts(w)
  BY <1>2 DEF Shuts, Redirections
<1>6. "exec" \in w.program => /\ redirs[m].fd \in Shuts(w) => redirs[m].type \in {"close", "fail"}
                              /\ redirs[m].type = "dup" => redirs[m].from # redirs[m].fd
  BY DEF Lasting
<1>7. ASSUME old = R!REALLY_CLOSED PROVE redirs[m].type \in {"close", "fail"}
  <2>1. PICK i \in 1..m - 1 : redirs[i].type = "close" /\ redirs[i].fd = redirs[m].fd
    BY <1>7
  <2>2. i \in 1..Len(redirs) /\ i < m
    BY <1>1, <2>1
  <2>3. CASE "exec" \in w.program
    BY <1>5, <1>6, <2>1, <2>2, <2>3
  <2>4. CASE "exec" \notin w.program
    <3>1. StayClosed(redirs)
      BY <2>4 DEF Lasting
    <3> QED
      BY <2>1, <2>2, <3>1 DEF StayClosed
  <2> QED
    BY <2>3, <2>4
<1> QED
  BY <1>3, <1>4, <1>5, <1>6, <1>7 DEF Fits

\* The tables after the first k redirections of a command.
Begins(done, U, V, redirs, k, w, sees) ==
    /\ DOMAIN done = {"rd", "err"} /\ done.err \in BOOLEAN
    /\ Restores(done.rd, U, w) /\ Len(U) = Len(V) /\ Len(done.rd.list) = Len(V) - 1
    /\ \A i \in 1..Len(V) - 1 : U[i] = V[i]
    /\ ~done.err => U[Len(V)] = sees
    /\ \A m \in UserFds : TableAt(done.rd.list, Len(V) - 1)[m] = R!REALLY_CLOSED =>
          \E i \in 1..k : redirs[i].type = "close" /\ redirs[i].fd = m
    /\ "exec" \in w.program => \A m \in Shuts(w) : U[Len(V)][m] \in {Same, Closed}

\* So do several: one more redirection of a command.
LEMMA BeginsNext ==
    ASSUME NEW w \in Worlds, Lasting(w), NEW redirs \in w.redirs, NEW m \in 1..Len(redirs),
           NEW V \in Seq(Views), Len(V) > 1, Room(Len(V) - 1),
           \A n \in UserFds : Shows(V, Len(V) - 1, n, View(n)),
           NEW done, NEW U, NEW sees, Begins(done, U, V, redirs, m - 1, w, sees)
    PROVE  \E T : Begins(R!Redirected(done, redirs[m]), T, V, redirs, m, w, Asked(sees, redirs[m]))
<1> DEFINE x == redirs[m]
           r == done.rd
           next == R!Redirected(done, x)
<1>1. PICK len \in Nat \ {0} : len = Len(V) - 1
  <2>1. PICK k \in Nat : k = Len(V) /\ k > 1
    OBVIOUS
  <2>2. k - 1 \in Nat \ {0}
    BY <2>1
  <2> QED
    BY <2>1, <2>2
<1>2. /\ Restores(r, U, w) /\ Len(r.list) = len /\ Len(U) = Len(V)
      /\ (\A i \in 1..len : U[i] = V[i])
      /\ DOMAIN done = {"rd", "err"} /\ done.err \in BOOLEAN
      /\ ~done.err => U[Len(V)] = sees
  BY <1>1 DEF Begins
<1>3. r.list # <<>>
  BY <1>1, <1>2
<1>4. \A n \in UserFds : Shows(U, len, n, View(n))
  <2> SUFFICES ASSUME NEW n \in UserFds PROVE Shows(U, len, n, View(n))
    OBVIOUS
  <2>1. Shows(V, len, n, View(n))
    BY <1>1
  <2>2. \A i \in 1..len : U[i][n] = V[i][n]
    BY <1>2
  <2> QED
    BY <1>1, <2>1, <2>2, ShowsLike
<1>5. redirs \in Seq(Redirections)
  BY WorldsAssumption
<1>6. x \in Redirections /\ x.fd \in UserFds
  <2>1. x \in Redirections
    BY <1>5
  <2> QED
    BY <2>1 DEF Redirections
<1>7. \A n \in UserFds : TableAt(r.list, len)[n] = R!REALLY_CLOSED =>
          \E i \in 1..m - 1 : redirs[i].type = "close" /\ redirs[i].fd = n
  BY <1>1 DEF Begins
<1>8. PICK n, old : n = x.fd /\ old = TableAt(r.list, len)[n]
  OBVIOUS
<1>9. Fits(x, old, w)
  BY <1>6, <1>7, <1>8, FitsAt
<1>10. Room(len)
  BY <1>1
<1>11. PICK T : Redone(next, done, U, T, x, w)
  <2> HIDE DEF x, r, next
  <2>1. Room(Len(r.list))
        /\ (\A i \in UserFds : Shows(U, Len(r.list), i, View(i)))
        /\ old = TableAt(r.list, Len(r.list))[n]
    BY <1>2, <1>4, <1>8, <1>10
  <2>2. done.rd = r
    BY DEF r
  <2>3. \E T : Redone(R!Redirected(done, x), done, U, T, x, w)
    BY <1>2, <1>3, <1>8, <1>9, <2>1, <2>2, RedirectedRestores
  <2> QED
    BY <2>3 DEF next
<1>12. /\ DOMAIN next = {"rd", "err"} /\ next.err \in BOOLEAN
       /\ Restores(next.rd, T, w) /\ Len(T) = Len(V) /\ Len(next.rd.list) = len
       /\ \A i \in 1..len : T[i] = V[i]
  <2> HIDE DEF next
  <2> QED
    BY <1>1, <1>2, <1>11 DEF Redone
<1>13. ~next.err => T[Len(V)] = Asked(sees, x)
  <2> HIDE DEF next, x
  <2> QED
    BY <1>2, <1>11 DEF Redone
<1>14. \A j \in UserFds : TableAt(next.rd.list, len)[j] = R!REALLY_CLOSED =>
          \E i \in 1..m : redirs[i].type = "close" /\ redirs[i].fd = j
  <2> SUFFICES ASSUME NEW i \in UserFds, TableAt(next.rd.list, len)[i] = R!REALLY_CLOSED
               PROVE  \E j \in 1..m : redirs[j].type = "close" /\ redirs[j].fd = i
    OBVIOUS
  <2>1. \/ TableAt(r.list, len)[i] = R!REALLY_CLOSED
        \/ i = x.fd /\ x.type = "close"
    BY <1>2, <1>11 DEF Redone
  <2>2. m \in 1..m /\ \A j \in 1..m - 1 : j \in 1..m
    OBVIOUS
  <2> QED
    BY <1>7, <2>1, <2>2
<1>15. "exec" \in w.program => \A i \in Shuts(w) : T[Len(V)][i] \in {Same, Closed}
  <2>1. "exec" \in w.program => \A i \in Shuts(w) : U[Len(V)][i] \in {Same, Closed}
    BY DEF Begins
  <2>2. "exec" \in w.program => \A i \in Shuts(w) : T[Len(V)][i] \in {U[Len(V)][i], Closed}
    BY <1>2, <1>11 DEF Redone
  <2> QED
    BY <2>1, <2>2
<1> HIDE DEF next, x
<1>16. Begins(next, T, V, redirs, m, w, Asked(sees, x))
  BY <1>1, <1>12, <1>13, <1>14, <1>15 DEF Begins
<1> QED
  BY <1>16 DEF next, x

\* All of them: the command sees what it asked for.
LEMMA RedirectSafeRestores ==
    ASSUME world \in Worlds, Lasting(world), NEW redirs \in world.redirs, redirs # <<>>,
           NEW V, Restores(rd, V, world), Room(Len(V)),
           \A n \in UserFds : Shows(V, Len(V), n, View(n))
    PROVE  \E s \in Views :
             /\ Restores(redirectsafe(redirs).rd, Append(V, s), world)
             /\ ~redirectsafe(redirs).err => s = Sees(redirs)
             /\ "exec" \in world.program => \A m \in Shuts(world) : s[m] \in {Same, Closed}
<1>1. PICK len \in Nat : len = Len(redirs) /\ len # 0
  BY WorldsAssumption
<1>2. PICK r : r = R!pushredir(rd)
  OBVIOUS
<1>3. PICK W : W = Append(V, NothingSeen)
  OBVIOUS
<1>4. Restores(r, W, world)
  BY <1>2, <1>3, PushRestores
<1>5. /\ V \in Seq(Views) /\ Len(V) = Len(rd.list) + 1 /\ rd.list \in Seq(RedirTabs)
      /\ W \in Seq(Views) /\ Len(W) = Len(r.list) + 1 /\ r.list \in Seq(RedirTabs)
  BY <1>4 DEF Restores, DescTypes
<1>6. PICK k \in Nat \ {0} : k = Len(V) /\ Len(rd.list) = k - 1
  <2>1. Len(V) \in Nat \ {0} /\ Len(rd.list) = Len(V) - 1
    BY <1>5
  <2> QED
    BY <2>1
<1>7. NothingSeen \in Views /\ \A n \in UserFds : NothingSeen[n] = Same
  BY DEF NothingSeen, Views, Seen
<1>8. Len(W) = k + 1 /\ (\A i \in 1..k : W[i] = V[i]) /\ W[k + 1] = NothingSeen
  BY <1>3, <1>5, <1>6, <1>7, AppendIs
<1>9. \A n \in UserFds : TableAt(r.list, k)[n] = R!EMPTY
  <2> DEFINE y == [n \in UserFds |-> R!EMPTY]
  <2>1. y \in RedirTabs
    BY DEF RedirTabs, Marks
  <2>2. r.list = <<y>> \o rd.list
    BY <1>2 DEF R!pushredir, Restores, DescTypes
  <2>3. (k - 1) + 1 = k
    BY <1>6
  <2>4. \A n \in UserFds : y[n] = R!EMPTY
    OBVIOUS
  <2> HIDE DEF y
  <2>5. TableAt(<<y>> \o rd.list, Len(rd.list) + 1) = y
    BY <1>5, <2>1, PushedTable
  <2> QED
    BY <1>6, <2>2, <2>3, <2>4, <2>5
<1>10. redirectsafe(redirs) = R!redirect(r, redirs)
  BY <1>2 DEF redirectsafe
<1>11. PICK g : /\ g[0] = Begun(r)
                /\ \A i \in 1..Len(redirs) : g[i] = R!Redirected(g[i - 1], redirs[i])
                /\ R!redirect(r, redirs) = g[Len(redirs)]
  BY <1>1, Redirecting
<1>12. PICK h : /\ h[0] = NothingSeen
                /\ \A i \in 1..Len(redirs) : h[i] = Asked(h[i - 1], redirs[i])
                /\ Sees(redirs) = h[Len(redirs)]
  BY <1>1, Seeing
<1>13. \A n \in UserFds : Shows(W, k, n, View(n))
  <2> SUFFICES ASSUME NEW n \in UserFds PROVE Shows(W, k, n, View(n))
    OBVIOUS
  <2>1. Shows(V, k, n, View(n)) /\ \A i \in 1..k : W[i][n] = V[i][n]
    BY <1>6, <1>8
  <2> QED
    BY <1>6, <2>1, ShowsLike
<1>14. Len(W) \in Nat /\ Len(W) > 1 /\ Len(W) - 1 = k
  BY <1>6, <1>8
<1> DEFINE H == {i \in 0..len : \E U : Begins(g[i], U, W, redirs, i, world, h[i])}
<1>15. 0 \in H
  <2>1. Begun(r).rd = r /\ Begun(r).err = FALSE /\ DOMAIN Begun(r) = {"rd", "err"}
    BY DEF Begun
  <2>2. R!EMPTY # R!REALLY_CLOSED
    BY FdsApart
  <2>3. Len(r.list) = k
    BY <1>5, <1>14
  <2>4. Shuts(world) \subseteq UserFds
    BY DEF Shuts
  <2>5. Begins(Begun(r), W, W, redirs, 0, world, NothingSeen)
    BY <1>4, <1>7, <1>8, <1>9, <1>14, <2>1, <2>2, <2>3, <2>4 DEF Begins
  <2>6. 0 \in 0..len
    BY <1>1
  <2>7. \E U : Begins(g[0], U, W, redirs, 0, world, h[0])
    BY <1>11, <1>12, <2>5
  <2> QED
    BY <2>6, <2>7
<1>16. ASSUME NEW m \in 1..len, m - 1 \in H PROVE m \in H
  <2>1. PICK U : Begins(g[m - 1], U, W, redirs, m - 1, world, h[m - 1])
    BY <1>16
  <2>2. m \in 1..Len(redirs)
    BY <1>1
  <2>3. \E T : Begins(R!Redirected(g[m - 1], redirs[m]), T, W, redirs, m, world, Asked(h[m - 1], redirs[m]))
    BY <1>5, <1>6, <1>13, <1>14, <2>1, <2>2, BeginsNext
  <2> QED
    BY <1>11, <1>12, <2>2, <2>3
<1>17. len \in H
  <2>1. len \in Nat /\ len \in 0..len
    BY <1>1
  <2> HIDE DEF H
  <2> QED BY <2>1, <1>15, <1>16, Upward
<1>18. PICK U : Begins(redirectsafe(redirs), U, W, redirs, len, world, Sees(redirs))
  BY <1>1, <1>10, <1>11, <1>12, <1>17
<1>19. U \in Seq(Views) /\ Len(U) = k + 1 /\ \A i \in 1..k : U[i] = V[i]
  BY <1>8, <1>14, <1>18 DEF Begins, Restores, DescTypes
<1>20. U[k + 1] \in Views /\ U = Append(V, U[k + 1])
  <2>1. k + 1 \in 1..Len(U)
    BY <1>6, <1>19
  <2>2. U[k + 1] \in Views
    BY <1>19, <2>1
  <2> DEFINE A == Append(V, U[k + 1])
  <2>3. A \in Seq(Views) /\ Len(A) = k + 1 /\ (\A i \in 1..k : A[i] = V[i]) /\ A[k + 1] = U[k + 1]
    BY <1>5, <1>6, <2>2, AppendIs
  <2> HIDE DEF A
  <2>4. \A i \in 1..k + 1 : i \in 1..k \/ i = k + 1
    BY <1>6
  <2>5. \A i \in 1..k + 1 : A[i] = U[i]
    BY <1>19, <2>3, <2>4
  <2>6. A = U
    BY <1>19, <2>3, <2>5
  <2> QED
    BY <2>2, <2>6 DEF A
<1>21. /\ Restores(redirectsafe(redirs).rd, U, world)
       /\ ~redirectsafe(redirs).err => U[k + 1] = Sees(redirs)
       /\ "exec" \in world.program => \A m \in Shuts(world) : U[k + 1][m] \in {Same, Closed}
  BY <1>8, <1>18 DEF Begins
<1> QED
  BY <1>20, <1>21

\* exec: what it asks for is asked for by the innermost that redirects the
\* descriptor, or the shell.
Owns(V, i, n) == V[i][n] # Same /\ \A j \in i + 1..Len(V) : V[j][n] = Same
Passes(U, V, s) ==
    /\ U \in Seq(Views) /\ Len(U) = Len(V)
    /\ \A i \in 1..Len(V), n \in UserFds :
          /\ s[n] # Same /\ Owns(V, i, n) => U[i][n] = s[n]
          /\ s[n] = Same \/ ~Owns(V, i, n) => U[i][n] = V[i][n]

\* exec leaves what its command sees to the commands around it.
LEMMA ExecRestores ==
    ASSUME NEW V \in Seq(Views), NEW s \in Views, NEW r, NEW w, Restores(r, Append(V, s), w), r.list # <<>>,
           "exec" \in w.program, \A n \in Shuts(w) : s[n] \in {Same, Closed},
           NEW U, Passes(U, V, s)
    PROVE  Restores(R!popredir(r, 1), U, w)
<1> DEFINE p == R!popredir(r, 1)
           W == Append(V, s)
           tab == Head(r.list)
           copies == {tab[n] : n \in UserFds} \cap SaveFds
           content(n) == IF n \in copies THEN Closed ELSE r.open[n]
<1>1. r.open \in [AllFds -> Contents] /\ r.list \in Seq(RedirTabs) /\ Len(W) = Len(r.list) + 1
  BY DEF Restores, DescTypes
<1>2. PICK len \in Nat \ {0} : len = Len(r.list) /\ Len(V) = len /\ len \in 1..len /\ len - 1 \in Nat
  <2>1. Len(W) = Len(V) + 1
    BY AppendIs
  <2>2. Len(r.list) \in Nat \ {0}
    BY <1>1
  <2>3. \A k \in Nat \ {0} : k \in 1..k /\ k - 1 \in Nat
    OBVIOUS
  <2>4. Len(V) = Len(r.list)
    <3> HIDE DEF W
    <3>1. Len(V) \in Nat /\ Len(r.list) \in Nat /\ Len(V) + 1 = Len(r.list) + 1
      BY <1>1, <2>1
    <3> QED
      BY <3>1
  <2> QED
    BY <2>2, <2>3, <2>4
<1>3. /\ tab = TableAt(r.list, len) /\ tab \in RedirTabs
      /\ Tail(r.list) \in Seq(RedirTabs) /\ Len(Tail(r.list)) = len - 1
      /\ \A k \in 1..len - 1 : TableAt(Tail(r.list), k) = TableAt(r.list, k)
      /\ \A k \in 1..len : TableAt(r.list, k) \in RedirTabs
  BY <1>1, <1>2, FirstTable
<1>4. p = [open |-> [n \in DOMAIN r.open |-> content(n)], list |-> Tail(r.list)]
  BY DEF R!popredir
<1>5. DOMAIN p = {"open", "list"} /\ p.list = Tail(r.list) /\ p.open = [n \in AllFds |-> content(n)]
  <2> HIDE DEF content, p
  <2> QED BY <1>1, <1>4
<1>6. /\ \A i \in 1..len : W[i] = V[i]
      /\ W[len + 1] = s
  BY <1>2, AppendIs
<1>7. /\ U \in Seq(Views) /\ Len(U) = len
      /\ \A i \in 1..len, n \in UserFds :
            /\ s[n] # Same /\ Owns(V, i, n) => U[i][n] = s[n]
            /\ s[n] = Same \/ ~Owns(V, i, n) => U[i][n] = V[i][n]
  BY <1>2 DEF Passes
<1> HIDE DEF p, W, tab
<1>8. \A k \in 1..len, n \in UserFds : Saved(r.open, TableAt(r.list, k)[n], W, k, n, w)
  BY <1>2 DEF Restores, SavedRight, W
<1>9. p.open \in [AllFds -> Contents]
  <2>1. \A n \in AllFds : content(n) \in Contents
    BY <1>1, FdsApart
  <2> HIDE DEF content
  <2> QED
    BY <1>5, <2>1
<1>10. /\ \A n \in UserFds : p.open[n] = r.open[n]
       /\ \A c \in AllFds \ UserFds : p.open[c] = IF c \in copies THEN Closed ELSE r.open[c]
  BY <1>5, FdsApart
<1> HIDE DEF content
<1>11. DescTypes(p, U)
  <2>1. len = (len - 1) + 1
    BY <1>2
  <2> QED
    BY <1>3, <1>5, <1>7, <1>9, <2>1 DEF DescTypes
\* A descriptor that exec leaves alone
<1>12. ASSUME NEW n \in UserFds, s[n] = Same, NEW k \in 1..len, NEW v
       PROVE  Shows(U, k, n, v) <=> Shows(W, k, n, v)
  <2>1. k \in Nat /\ \A i \in 1..k : U[i][n] = W[i][n]
    BY <1>6, <1>7, <1>12
  <2> QED
    BY <2>1, ShowsLike
\* and one that it does not: someone owns it.
<1>13. ASSUME NEW n \in UserFds, s[n] # Same
       PROVE  \E j \in 1..len : Owns(V, j, n)
  <2> DEFINE t == TableAt(r.list, len)[n]
  <2>1. Saved(r.open, t, W, len, n, w)
    BY <1>2, <1>8
  <2>2. t \in Marks
    BY <1>2, <1>3 DEF RedirTabs
  <2>3. t # R!EMPTY
    BY <1>6, <1>13, <2>1 DEF Saved
  <2>4. \E u : Shows(W, len, n, u)
    BY <2>1, <2>2, <2>3 DEF Saved, Marks
  <2>5. PICK u, j : u # Same /\ j \in 1..len /\ W[j][n] = u /\ \A i \in j + 1..len : W[i][n] = Same
    BY <2>4 DEF Shows
  <2>6. \A i \in j + 1..len : i \in 1..len
    BY <2>5
  <2> QED
    BY <1>2, <1>6, <2>5, <2>6 DEF Owns
<1>14. ASSUME NEW n \in UserFds, s[n] # Same, NEW j \in 1..len, Owns(V, j, n)
       PROVE  /\ U[j][n] = s[n] /\ V[j][n] # Same
              /\ \A i \in 1..len : i # j => U[i][n] = V[i][n]
              /\ \A i \in j + 1..len : U[i][n] = Same /\ V[i][n] = Same
  <2>1. \A i \in 1..len : i # j => ~Owns(V, i, n)
    <3> SUFFICES ASSUME NEW i \in 1..len, i # j, Owns(V, i, n) PROVE FALSE
      OBVIOUS
    <3>1. i \in j + 1..len \/ j \in i + 1..len
      BY <1>2
    <3> QED
      BY <1>2, <1>14, <3>1 DEF Owns
  <2>2. \A i \in j + 1..len : i \in 1..len /\ i # j /\ V[i][n] = Same
    BY <1>2, <1>14 DEF Owns
  <2> QED
    BY <1>7, <1>14, <2>1, <2>2 DEF Owns
<1>15. \A k \in 1..len - 1 : k \in 1..len /\ k + 1 \in 1..len /\ k # len /\ k \in Nat
  BY <1>2
<1>16. ASSUME NEW k \in 1..len - 1, NEW n \in UserFds, TableAt(r.list, k)[n] \in SaveFds
       PROVE  TableAt(r.list, k)[n] \notin copies
  <2> SUFFICES ASSUME NEW m \in UserFds, TableAt(r.list, k)[n] = TableAt(r.list, len)[m]
               PROVE  FALSE
    BY <1>3
  <2>1. k = len
    BY <1>2, <1>15, <1>16 DEF Restores, CopiesApart
  <2> QED
    BY <1>15, <2>1
<1>17. SavedRight(p, U, w)
  <2> SUFFICES ASSUME NEW k \in 1..len - 1, NEW n \in UserFds
               PROVE  Saved(p.open, TableAt(r.list, k)[n], U, k, n, w)
    BY <1>3, <1>5, <1>15 DEF SavedRight
  <2> DEFINE t == TableAt(r.list, k)[n]
  <2>1. Saved(r.open, t, W, k, n, w)
    BY <1>2, <1>8, <1>15
  <2>2. t \in SaveFds => p.open[t] = r.open[t]
    BY <1>10, <1>16, FdsApart
  <2>3. R!EMPTY \notin SaveFds /\ R!EMPTY # R!CLOSED /\ R!EMPTY # R!REALLY_CLOSED
    BY FdsApart
  <2> HIDE DEF t
  <2>4. W[k + 1] = V[k + 1]
    BY <1>6, <1>15
  <2>5. CASE s[n] = Same
    <3>1. U[k + 1][n] = W[k + 1][n] /\ \A v : Shows(U, k, n, v) <=> Shows(W, k, n, v)
      BY <1>7, <1>12, <1>15, <2>4, <2>5
    <3>2. Saved(p.open, t, U, k, n, w)
      BY <2>1, <2>2, <3>1 DEF Saved
    <3> QED
      BY <3>2 DEF t
  <2>6. CASE s[n] # Same
    <3>1. PICK j \in 1..len : Owns(V, j, n)
      BY <1>13, <2>6
    <3>2. /\ U[j][n] = s[n] /\ V[j][n] # Same
          /\ \A i \in 1..len : i # j => U[i][n] = V[i][n]
          /\ \A i \in j + 1..len : U[i][n] = Same /\ V[i][n] = Same
      BY <1>14, <2>6, <3>1
    <3>3. CASE k >= j
      <4>1. k + 1 \in j + 1..len
        BY <1>2, <3>3
      <4>2. U[k + 1][n] = Same /\ W[k + 1][n] = Same
        BY <2>4, <3>2, <4>1
      <4>3. t = R!EMPTY
        BY <2>1, <4>2 DEF Saved
      <4>4. Saved(p.open, t, U, k, n, w)
        BY <2>3, <4>2, <4>3 DEF Saved
      <4> QED
        BY <4>4 DEF t
    <3>4. CASE k < j
      <4>1. \A i \in 1..k : i \in 1..len /\ i # j
        BY <1>15, <3>4
      <4>2. \A i \in 1..k : U[i][n] = W[i][n]
        BY <1>6, <3>2, <4>1
      <4>3. \A v : Shows(U, k, n, v) <=> Shows(W, k, n, v)
        BY <1>15, <4>2, ShowsLike
      <4>4. CASE k + 1 = j
        <5>1. U[k + 1][n] = s[n] /\ W[k + 1][n] # Same
          BY <2>4, <3>2, <4>4
        <5>2. t # R!EMPTY
          BY <2>1, <5>1 DEF Saved
        <5>3. t = R!REALLY_CLOSED => n \in Shuts(w) /\ s[n] = Closed
          BY <2>1, <2>6 DEF Saved
        <5>4. Saved(p.open, t, U, k, n, w)
          BY <2>1, <2>2, <2>6, <4>3, <5>1, <5>2, <5>3 DEF Saved
        <5> QED
          BY <5>4 DEF t
      <4>5. CASE k + 1 # j
        <5>1. U[k + 1][n] = W[k + 1][n]
          BY <1>15, <2>4, <3>2, <4>5
        <5>2. Saved(p.open, t, U, k, n, w)
          BY <2>1, <2>2, <4>3, <5>1 DEF Saved
        <5> QED
          BY <5>2 DEF t
      <4> QED
        BY <4>4, <4>5
    <3> QED
      BY <1>15, <3>3, <3>4
  <2> QED
    BY <2>5, <2>6
<1>18. CopiesApart(p)
  BY <1>2, <1>3, <1>5, <1>15 DEF Restores, CopiesApart
<1>19. OpenRight(p, U)
  <2> SUFFICES ASSUME NEW n \in UserFds PROVE Shows(U, len, n, r.open[n])
    BY <1>7, <1>10 DEF OpenRight
  <2>1. PICK l, v : l = len + 1 /\ v = r.open[n]
    OBVIOUS
  <2>2. Shows(W, l, n, v) /\ W[l] = s /\ len \in Nat
    BY <1>1, <1>2, <1>6, <2>1 DEF Restores, OpenRight, W
  <2>3. CASE s[n] = Same
    <3>1. Shows(W, len, n, v)
      BY <2>1, <2>2, <2>3, ShowsNext
    <3>2. Shows(U, len, n, v)
      BY <1>2, <1>12, <2>3, <3>1
    <3> QED
      BY <2>1, <3>2
  <2>4. CASE s[n] # Same
    <3>1. W[l][n] \in {Same, v}
      BY <2>1, <2>2, ShowsNext
    <3>2. v = s[n]
      BY <2>2, <2>4, <3>1
    <3>3. PICK j \in 1..len : Owns(V, j, n)
      BY <1>13, <2>4
    <3>4. U[j][n] = s[n] /\ \A i \in j + 1..len : U[i][n] = Same
      BY <1>14, <2>4, <3>3
    <3>5. Shows(U, len, n, s[n])
      BY <2>4, <3>4 DEF Shows
    <3> QED
      BY <2>1, <3>2, <3>5
  <2> QED
    BY <2>3, <2>4
<1>20. NoneLeft(p)
  <2> SUFFICES ASSUME NEW c \in AllFds \ UserFds, p.open[c] # Closed
               PROVE  \E k \in 1..len - 1, n \in UserFds : TableAt(r.list, k)[n] = c
    BY <1>3, <1>5, <1>15 DEF NoneLeft
  <2>1. c \notin copies /\ r.open[c] # Closed
    BY <1>10
  <2>2. PICK k \in 1..len, n \in UserFds : TableAt(r.list, k)[n] = c
    BY <1>2, <2>1 DEF Restores, NoneLeft
  <2>3. TableAt(r.list, k)[n] \in Marks
    BY <1>3 DEF RedirTabs
  <2>4. c \in SaveFds
    <3>1. c \in UserFds \cup LowFds \cup SaveFds
      BY DEF AllFds
    <3> QED
      BY <2>2, <2>3, <3>1, FdsApart DEF Marks
  <2>5. k # len
    BY <1>3, <2>1, <2>2, <2>4
  <2>6. k \in 1..len - 1
    BY <2>5
  <2> QED
    BY <2>2, <2>6
<1> QED
  BY <1>11, <1>17, <1>18, <1>19, <1>20 DEF Restores, p

(***************************************************************************)
(* Which of the commands that run sees what: those with redirections, and  *)
(* the shell.                                                              *)
(***************************************************************************)
Seer(stk, i) == i = 1 \/ stk[i].redirs
Linked(stk, V) ==
    /\ V \in Seq(Views) /\ Len(V) = Depth(Last(stk)) + 1
    /\ \A i \in 1..Len(stk) :
          /\ Seer(stk, i) => V[Depth(stk[i]) + 1] = stk[i].sees
          /\ ~Seer(stk, i) => \A n \in UserFds : stk[i].sees[n] = Same

\* The depths of the commands.
LEMMA Depths ==
    ASSUME NEW stk \in Seq(Frames), Shaped(stk)
    PROVE  /\ Len(stk) \in Nat \ {0} /\ Last(stk) = stk[Len(stk)]
           /\ \A i \in 1..Len(stk) : stk[i] \in Frames /\ Depth(stk[i]) \in 0..i - 1
           /\ \A i \in 1..Len(stk) : Depth(stk[i]) \in Nat
           /\ \A i, j \in 1..Len(stk) : i =< j => Depth(stk[i]) =< Depth(stk[j])
           /\ Depth(stk[1]) = 0
           /\ \A i \in 2..Len(stk) : Depth(stk[i]) = Depth(stk[i - 1]) + IF stk[i].redirs THEN 1 ELSE 0
<1>1. PICK len \in Nat \ {0} : len = Len(stk)
  <2>1. stk # <<>>
    BY DEF Shaped
  <2> QED
    BY <2>1, FrontIs
<1>2. \A i \in 1..len : stk[i] \in Frames
  BY <1>1
<1>3. ASSUME NEW i \in 1..len PROVE Depth(stk[i]) \in Nat
  BY <1>2, DepthIs
<1>4. ASSUME NEW i \in 2..len
      PROVE  Depth(stk[i]) = Depth(stk[i - 1]) + IF stk[i].redirs THEN 1 ELSE 0
  BY <1>1, <1>4 DEF Shaped, Depth
<1>5. Depth(stk[1]) = 0
  BY DEF Shaped
<1> DEFINE H == {m \in 0..len - 1 : Depth(stk[m + 1]) =< m}
<1>6. 0 \in H
  BY <1>1, <1>5
<1>7. ASSUME NEW m \in 1..len - 1, m - 1 \in H PROVE m \in H
  <2>1. m + 1 \in 2..len /\ m + 1 - 1 = m /\ m \in 1..len /\ (m - 1) + 1 = m
    BY <1>1
  <2>2. Depth(stk[m]) =< m - 1 /\ Depth(stk[m]) \in Nat
    BY <1>3, <1>7, <2>1
  <2>3. Depth(stk[m + 1]) = Depth(stk[m]) + IF stk[m + 1].redirs THEN 1 ELSE 0
    BY <1>4, <2>1
  <2>4. Depth(stk[m + 1]) =< m /\ m \in 0..len - 1
    BY <1>1, <2>2, <2>3
  <2> QED
    BY <2>4
<1>8. \A m \in 0..len - 1 : m \in H
  <2>1. len - 1 \in Nat
    BY <1>1
  <2> HIDE DEF H
  <2> QED
    BY <2>1, <1>6, <1>7, Upward
<1>9. ASSUME NEW i \in 1..len PROVE Depth(stk[i]) \in 0..i - 1
  <2>1. i - 1 \in 0..len - 1 /\ (i - 1) + 1 = i
    BY <1>1
  <2>2. Depth(stk[i]) =< i - 1
    BY <1>8, <2>1
  <2> QED
    BY <1>3, <2>2
<1>10. \A i, j \in 1..len : i =< j => Depth(stk[i]) =< Depth(stk[j])
  BY <1>1 DEF Shaped
<1>11. Last(stk) = stk[len]
  BY <1>1 DEF Last
<1> QED
  BY <1>1, <1>2, <1>3, <1>4, <1>5, <1>9, <1>10, <1>11

\* Each level is that of just one that sees.
LEMMA LevelOf ==
    ASSUME NEW stk \in Seq(Frames), Shaped(stk), NEW k \in 1..Depth(Last(stk)) + 1
    PROVE  \E i \in 1..Len(stk) : Seer(stk, i) /\ Depth(stk[i]) + 1 = k
<1>1. PICK len \in Nat \ {0} : len = Len(stk) /\ Last(stk) = stk[len]
  BY Depths
<1> DEFINE d(i) == Depth(stk[i])
           I == {i \in 1..len : d(i) >= k - 1}
<1>2. /\ \A i \in 1..len : d(i) \in Nat
      /\ d(1) = 0
      /\ \A i \in 2..len : d(i) = d(i - 1) + IF stk[i].redirs THEN 1 ELSE 0
  <2>1. \A i \in 1..len : d(i) \in Nat
    BY <1>1, Depths
  <2>2. d(1) = 0
    BY <1>1, Depths
  <2>3. \A i \in 2..len : d(i) = d(i - 1) + IF stk[i].redirs THEN 1 ELSE 0
    BY <1>1, Depths
  <2> HIDE DEF d
  <2> QED
    BY <2>1, <2>2, <2>3
<1>3. k \in 1..d(len) + 1 /\ len \in 1..len
  BY <1>1
<1> HIDE DEF d
<1>4. len \in I /\ I \subseteq Nat
  BY <1>2, <1>3
<1>5. PICK i \in I : \A j \in I : i =< j
  <2> HIDE DEF I
  <2> QED
    BY <1>4, LeastNumber
<1>6. CASE i = 1
  <2>1. d(1) + 1 = k
    BY <1>2, <1>3, <1>5, <1>6
  <2> QED
    BY <1>1, <1>5, <1>6, <2>1 DEF Seer, d
<1>7. CASE i # 1
  <2>1. i \in 2..len /\ i - 1 \in 1..len /\ i - 1 < i
    BY <1>1, <1>5, <1>7
  <2>2. i - 1 \notin I
    BY <1>5, <2>1
  <2>3. d(i - 1) < k - 1 /\ d(i) >= k - 1 /\ d(i) \in Nat /\ d(i - 1) \in Nat
    BY <1>2, <1>3, <1>5, <2>1, <2>2
  <2>4. stk[i].redirs /\ d(i) = d(i - 1) + 1
    BY <1>2, <1>3, <2>1, <2>3
  <2>5. d(i) + 1 = k
    BY <1>3, <2>3, <2>4
  <2> QED
    BY <1>1, <2>1, <2>4, <2>5 DEF Seer, d
<1> QED
  BY <1>6, <1>7

\* Two commands that see something have different tables.
LEMMA LevelsApart ==
    ASSUME NEW stk \in Seq(Frames), Shaped(stk), NEW i \in 1..Len(stk), NEW j \in 1..Len(stk),
           Seer(stk, i), Seer(stk, j), Depth(stk[i]) = Depth(stk[j])
    PROVE  i = j
<1>1. PICK len \in Nat \ {0} : len = Len(stk)
  BY Depths
<1> DEFINE d(m) == Depth(stk[m])
<1>2. /\ \A m \in 1..len : d(m) \in Nat
      /\ \A m \in 2..len : d(m) = d(m - 1) + IF stk[m].redirs THEN 1 ELSE 0
      /\ \A m, l \in 1..len : m =< l => d(m) =< d(l)
  <2>1. \A m \in 1..len : d(m) \in Nat
    BY <1>1, Depths
  <2>2. \A m \in 2..len : d(m) = d(m - 1) + IF stk[m].redirs THEN 1 ELSE 0
    BY <1>1, Depths
  <2>3. \A m, l \in 1..len : m =< l => d(m) =< d(l)
    BY <1>1, Depths
  <2> HIDE DEF d
  <2> QED
    BY <2>1, <2>2, <2>3
<1>3. d(i) = d(j)
  OBVIOUS
<1> HIDE DEF d
<1>4. ASSUME NEW m \in 1..len, NEW l \in 1..len, m < l, Seer(stk, l) PROVE d(m) # d(l)
  <2>1. l \in 2..len /\ l - 1 \in 1..len /\ m =< l - 1 /\ l # 1
    BY <1>1, <1>4
  <2>2. stk[l].redirs
    BY <1>4, <2>1 DEF Seer
  <2>3. d(l) = d(l - 1) + 1 /\ d(m) =< d(l - 1) /\ d(m) \in Nat /\ d(l - 1) \in Nat
    BY <1>2, <2>1, <2>2
  <2> QED
    BY <2>3
<1>5. i \in 1..len /\ j \in 1..len /\ (i < j \/ j < i \/ i = j)
  BY <1>1
<1> QED
  BY <1>3, <1>4, <1>5

\* The innermost that sees n in a way of its own is at the level that owns n.
LEMMA OwnerLevel ==
    ASSUME NEW V, stack \in Seq(Frames), Shaped(stack), Linked(stack, V), NEW n \in UserFds,
           NEW o, o = SelectLastInSeq(stack, LAMBDA f : f.sees[n] # Same)
    PROVE  /\ o \in 1..Len(stack) /\ Seer(stack, o) /\ Depth(stack[o]) + 1 \in 1..Len(V)
           /\ Owns(V, Depth(stack[o]) + 1, n) /\ View(n) = V[Depth(stack[o]) + 1][n]
<1>1. PICK len \in Nat \ {0} : len = Len(stack) /\ Last(stack) = stack[len] /\ len \in 1..len
  BY Depths
<1> DEFINE d(i) == Depth(stack[i])
           I == {i \in 1..Len(stack) : stack[i].sees[n] # Same}
<1>2. /\ \A i \in 1..len : d(i) \in Nat
      /\ \A i, j \in 1..len : i =< j => d(i) =< d(j)
  <2>1. \A i \in 1..len : d(i) \in Nat
    BY <1>1, Depths
  <2>2. \A i, j \in 1..len : i =< j => d(i) =< d(j)
    BY <1>1, Depths
  <2> HIDE DEF d
  <2> QED
    BY <2>1, <2>2
<1>3. /\ V \in Seq(Views) /\ Len(V) = d(len) + 1
      /\ \A i \in 1..len : Seer(stack, i) => V[d(i) + 1] = stack[i].sees
      /\ \A i \in 1..len : ~Seer(stack, i) => \A m \in UserFds : stack[i].sees[m] = Same
  BY <1>1 DEF Linked
<1>4. o = IF I # {} THEN L!Max(I) ELSE 0
  BY DEF SelectLastInSeq, Max, L!Max
<1>5. 1 \in I
  BY <1>1 DEF Shaped
<1>6. I \subseteq Nat /\ \A i \in I : i =< len
  BY <1>1
<1>7. o \in I /\ \A i \in I : o >= i
  <2> HIDE DEF I
  <2> QED
    BY <1>1, <1>4, <1>5, <1>6, LMax
<1>8. o \in 1..len /\ stack[o].sees[n] # Same /\ \A i \in 1..len : i > o => stack[i].sees[n] = Same
  <2>1. o \in 1..len /\ stack[o].sees[n] # Same
    BY <1>1, <1>7
  <2>2. ASSUME NEW i \in 1..len, i > o PROVE stack[i].sees[n] = Same
    <3>1. ~(o >= i)
      BY <2>1, <2>2
    <3>2. i \notin I
      BY <1>7, <3>1
    <3> QED
      BY <1>1, <3>2
  <2> QED
    BY <2>1, <2>2
<1>9. View(n) = stack[o].sees[n]
  BY DEF View
<1>10. Seer(stack, o)
  BY <1>3, <1>8
<1> HIDE DEF d
<1>11. d(o) + 1 \in 1..Len(V) /\ V[d(o) + 1] = stack[o].sees /\ d(o) \in Nat /\ d(len) \in Nat
  BY <1>1, <1>2, <1>3, <1>8, <1>10
<1>12. ASSUME NEW k \in (d(o) + 1) + 1..Len(V) PROVE V[k][n] = Same
  <2>1. k \in 1..d(len) + 1
    BY <1>3, <1>11, <1>12
  <2>2. PICK i \in 1..len : Seer(stack, i) /\ d(i) + 1 = k
    BY <1>1, <2>1, LevelOf DEF d
  <2>3. d(i) > d(o) /\ d(i) \in Nat
    BY <1>2, <1>11, <1>12, <2>2
  <2>4. ~(i =< o)
    BY <1>2, <1>8, <1>11, <2>3
  <2>5. i > o
    BY <1>8, <2>4
  <2> QED
    BY <1>3, <1>8, <2>2, <2>5
<1>13. Owns(V, d(o) + 1, n)
  BY <1>8, <1>11, <1>12 DEF Owns
<1> QED
  BY <1>1, <1>8, <1>9, <1>10, <1>11, <1>13 DEF d

\* What the stack of commands says of a descriptor is what the tables go by.
LEMMA ViewShown ==
    ASSUME NEW V, stack \in Seq(Frames), Shaped(stack), Linked(stack, V), NEW n \in UserFds
    PROVE  Shows(V, Len(V), n, View(n))
<1>1. PICK o : o = SelectLastInSeq(stack, LAMBDA f : f.sees[n] # Same)
  OBVIOUS
<1>2. PICK l : l = Depth(stack[o]) + 1
  OBVIOUS
<1>3. l \in 1..Len(V) /\ Owns(V, l, n) /\ View(n) = V[l][n]
  BY <1>1, <1>2, OwnerLevel
<1> QED
  BY <1>3 DEF Shows, Owns

\* The first commands of those that run.
LEMMA LinkedPart ==
    ASSUME NEW stk \in Seq(Frames), Shaped(stk), NEW V, Linked(stk, V), NEW m \in 1..Len(stk)
    PROVE  Linked(SubSeq(stk, 1, m), SubSeq(V, 1, Depth(stk[m]) + 1))
<1> DEFINE t == SubSeq(stk, 1, m)
<1>1. PICK d \in Nat : d = Depth(stk[m])
  BY Depths
<1>2. PICK len \in Nat : len = Depth(Last(stk)) /\ d =< len
  BY <1>1, Depths, ShapedPart
<1>3. V \in Seq(Views) /\ Len(V) = len + 1
  BY <1>2 DEF Linked
<1>4. d + 1 \in 0..len + 1 /\ m \in 0..Len(stk)
  <2>1. d + 1 \in 0..len + 1
    BY <1>2
  <2> QED
    BY <2>1
<1>5. /\ SubSeq(V, 1, d + 1) \in Seq(Views) /\ Len(SubSeq(V, 1, d + 1)) = d + 1
      /\ \A i \in 1..d + 1 : SubSeq(V, 1, d + 1)[i] = V[i]
  BY <1>3, <1>4, FirstPart
<1>6. /\ Len(t) = m /\ \A i \in 1..m : t[i] = stk[i]
  BY <1>4, FirstPart
<1>7. Last(t) = stk[m]
  BY ShapedPart
<1> HIDE DEF t
<1>8. ASSUME NEW i \in 1..m PROVE /\ Seer(t, i) => SubSeq(V, 1, d + 1)[Depth(t[i]) + 1] = t[i].sees
                                  /\ ~Seer(t, i) => \A n \in UserFds : t[i].sees[n] = Same
  <2>1. i \in 1..Len(stk) /\ i =< m
    OBVIOUS
  <2>2. Depth(stk[i]) \in Nat /\ Depth(stk[i]) =< d
    BY <1>1, <2>1, Depths
  <2>3. Depth(stk[i]) + 1 \in 1..d + 1
    BY <2>2
  <2>4. t[i] = stk[i] /\ (Seer(t, i) <=> Seer(stk, i))
    BY <1>6 DEF Seer
  <2>5. SubSeq(V, 1, d + 1)[Depth(stk[i]) + 1] = V[Depth(stk[i]) + 1]
    BY <1>5, <2>3
  <2> QED
    BY <2>1, <2>4, <2>5 DEF Linked
<1>9. Linked(t, SubSeq(V, 1, d + 1))
  BY <1>1, <1>5, <1>6, <1>7, <1>8 DEF Linked
<1> QED
  BY <1>1, <1>9 DEF t

\* One more command.
LEMMA LinkedPush ==
    ASSUME NEW stk \in Seq(Frames), Shaped(stk), NEW V, Linked(stk, V), NEW x \in Frames,
           x.stop = Depth(Last(stk))
    PROVE  /\ x.redirs => Linked(Append(stk, x), Append(V, x.sees))
           /\ ~x.redirs /\ x.sees = NothingSeen => Linked(Append(stk, x), V)
<1> DEFINE t == Append(stk, x)
<1>1. PICK len \in Nat \ {0} : len = Len(stk)
  BY Depths
<1>2. PICK d \in Nat : d = Depth(Last(stk))
  BY Depths
<1>3. V \in Seq(Views) /\ Len(V) = d + 1
  BY <1>2 DEF Linked
<1>4. /\ Len(t) = len + 1 /\ (\A i \in 1..len : t[i] = stk[i]) /\ t[len + 1] = x /\ Last(t) = x
  BY <1>1, AppendIs
<1>5. x.sees \in Views /\ x.redirs \in BOOLEAN
  BY FrameFields DEF Views
<1>6. /\ Len(Append(V, x.sees)) = d + 2 /\ Append(V, x.sees) \in Seq(Views)
      /\ Append(V, x.sees)[d + 2] = x.sees
      /\ \A i \in 1..d + 1 : Append(V, x.sees)[i] = V[i]
  <2>1. PICK k \in Nat : k = d + 1 /\ k + 1 = d + 2
    BY <1>2
  <2>2. /\ Len(Append(V, x.sees)) = k + 1 /\ Append(V, x.sees) \in Seq(Views)
        /\ Append(V, x.sees)[k + 1] = x.sees
        /\ \A i \in 1..k : Append(V, x.sees)[i] = V[i]
    BY <1>3, <1>5, <2>1, AppendIs
  <2> QED
    BY <2>1, <2>2
<1> HIDE DEF t
<1>7. ASSUME NEW i \in 1..len
      PROVE  /\ Seer(t, i) => V[Depth(t[i]) + 1] = t[i].sees
             /\ Seer(t, i) => Append(V, x.sees)[Depth(t[i]) + 1] = t[i].sees
             /\ ~Seer(t, i) => \A n \in UserFds : t[i].sees[n] = Same
  <2>1. i =< len /\ len \in 1..len
    BY <1>1
  <2>2. Depth(stk[i]) \in Nat /\ Depth(stk[i]) =< d
    BY <1>1, <1>2, <2>1, Depths
  <2>3. Depth(stk[i]) + 1 \in 1..d + 1
    BY <1>2, <2>2
  <2>4. t[i] = stk[i] /\ (Seer(t, i) <=> Seer(stk, i))
    BY <1>4 DEF Seer
  <2>5. Append(V, x.sees)[Depth(stk[i]) + 1] = V[Depth(stk[i]) + 1]
    BY <1>6, <2>3
  <2> QED
    BY <1>1, <2>4, <2>5 DEF Linked
<1>8. \A i \in 1..len + 1 : i \in 1..len \/ i = len + 1
  BY <1>1
<1>9. Seer(t, len + 1) <=> x.redirs
  BY <1>1, <1>4 DEF Seer
<1>10. ASSUME x.redirs PROVE Linked(t, Append(V, x.sees))
  <2>1. Depth(x) = d + 1 /\ Depth(x) + 1 = d + 2
    BY <1>2, <1>10, DepthIs
  <2>2. Append(V, x.sees)[Depth(t[len + 1]) + 1] = t[len + 1].sees
    BY <1>4, <1>6, <2>1
  <2> QED
    BY <1>4, <1>6, <1>7, <1>8, <1>9, <1>10, <2>1, <2>2 DEF Linked
<1>11. ASSUME ~x.redirs, x.sees = NothingSeen PROVE Linked(t, V)
  <2>1. Depth(x) = d
    BY <1>2, <1>11, DepthIs
  <2>2. \A n \in UserFds : t[len + 1].sees[n] = Same
    BY <1>4, <1>11 DEF NothingSeen
  <2> QED
    BY <1>3, <1>4, <1>7, <1>8, <1>9, <1>11, <2>1, <2>2 DEF Linked
<1> QED
  BY <1>10, <1>11 DEF t

\* There are copies enough for all commands that run.
LEMMA RoomEnough ==
    ASSUME NEW stk \in Seq(Frames), Shaped(stk), NEW V, Linked(stk, V),
           NEW w \in Worlds, Len(stk) =< w.depth
    PROVE  Room(Len(V))
<1>1. PICK len \in Nat \ {0} : len = Len(stk) /\ Last(stk) = stk[len] /\ len \in 1..len
  BY Depths
<1>2. Depth(stk[len]) \in 0..len - 1
  BY <1>1, Depths
<1>3. PICK k \in Nat : k = Len(V) /\ k =< len
  <2>1. Len(V) = Depth(stk[len]) + 1
    BY <1>1 DEF Linked
  <2> QED
    BY <1>1, <1>2, <2>1
<1>4. PICK d \in Nat : d = w.depth /\ k =< d
  <2>1. w.depth \in Nat
    BY WorldsAssumption
  <2> QED
    BY <1>1, <1>3, <2>1
<1>5. PICK c \in Nat : c = Cardinality(UserFds)
  BY CopiesAssumption, FS_CardinalityType
<1>6. PICK e \in Nat : e = Cardinality(SaveFds)
  BY CopiesAssumption, FS_CardinalityType
<1>7. d * c =< e
  BY <1>4, <1>5, <1>6, CopiesAssumption
<1>8. \A i \in Nat : (k + i) * c = k * c + i * c /\ k * c \in Nat /\ i * c \in Nat
  BY <1>3, <1>5, SMTT(30)
<1>9. PICK i \in Nat : d = k + i
  <2>1. d - k \in Nat /\ d = k + (d - k)
    BY <1>3, <1>4
  <2> QED
    BY <2>1
<1>10. k * c =< e
  <2>1. d * c = k * c + i * c /\ k * c \in Nat /\ i * c \in Nat
    BY <1>8, <1>9
  <2>2. \A a, b, f \in Nat : a + b =< f => a =< f
    OBVIOUS
  <2>3. k * c + i * c =< e
    BY <1>7, <2>1
  <2> QED
    BY <1>6, <2>1, <2>2, <2>3
<1> QED
  BY <1>3, <1>5, <1>6, <1>10 DEF Room

\* One command owns a descriptor.
LEMMA OwnsOne ==
    ASSUME NEW V, Len(V) \in Nat, NEW n, NEW k \in 1..Len(V), NEW l \in 1..Len(V), Owns(V, k, n), Owns(V, l, n)
    PROVE  k = l
<1>1. l \notin k + 1..Len(V) /\ k \notin l + 1..Len(V)
  BY DEF Owns
<1> QED
  BY <1>1

\* Which of the commands that run says what n is.
OwnerOf(n) == SelectLastInSeq(stack, LAMBDA f : f.sees[n] # Same)

\* exec changes what the owner of a descriptor sees,
LEMMA ExecutedSees ==
    ASSUME stack \in Seq(Frames), Shaped(stack), world \in Worlds, NEW redirs \in world.redirs,
           NEW i \in 1..Len(stack), NEW n \in UserFds
    PROVE  Executed(redirs)[i].sees[n] = IF Sees(redirs)[n] # Same /\ OwnerOf(n) = i THEN Sees(redirs)[n]
                                         ELSE stack[i].sees[n]
<1> DEFINE asked == Sees(redirs)
           sees == [m \in UserFds |-> IF asked[m] # Same /\ OwnerOf(m) = i THEN asked[m] ELSE stack[i].sees[m]]
<1>1. stack[i] \in Frames
  BY Depths
<1>2. "sees" \in DOMAIN stack[i]
  BY <1>1, FrameFields
<1>3. Executed(redirs)[i] = [stack[i] EXCEPT !.sees = sees]
  BY <1>2 DEF Executed, OwnerOf
<1> HIDE DEF asked
<1>4. sees[n] = IF asked[n] # Same /\ OwnerOf(n) = i THEN asked[n] ELSE stack[i].sees[n]
  OBVIOUS
<1> HIDE DEF sees
<1>5. Executed(redirs)[i].sees = sees
  BY <1>2, <1>3
<1> QED
  BY <1>4, <1>5 DEF asked

PassedOn(V, s) == [i \in 1..Len(V) |-> [n \in UserFds |-> IF s[n] # Same /\ Owns(V, i, n) THEN s[n] ELSE V[i][n]]]

\* which is what the tables expect of it,
LEMMA PassedPasses ==
    ASSUME NEW V \in Seq(Views), NEW s \in Views
    PROVE  Passes(PassedOn(V, s), V, s)
<1>1. PICK len \in Nat : len = Len(V)
  OBVIOUS
<1> DEFINE U == PassedOn(V, s)
           u(i) == [n \in UserFds |-> IF s[n] # Same /\ Owns(V, i, n) THEN s[n] ELSE V[i][n]]
<1>2. U = [i \in 1..len |-> u(i)]
  BY <1>1 DEF PassedOn
<1>3. ASSUME NEW i \in 1..len PROVE u(i) \in Views
  <2>1. V[i] \in [UserFds -> Seen] /\ s \in [UserFds -> Seen]
    BY <1>1 DEF Views
  <2>2. ASSUME NEW n \in UserFds PROVE (IF s[n] # Same /\ Owns(V, i, n) THEN s[n] ELSE V[i][n]) \in Seen
    BY <2>1
  <2> QED
    BY <2>2 DEF Views
<1>4. ASSUME NEW i \in 1..len, NEW n \in UserFds
      PROVE  /\ s[n] # Same /\ Owns(V, i, n) => u(i)[n] = s[n]
             /\ s[n] = Same \/ ~Owns(V, i, n) => u(i)[n] = V[i][n]
  OBVIOUS
<1> HIDE DEF U, u
<1>5. U \in [1..len -> Views] /\ \A i \in 1..len : U[i] = u(i)
  BY <1>2, <1>3
<1>6. U \in Seq(Views) /\ Len(U) = len
  BY <1>5
<1> QED
  BY <1>1, <1>4, <1>5, <1>6 DEF Passes, U

\* so that the tables and the stack of commands still agree.
LEMMA LinkedExecuted ==
    ASSUME stack \in Seq(Frames), Shaped(stack), world \in Worlds, NEW redirs \in world.redirs,
           NEW V, Linked(stack, V)
    PROVE  Linked(Executed(redirs), PassedOn(V, Sees(redirs)))
<1> DEFINE s == Sees(redirs)
           t == Executed(redirs)
           U == PassedOn(V, s)
<1>1. PICK len \in Nat \ {0} : len = Len(stack)
  BY Depths
<1>2. V \in Seq(Views) /\ Len(V) = Depth(Last(stack)) + 1 /\ Len(V) \in Nat
  BY DEF Linked
<1>3. s \in Views
  BY SeesSeen DEF Views
<1>4. /\ t \in Seq(Frames) /\ Alike(stack, t) /\ Depth(Last(t)) = Depth(Last(stack))
  BY ExecutedAlike, ShapedAlike
<1>5. Len(t) = len /\ \A i \in 1..len : Depth(t[i]) = Depth(stack[i]) /\ (Seer(t, i) <=> Seer(stack, i))
  BY <1>1, <1>4 DEF Alike, Depth, Seer
<1>6. ASSUME NEW i \in 1..len, NEW n \in UserFds
      PROVE  t[i].sees[n] = IF s[n] # Same /\ OwnerOf(n) = i THEN s[n] ELSE stack[i].sees[n]
  BY <1>1, ExecutedSees
<1>7. Passes(U, V, s)
  BY <1>2, <1>3, PassedPasses
<1>8. U \in Seq(Views) /\ Len(U) = Len(V)
  BY <1>7 DEF Passes
<1>9. ASSUME NEW n \in UserFds
      PROVE  /\ OwnerOf(n) \in 1..len /\ Seer(stack, OwnerOf(n)) /\ Depth(stack[OwnerOf(n)]) + 1 \in 1..Len(V)
             /\ Owns(V, Depth(stack[OwnerOf(n)]) + 1, n)
  <2>1. PICK o : o = SelectLastInSeq(stack, LAMBDA f : f.sees[n] # Same)
    OBVIOUS
  <2>2. o = OwnerOf(n)
    BY <2>1 DEF OwnerOf
  <2> QED
    BY <1>1, <2>1, <2>2, OwnerLevel
<1>10. \A i \in 1..len : t[i].sees \in Views
  <2>1. \A i \in 1..len : t[i] \in Frames
    BY <1>4, <1>5
  <2> QED
    BY <2>1, FrameFields DEF Views
<1> HIDE DEF s, t, U
<1>11. ASSUME NEW i \in 1..len, Seer(stack, i) PROVE U[Depth(stack[i]) + 1] = t[i].sees
  <2>1. PICK k \in 1..Len(V) : k = Depth(stack[i]) + 1
    <3>1. Depth(stack[i]) \in Nat /\ Depth(stack[i]) =< Depth(Last(stack)) /\ Depth(Last(stack)) \in Nat
      BY <1>1, Depths, ShapedPart
    <3> QED
      BY <1>2, <3>1
  <2>2. V[k] = stack[i].sees
    BY <1>1, <1>11, <2>1 DEF Linked
  <2>3. U[k] \in Views /\ t[i].sees \in Views
    BY <1>8, <1>10, <2>1
  <2>4. ASSUME NEW n \in UserFds PROVE U[k][n] = t[i].sees[n]
    <3>1. Owns(V, k, n) <=> OwnerOf(n) = i
      <4>1. OwnerOf(n) = i => Owns(V, k, n)
        BY <1>9, <2>1
      <4>2. ASSUME Owns(V, k, n) PROVE OwnerOf(n) = i
        <5>1. k = Depth(stack[OwnerOf(n)]) + 1
          BY <1>2, <1>9, <4>2, OwnsOne
        <5>2. Depth(stack[i]) \in Nat /\ Depth(stack[OwnerOf(n)]) \in Nat
          BY <1>1, <1>9, Depths
        <5>3. Depth(stack[i]) = Depth(stack[OwnerOf(n)])
          BY <2>1, <5>1, <5>2
        <5> QED
          BY <1>1, <1>9, <1>11, <5>3, LevelsApart
      <4> QED
        BY <4>1, <4>2
    <3>2. t[i].sees[n] = IF s[n] # Same /\ OwnerOf(n) = i THEN s[n] ELSE V[k][n]
      BY <1>6, <2>2
    <3>3. /\ s[n] # Same /\ Owns(V, k, n) => U[k][n] = s[n]
          /\ s[n] = Same \/ ~Owns(V, k, n) => U[k][n] = V[k][n]
      BY <1>7, <2>1 DEF Passes
    <3> QED
      BY <3>1, <3>2, <3>3
  <2>5. U[k] = t[i].sees
    BY <2>3, <2>4 DEF Views
  <2> QED
    BY <2>1, <2>5
<1>12. ASSUME NEW i \in 1..len, ~Seer(stack, i), NEW n \in UserFds PROVE t[i].sees[n] = Same
  <2>1. OwnerOf(n) # i
    BY <1>9, <1>12
  <2>2. stack[i].sees[n] = Same
    BY <1>1, <1>12 DEF Linked
  <2> QED
    BY <1>6, <2>1, <2>2
<1>13. Linked(t, U)
  BY <1>2, <1>4, <1>5, <1>8, <1>11, <1>12 DEF Linked
<1> QED
  BY <1>13 DEF s, t, U

=============================================================================
