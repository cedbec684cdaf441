---------------------------- MODULE ListsProofs -----------------------------
(***************************************************************************)
(* What the proofs about lists keep needing: the elements of a list after  *)
(* it was shortened, extended or filtered, and that each occurs once.      *)
(***************************************************************************)
EXTENDS Lists, SequencesExt, FiniteSetTheorems, SequenceTheorems,
        WellFoundedInduction, TLAPS

\* No element occurs twice.
Once(s) == \A i, j \in DOMAIN s : s[i] = s[j] => i = j

\* a occurs ahead of b.
Before(s, a, b) == \E i, k \in DOMAIN s : i < k /\ s[i] = a /\ s[k] = b

-----------------------------------------------------------------------------
\* The elements of a sequence with one more at its end.
LEMMA AppendElements ==
    ASSUME NEW S, NEW s \in Seq(S), NEW e \in S
    PROVE  ToSet(Append(s, e)) = ToSet(s) \cup {e}
  <1>1. /\ Append(s, e) \in Seq(S) /\ Len(Append(s, e)) = Len(s) + 1
        /\ \A i \in 1 .. Len(s) : Append(s, e)[i] = s[i]
        /\ Append(s, e)[Len(s) + 1] = e
    BY AppendProperties
  <1>2. DOMAIN Append(s, e) = 1 .. (Len(s) + 1) /\ DOMAIN s = 1 .. Len(s) /\ Len(s) \in Nat
    BY <1>1
  <1>3. ToSet(Append(s, e)) \subseteq ToSet(s) \cup {e}
    BY <1>1, <1>2 DEF ToSet
  <1>4. ToSet(s) \cup {e} \subseteq ToSet(Append(s, e))
    BY <1>1, <1>2 DEF ToSet
  <1> QED
    BY <1>3, <1>4

\* The elements of a sequence are its head and those of its tail.
LEMMA HeadTailElements ==
    ASSUME NEW S, NEW s \in Seq(S), s # <<>>
    PROVE  /\ Tail(s) \in Seq(S) /\ Head(s) \in S /\ Head(s) \in ToSet(s)
           /\ ToSet(s) = {Head(s)} \cup ToSet(Tail(s))
  <1>1. /\ Tail(s) \in Seq(S) /\ Len(Tail(s)) = Len(s) - 1 /\ Head(s) = s[1] /\ Len(s) >= 1
        /\ \A i \in 1 .. Len(Tail(s)) : Tail(s)[i] = s[i + 1]
        /\ DOMAIN s = 1 .. Len(s) /\ DOMAIN Tail(s) = 1 .. Len(Tail(s)) /\ Len(s) \in Nat
    BY HeadTailProperties, EmptySeq
  <1>2. ToSet(Tail(s)) \subseteq ToSet(s)
    BY <1>1 DEF ToSet
  <1>3. ASSUME NEW i \in 1 .. Len(s), i # 1
        PROVE  s[i] \in ToSet(Tail(s))
    <2>1. i - 1 \in DOMAIN Tail(s) /\ Tail(s)[i - 1] = s[i]
      BY <1>1, <1>3
    <2> QED
      BY <2>1 DEF ToSet
  <1> QED
    BY <1>1, <1>2, <1>3 DEF ToSet

\* The elements of a sequence without its last one.
LEMMA FrontElements ==
    ASSUME NEW S, NEW s \in Seq(S), s # <<>>
    PROVE  /\ Front(s) \in Seq(S) /\ Len(Front(s)) = Len(s) - 1
           /\ DOMAIN Front(s) = 1 .. (Len(s) - 1)
           /\ \A i \in 1 .. (Len(s) - 1) : Front(s)[i] = s[i]
  <1>1. Len(s) \in Nat /\ Len(s) >= 1 /\ \A i \in 1 .. Len(s) : s[i] \in S
    BY EmptySeq, LenProperties, ElementOfSeq
  <1> DEFINE n == Len(s)  f == SubSeq(s, 1, n - 1)
  <1>2. n \in Nat /\ n >= 1 /\ \A i \in 1 .. n : s[i] \in S
    BY <1>1
  <1>3. f = Front(s)
    BY DEF Front
  <1> HIDE DEF n
  <1>4. /\ f \in Seq(S) /\ Len(f) = IF 1 <= n - 1 THEN (n - 1) - 1 + 1 ELSE 0
        /\ \A i \in 1 .. (n - 1) - 1 + 1 : f[i] = s[1 + i - 1]
    BY <1>2, SubSeqProperties
  <1>5. Len(f) = n - 1 /\ \A i \in 1 .. (n - 1) : f[i] = s[i]
    BY <1>2, <1>4
  <1>6. DOMAIN f = 1 .. (n - 1)
    BY <1>4, <1>5, LenProperties
  <1> HIDE DEF f
  <1> QED
    BY <1>3, <1>4, <1>5, <1>6 DEF n

\* The count of the members of a finite set of numbers up to one of them grows
\* strictly from member to member, so it numbers them from 1 on.
LEMMA Numbering ==
    ASSUME NEW n \in Nat, NEW keep \in SUBSET (1 .. n)
    PROVE  /\ IsFiniteSet(keep) /\ Cardinality(keep) \in Nat
           /\ \A i \in keep : Cardinality({k \in keep : k <= i}) \in 1 .. Cardinality(keep)
           /\ \A i, j \in keep : i < j => Cardinality({k \in keep : k <= i})
                                            < Cardinality({k \in keep : k <= j})
           /\ \A k \in 1 .. Cardinality(keep) :
                 \E i \in keep : Cardinality({l \in keep : l <= i}) = k
  <1> DEFINE upTo(i) == {k \in keep : k <= i}
             count(i) == Cardinality(upTo(i))
             c == Cardinality(keep)
             f == [i \in keep |-> count(i)]
  <1>1. IsFiniteSet(1 .. n)
    BY FS_Interval
  <1>2. IsFiniteSet(keep) /\ Cardinality(keep) \in Nat
    BY <1>1, FS_Subset, FS_CardinalityType
  <1>3. \A i \in keep : IsFiniteSet(upTo(i)) /\ count(i) \in Nat /\ count(i) <= c
    <2> SUFFICES ASSUME NEW i \in keep
                 PROVE  IsFiniteSet(upTo(i)) /\ count(i) \in Nat /\ count(i) <= c
      OBVIOUS
    <2>1. upTo(i) \in SUBSET keep
      OBVIOUS
    <2> QED
      BY <2>1, <1>2, FS_Subset, FS_CardinalityType
  <1>3a. (\A i \in keep : count(i) \in Nat) /\ \A i \in keep : count(i) <= c
    BY <1>3
  <1>3b. c \in Nat /\ \A i \in keep : i \in Nat
    BY <1>2
  <1>4. \A i \in keep : count(i) >= 1
    <2> SUFFICES ASSUME NEW i \in keep PROVE count(i) >= 1
      OBVIOUS
    <2>1. i \in upTo(i)
      OBVIOUS
    <2>2. count(i) # 0
      BY <2>1, <1>3, FS_EmptySet
    <2> HIDE DEF count
    <2> QED
      BY <2>2, <1>3a
  <1>5. ASSUME NEW i \in keep, NEW j \in keep, i < j PROVE count(i) < count(j)
    <2>1. upTo(i) \in SUBSET upTo(j) /\ upTo(i) # upTo(j)
      <3>1. j \in upTo(j) /\ j \notin upTo(i)
        BY <1>5
      <3>2. \A k \in upTo(i) : k \in upTo(j)
        BY <1>5
      <3> QED
        BY <3>1, <3>2
    <2>2. count(i) <= count(j) /\ count(i) # count(j)
      BY <2>1, <1>3, FS_Subset
    <2> HIDE DEF count
    <2> QED
      BY <2>2, <1>3a
  <1>6. f \in Injection(keep, 1 .. Cardinality(keep))
    <2>1. \A i \in keep : count(i) \in 1 .. c
      <3> HIDE DEF count, c
      <3> QED
        BY <1>3a, <1>3b, <1>4
    <2>2. \A i, j \in keep : count(i) = count(j) => i = j
      <3> HIDE DEF count
      <3>1. \A i, j \in keep : i # j => i < j \/ j < i
        BY <1>3b
      <3> QED
        BY <3>1, <1>3a, <1>5
    <2> HIDE DEF count
    <2> QED
      BY <2>1, <2>2 DEF Injection, IsInjective
  <1>7. f \in Surjection(keep, 1 .. Cardinality(keep))
    <2>1. IsFiniteSet(1 .. Cardinality(keep)) /\ Cardinality(1 .. Cardinality(keep)) = Cardinality(keep)
      BY <1>2, FS_Interval
    <2> HIDE DEF f
    <2> QED
      BY <2>1, <1>6, FS_Injection
  <1>8. \A k \in 1 .. Cardinality(keep) : \E i \in keep : count(i) = k
    <2> HIDE DEF count
    <2> QED
      BY <1>7 DEF Surjection
  <1>9. \A i \in keep : count(i) \in 1 .. c
    <2> HIDE DEF count, c
    <2> QED
      BY <1>3a, <1>3b, <1>4
  <1> QED
    BY <1>2, <1>5, <1>8, <1>9

\* Without keeps the order: it is the list read at growing places, those of the
\* elements that are not in S.
LEMMA WithoutPlaces ==
    ASSUME NEW T, NEW s \in Seq(T), NEW S
    PROVE  /\ Without(s, S) \in Seq(T)
           /\ \E f \in [DOMAIN Without(s, S) -> DOMAIN s] :
                 /\ \A k \in DOMAIN Without(s, S) : Without(s, S)[k] = s[f[k]] /\ s[f[k]] \notin S
                 /\ \A k, l \in DOMAIN Without(s, S) : k < l => f[k] < f[l]
                 /\ \A i \in DOMAIN s : s[i] \notin S => \E k \in DOMAIN Without(s, S) : f[k] = i
  <1> DEFINE keep == {i \in DOMAIN s : s[i] \notin S}
             count(i) == Cardinality({k \in keep : k <= i})
             nth(k) == CHOOSE i \in keep : count(i) = k
             c == Cardinality(keep)
             w == [k \in 1 .. c |-> s[nth(k)]]
             f == [k \in 1 .. c |-> nth(k)]
  <1> DEFINE Goal(u) ==
                /\ u \in Seq(T)
                /\ \E g \in [DOMAIN u -> DOMAIN s] :
                      /\ \A k \in DOMAIN u : u[k] = s[g[k]] /\ s[g[k]] \notin S
                      /\ \A k, l \in DOMAIN u : k < l => g[k] < g[l]
                      /\ \A i \in DOMAIN s : s[i] \notin S => \E k \in DOMAIN u : g[k] = i
  <1>1. Goal(w) => Goal(Without(s, S))
    <2>1. w = Without(s, S)
      BY DEF Without
    <2> HIDE DEF Goal, w
    <2> QED
      BY <2>1
  <1>2. DOMAIN s = 1 .. Len(s) /\ Len(s) \in Nat /\ \A i \in DOMAIN s : s[i] \in T
    OBVIOUS
  <1>3. keep \in SUBSET (1 .. Len(s))
    BY <1>2
  <1>4. /\ c \in Nat
        /\ \A i \in keep : count(i) \in 1 .. c
        /\ \A i, j \in keep : i < j => count(i) < count(j)
        /\ \A k \in 1 .. c : \E i \in keep : count(i) = k
    BY <1>2, <1>3, Numbering
  <1>5. \A k \in 1 .. c : nth(k) \in keep /\ count(nth(k)) = k
    <2> HIDE DEF count, c, keep
    <2> QED
      BY <1>4
  <1>6. \A i \in keep : nth(count(i)) = i
    <2> SUFFICES ASSUME NEW i \in keep PROVE nth(count(i)) = i
      OBVIOUS
    <2>1. nth(count(i)) \in keep /\ count(nth(count(i))) = count(i)
      BY <1>4, <1>5
    <2>2. i \in Nat /\ nth(count(i)) \in Nat
      BY <2>1, <1>3, <1>2
    <2> HIDE DEF count, nth, keep
    <2>3. ~(nth(count(i)) < i) /\ ~(i < nth(count(i)))
      <3>1. count(i) \in Nat
        BY <1>4
      <3> QED
        BY <2>1, <3>1, <1>4
    <2> QED
      BY <2>2, <2>3
  <1>7. \A k, l \in 1 .. c : k < l => f[k] < f[l]
    <2> SUFFICES ASSUME NEW k \in 1 .. c, NEW l \in 1 .. c, k < l PROVE f[k] < f[l]
      OBVIOUS
    <2>0. f[k] = nth(k) /\ f[l] = nth(l)
      OBVIOUS
    <2>1. /\ nth(k) \in keep /\ nth(l) \in keep
          /\ count(nth(k)) = k /\ count(nth(l)) = l
      BY <1>5
    <2>2. nth(k) \in Nat /\ nth(l) \in Nat
      BY <2>1, <1>3, <1>2
    <2>3. k \in Nat /\ l \in Nat
      BY <1>4
    <2> HIDE DEF count, nth, keep, c, f
    <2>4. nth(k) # nth(l) /\ ~(nth(l) < nth(k))
      BY <2>1, <2>3, <1>4
    <2> QED
      BY <2>0, <2>2, <2>4
  <1> HIDE DEF nth, count, keep, c
  <1>8. DOMAIN w = 1 .. c /\ w \in Seq(T)
    <2>1. \A k \in 1 .. c : s[nth(k)] \in T
      BY <1>2, <1>3, <1>5
    <2>2. w \in [1 .. c -> T]
      BY <2>1
    <2> QED
      BY <1>4, <2>2
  <1>9. f \in [DOMAIN w -> DOMAIN s]
    BY <1>2, <1>3, <1>5, <1>8
  <1>10. \A k \in DOMAIN w : w[k] = s[f[k]] /\ s[f[k]] \notin S
    <2>1. \A i \in keep : s[i] \notin S
      BY DEF keep
    <2> QED
      BY <1>5, <1>8, <2>1
  <1>11. \A i \in DOMAIN s : s[i] \notin S => \E k \in DOMAIN w : f[k] = i
    <2>1. \A i \in DOMAIN s : s[i] \notin S => i \in keep
      BY DEF keep
    <2> QED
      BY <2>1, <1>4, <1>6, <1>8
  <1>12. \A k, l \in DOMAIN w : k < l => f[k] < f[l]
    BY <1>7, <1>8
  <1> HIDE DEF w, f
  <1>13. Goal(w)
    BY <1>8, <1>9, <1>10, <1>11, <1>12
  <1> QED
    BY <1>1, <1>13

\* What is left are the elements not in S, each as often as before.
LEMMA WithoutElements ==
    ASSUME NEW T, NEW s \in Seq(T), NEW S
    PROVE  /\ Without(s, S) \in Seq(T)
           /\ ToSet(Without(s, S)) = ToSet(s) \ S
           /\ Once(s) => Once(Without(s, S))
  <1> DEFINE w == Without(s, S)
  <1>1. w \in Seq(T)
    BY WithoutPlaces
  <1>2. PICK f \in [DOMAIN w -> DOMAIN s] :
                 /\ \A k \in DOMAIN w : w[k] = s[f[k]] /\ s[f[k]] \notin S
                 /\ \A k, l \in DOMAIN w : k < l => f[k] < f[l]
                 /\ \A i \in DOMAIN s : s[i] \notin S => \E k \in DOMAIN w : f[k] = i
    BY WithoutPlaces
  <1> HIDE DEF w
  <1>3. ToSet(w) \subseteq ToSet(s) \ S
    BY <1>2 DEF ToSet
  <1>4. ToSet(s) \ S \subseteq ToSet(w)
    BY <1>2 DEF ToSet
  <1>5. ASSUME Once(s) PROVE Once(w)
    <2> SUFFICES ASSUME NEW k \in DOMAIN w, NEW l \in DOMAIN w, w[k] = w[l] PROVE k = l
      BY DEF Once
    <2>1. f[k] = f[l] /\ f[k] \in DOMAIN s
      BY <1>2, <1>5 DEF Once
    <2>2. DOMAIN w = 1 .. Len(w) /\ Len(w) \in Nat /\ DOMAIN s = 1 .. Len(s) /\ Len(s) \in Nat
      BY <1>1
    <2> DEFINE n == Len(w)  m == Len(s)
    <2>3. n \in Nat /\ m \in Nat /\ k \in 1 .. n /\ l \in 1 .. n /\ f[k] \in 1 .. m
      BY <2>1, <2>2
    <2> HIDE DEF n, m
    <2>4. ~(f[k] < f[l]) /\ ~(f[l] < f[k])
      BY <2>1, <2>3
    <2> QED
      BY <1>2, <2>3, <2>4
  <1> QED
    BY <1>1, <1>3, <1>4, <1>5 DEF w

\* Without keeps the order of what it keeps.
LEMMA WithoutOrder ==
    ASSUME NEW T, NEW s \in Seq(T), NEW S, NEW a, NEW b, a \notin S, b \notin S,
           Before(s, a, b)
    PROVE  Before(Without(s, S), a, b)
  <1> DEFINE w == Without(s, S)
  <1>1. w \in Seq(T)
    BY WithoutPlaces
  <1>2. PICK f \in [DOMAIN w -> DOMAIN s] :
                 /\ \A k \in DOMAIN w : w[k] = s[f[k]] /\ s[f[k]] \notin S
                 /\ \A k, l \in DOMAIN w : k < l => f[k] < f[l]
                 /\ \A i \in DOMAIN s : s[i] \notin S => \E k \in DOMAIN w : f[k] = i
    BY WithoutPlaces
  <1>3. PICK i \in DOMAIN s, k \in DOMAIN s : i < k /\ s[i] = a /\ s[k] = b
    BY DEF Before
  <1> HIDE DEF w
  <1>4. PICK x \in DOMAIN w : f[x] = i
    BY <1>2, <1>3
  <1>5. PICK y \in DOMAIN w : f[y] = k
    BY <1>2, <1>3
  <1>6. w[x] = a /\ w[y] = b
    BY <1>2, <1>3, <1>4, <1>5
  <1>7. x < y
    <2>1. PICK n \in Nat, m \in Nat : DOMAIN w = 1 .. n /\ DOMAIN s = 1 .. m
      BY <1>1
    <2>2. x # y /\ ~(y < x)
      <3>1. i \in Nat /\ k \in Nat
        BY <2>1
      <3> QED
        BY <3>1, <1>2, <1>3, <1>4, <1>5
    <2> QED
      BY <2>1, <2>2
  <1>8. Before(w, a, b)
    BY <1>6, <1>7 DEF Before
  <1> QED
    BY <1>8 DEF w

\* A list with one more element at some place.
Inserted(r, s, i, e) ==
    /\ Len(r) = Len(s) + 1
    /\ \A k \in 1 .. (i - 1) : r[k] = s[k]
    /\ r[i] = e
    /\ \A k \in i .. Len(s) : r[k + 1] = s[k]

LEMMA InsertedElements ==
    ASSUME NEW T, NEW s \in Seq(T), NEW r \in Seq(T), NEW e \in T,
           NEW i \in 1 .. (Len(s) + 1), Inserted(r, s, i, e)
    PROVE  /\ ToSet(r) = ToSet(s) \cup {e}
           /\ Once(s) /\ e \notin ToSet(s) => Once(r)
           /\ \A a, b : Before(s, a, b) => Before(r, a, b)
  <1>1. PICK n \in Nat : n = Len(s)
    BY LenProperties
  <1> DEFINE up(k) == IF k < i THEN k ELSE k + 1
             down(k) == IF k < i THEN k ELSE k - 1
  <1>2. DOMAIN s = 1 .. n /\ DOMAIN r = 1 .. (n + 1) /\ i \in 1 .. (n + 1)
    BY <1>1 DEF Inserted
  <1>3. \A k \in 1 .. n : up(k) \in 1 .. (n + 1) /\ up(k) # i
    BY <1>1, <1>2
  <1>4. \A k \in 1 .. n : r[up(k)] = s[k]
    <2> SUFFICES ASSUME NEW k \in 1 .. n PROVE r[up(k)] = s[k]
      OBVIOUS
    <2>1. CASE k < i
      <3>1. k \in 1 .. (i - 1)
        BY <2>1, <1>2
      <3> QED
        BY <3>1, <2>1 DEF Inserted
    <2>2. CASE ~(k < i)
      <3>1. k \in i .. n
        BY <2>2, <1>2
      <3> QED
        BY <3>1, <2>2, <1>1 DEF Inserted
    <2> QED
      BY <2>1, <2>2
  <1>5. \A k, l \in 1 .. n : k < l => up(k) < up(l)
    BY <1>2
  <1>6. \A k \in 1 .. (n + 1) : k # i => down(k) \in 1 .. n /\ up(down(k)) = k
    BY <1>2
  <1>7. r[i] = e
    BY DEF Inserted
  <1>8. \A k \in 1 .. (n + 1) : k # i => r[k] = s[down(k)]
    BY <1>4, <1>6
  <1> HIDE DEF up, down
  <1>9. ToSet(r) = ToSet(s) \cup {e}
    <2>1. ToSet(r) \subseteq ToSet(s) \cup {e}
      BY <1>2, <1>6, <1>7, <1>8 DEF ToSet
    <2>2. ToSet(s) \cup {e} \subseteq ToSet(r)
      BY <1>2, <1>3, <1>4, <1>7 DEF ToSet
    <2> QED
      BY <2>1, <2>2
  <1>10. ASSUME Once(s), e \notin ToSet(s) PROVE Once(r)
    <2> SUFFICES ASSUME NEW k \in 1 .. (n + 1), NEW l \in 1 .. (n + 1), r[k] = r[l]
                 PROVE  k = l
      BY <1>2 DEF Once
    <2>1. \A x \in 1 .. n : s[x] # e
      BY <1>2, <1>10 DEF ToSet
    <2>2. CASE k = i \/ l = i
      BY <2>1, <2>2, <1>6, <1>7, <1>8
    <2>3. CASE k # i /\ l # i
      <3>1. s[down(k)] = s[down(l)]
        BY <2>3, <1>8
      <3>2. down(k) = down(l)
        BY <3>1, <2>3, <1>2, <1>6, <1>10 DEF Once
      <3> QED
        BY <3>2, <2>3, <1>6
    <2> QED
      BY <2>2, <2>3
  <1>11. ASSUME NEW a, NEW b, Before(s, a, b) PROVE Before(r, a, b)
    <2>1. PICK x \in 1 .. n, y \in 1 .. n : x < y /\ s[x] = a /\ s[y] = b
      BY <1>2, <1>11 DEF Before
    <2>2. up(x) < up(y) /\ r[up(x)] = a /\ r[up(y)] = b
      BY <2>1, <1>4, <1>5
    <2> QED
      BY <2>2, <1>2, <1>3 DEF Before
  <1> QED
    BY <1>9, <1>10, <1>11

\* One more element at the front.
LEMMA PushElements ==
    ASSUME NEW T, NEW s \in Seq(T), NEW e \in T
    PROVE  LET r == <<e>> \o s
           IN  /\ r \in Seq(T) /\ r # <<>> /\ r[1] = e
               /\ ToSet(r) = ToSet(s) \cup {e}
               /\ Once(s) /\ e \notin ToSet(s) => Once(r)
               /\ \A a, b : Before(s, a, b) => Before(r, a, b)
               /\ \A b \in ToSet(s) : Before(r, e, b)
  <1> DEFINE r == <<e>> \o s
  <1>1. PICK n \in Nat : n = Len(s)
    BY LenProperties
  <1>2. /\ r \in Seq(T) /\ Len(r) = n + 1
        /\ r[1] = e /\ \A k \in 1 .. n : r[k + 1] = s[k]
    BY <1>1, ConcatProperties
  <1> HIDE DEF r
  <1>3. Inserted(r, s, 1, e)
    BY <1>1, <1>2 DEF Inserted
  <1>4. 1 \in 1 .. (Len(s) + 1)
    BY <1>1
  <1>5. /\ ToSet(r) = ToSet(s) \cup {e}
        /\ Once(s) /\ e \notin ToSet(s) => Once(r)
        /\ \A a, b : Before(s, a, b) => Before(r, a, b)
    BY <1>2, <1>3, <1>4, InsertedElements
  <1>6. ASSUME NEW b \in ToSet(s) PROVE Before(r, e, b)
    <2>1. PICK k \in 1 .. n : s[k] = b
      BY <1>1 DEF ToSet
    <2>2. 1 \in 1 .. (n + 1) /\ k + 1 \in 1 .. (n + 1) /\ 1 < k + 1
      BY <1>1
    <2>3. DOMAIN r = 1 .. (n + 1)
      BY <1>2
    <2> QED
      BY <2>1, <2>2, <2>3, <1>2 DEF Before
  <1>7. r # <<>>
    BY <1>1, <1>2
  <1> QED
    BY <1>2, <1>5, <1>6, <1>7 DEF r

\* InsertAt puts one more element at a place.
LEMMA InsertAtElements ==
    ASSUME NEW T, NEW s \in Seq(T), NEW e \in T, NEW i \in 1 .. (Len(s) + 1)
    PROVE  /\ InsertAt(s, i, e) \in Seq(T)
           /\ Inserted(InsertAt(s, i, e), s, i, e)
  <1>1. PICK n \in Nat : n = Len(s)
    BY LenProperties
  <1>2. i \in 1 .. (n + 1) /\ \A k \in 1 .. n : s[k] \in T
    BY <1>1, ElementOfSeq
  <1> DEFINE a == SubSeq(s, 1, i - 1)
             b == SubSeq(s, i, n)
  <1>3. a \in Seq(T) /\ Len(a) = i - 1 /\ \A k \in 1 .. (i - 1) : a[k] = s[k]
    <2>1. 1 \in Nat /\ i - 1 \in Int /\ \A k \in 1 .. (i - 1) : s[k] \in T
      BY <1>2
    <2>2. /\ a \in Seq(T) /\ Len(a) = IF 1 <= i - 1 THEN (i - 1) - 1 + 1 ELSE 0
          /\ \A k \in 1 .. (i - 1) - 1 + 1 : a[k] = s[1 + k - 1]
      BY <2>1, SubSeqProperties
    <2> HIDE DEF a
    <2>3. (i - 1) - 1 + 1 = i - 1 /\ (1 <= i - 1 \/ i - 1 = 0)
      BY <1>2
    <2>4. \A k \in 1 .. (i - 1) : 1 + k - 1 = k
      BY <1>2
    <2> QED
      BY <2>2, <2>3, <2>4
  <1>4. b \in Seq(T) /\ Len(b) = n - i + 1 /\ \A k \in 1 .. (n - i + 1) : b[k] = s[k + i - 1]
    <2>1. i \in Nat /\ n \in Int /\ \A k \in i .. n : s[k] \in T
      BY <1>2
    <2>2. /\ b \in Seq(T) /\ Len(b) = IF i <= n THEN n - i + 1 ELSE 0
          /\ \A k \in 1 .. n - i + 1 : b[k] = s[i + k - 1]
      BY <2>1, SubSeqProperties
    <2> HIDE DEF b
    <2>3. i <= n \/ n - i + 1 = 0
      BY <1>2
    <2>4. \A k \in 1 .. (n - i + 1) : i + k - 1 = k + i - 1
      BY <1>2
    <2> QED
      BY <2>2, <2>3, <2>4
  <1> HIDE DEF a, b
  <1> DEFINE c == a \o <<e>>
             r == c \o b
  <1>5. /\ c \in Seq(T) /\ Len(c) = i
        /\ \A k \in 1 .. (i - 1) : c[k] = s[k]
        /\ c[i] = e
    <2>1. /\ <<e>> \in Seq(T) /\ Len(<<e>>) = 1 /\ <<e>>[1] = e
      OBVIOUS
    <2>2. /\ c \in Seq(T) /\ Len(c) = Len(a) + Len(<<e>>)
          /\ \A k \in 1 .. Len(a) : c[k] = a[k]
          /\ \A k \in 1 .. Len(<<e>>) : c[Len(a) + k] = <<e>>[k]
      BY <1>3, <2>1, ConcatProperties
    <2> HIDE DEF c
    <2>3. (i - 1) + 1 = i /\ 1 \in 1 .. 1
      BY <1>2
    <2> QED
      BY <1>3, <2>1, <2>2, <2>3
  <1> HIDE DEF c
  <1>6. /\ r \in Seq(T) /\ Len(r) = Len(c) + Len(b)
        /\ \A k \in 1 .. Len(c) : r[k] = c[k]
        /\ \A k \in 1 .. Len(b) : r[Len(c) + k] = b[k]
    <2>1. /\ r \in Seq(T) /\ Len(r) = Len(c) + Len(b)
          /\ \A k \in 1 .. Len(c) + Len(b) : r[k] = IF k <= Len(c) THEN c[k] ELSE b[k - Len(c)]
      BY <1>4, <1>5, ConcatProperties
    <2> HIDE DEF r
    <2>2. PICK x \in Nat, y \in Nat : x = Len(c) /\ y = Len(b)
      BY <1>4, <1>5, LenProperties
    <2>3. \A k \in 1 .. x : k \in 1 .. x + y /\ k <= x
      BY <2>2
    <2>4. \A k \in 1 .. y : x + k \in 1 .. x + y /\ ~(x + k <= x) /\ (x + k) - x = k
      BY <2>2
    <2> QED
      BY <2>1, <2>2, <2>3, <2>4
  <1> HIDE DEF r
  <1>7. Len(r) = n + 1
    <2>1. i + (n - i + 1) = n + 1
      BY <1>2
    <2> QED
      BY <2>1, <1>4, <1>5, <1>6
  <1>8. \A k \in 1 .. (i - 1) : r[k] = s[k]
    <2>1. \A k \in 1 .. (i - 1) : k \in 1 .. i
      BY <1>2
    <2> QED
      BY <2>1, <1>5, <1>6
  <1>9. r[i] = e
    <2>1. i \in 1 .. i
      BY <1>2
    <2> QED
      BY <2>1, <1>5, <1>6
  <1>10. \A k \in i .. n : r[k + 1] = s[k]
    <2> SUFFICES ASSUME NEW k \in i .. n PROVE r[k + 1] = s[k]
      OBVIOUS
    <2>1. /\ k - i + 1 \in 1 .. (n - i + 1)
          /\ i + (k - i + 1) = k + 1
          /\ (k - i + 1) + i - 1 = k
      BY <1>2
    <2>2. r[i + (k - i + 1)] = b[k - i + 1] /\ b[k - i + 1] = s[(k - i + 1) + i - 1]
      BY <2>1, <1>4, <1>5, <1>6
    <2> QED
      BY <2>1, <2>2
  <1>11. r = InsertAt(s, i, e)
    BY <1>1 DEF InsertAt, r, c, a, b
  <1>12. r \in Seq(T) /\ Inserted(r, s, i, e)
    BY <1>1, <1>6, <1>7, <1>8, <1>9, <1>10 DEF Inserted
  <1> QED
    BY <1>11, <1>12

\* A set of numbers that is not empty has a least one.
LEMMA LeastOf ==
    ASSUME NEW I, I \subseteq Nat, I # {}
    PROVE  Min(I) \in I /\ \A k \in I : Min(I) <= k
  <1>1. PICK m \in I : \A k \in I : ~ (<<k, m>> \in OpToRel(<, Nat))
    BY NatLessThanWellFounded, WFMin
  <1>2. \A k \in I : m <= k
    <2> SUFFICES ASSUME NEW k \in I PROVE m <= k
      OBVIOUS
    <2>1. k \in Nat /\ m \in Nat
      OBVIOUS
    <2>2. ~(k < m)
      BY <1>1, <2>1 DEF OpToRel
    <2> QED
      BY <2>1, <2>2
  <1> QED
    BY <1>1, <1>2 DEF Min

=============================================================================
