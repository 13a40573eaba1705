------------------------- MODULE SelfDriving_proofs -------------------------
(***************************************************************************)
(* Theorems about SelfDriving for any nodes, pods, minimums and diffs.      *)
(*                                                                         *)
(* refreshSkiplist is a recursive function.  RecursionExists shows that a   *)
(* function of this form exists, so its equation can be used, and a least   *)
(* index at which a claim about it fails gives a contradiction.  Likewise   *)
(* with sums over sets of pods, of which SumsExist shows that there is a    *)
(* function, and a smallest set at which a claim about them fails.          *)
(***************************************************************************)
EXTENDS SelfDriving, TLAPS, FiniteSetTheorems, WellFoundedInduction

(* A nonempty set of naturals has a least element.                          *)
LEMMA LeastIndex ==
  ASSUME NEW T, T \subseteq Nat, T # {}
  PROVE  \E x \in T : \A y \in T : x <= y
<1> DEFINE F == {0..m : m \in T}
           R == StrictSubsetOrdering(Nat)
<1>1. F \subseteq FiniteSubsetsOf(Nat) /\ F # {}
  <2>1. \A m \in Nat : IsFiniteSet(0..m)
    BY FS_Interval, SMT
  <2>2. \A m \in Nat : 0..m \in SUBSET Nat
    OBVIOUS
  <2> QED
    BY <2>1, <2>2, Zenon DEF FiniteSubsetsOf
<1>2. IsWellFoundedOn(R, FiniteSubsetsOf(Nat))
  BY FS_StrictSubsetOrderingWellFounded
<1>3. \A A, B \in SUBSET Nat : B \subseteq A /\ B # A => <<B, A>> \in R
  BY Zenon DEF R, StrictSubsetOrdering
<1> HIDE DEF R
<1>4. PICK A \in F : \A B \in F : ~(<<B, A>> \in R)
  <2> HIDE DEF F
  <2> QED
    BY <1>1, <1>2, WFMin
<1>5. PICK x \in T : A = 0..x
  OBVIOUS
<1>6. ASSUME NEW y \in T, y < x PROVE FALSE
  <2>1. 0..y \subseteq 0..x /\ 0..y # 0..x /\ 0..y \in SUBSET Nat /\ 0..x \in SUBSET Nat
    BY <1>6
  <2>2. <<0..y, 0..x>> \in R /\ 0..y \in F
    BY <1>3, <2>1, Zenon
  <2> QED
    BY <1>4, <1>5, <2>2
<1> QED
  BY <1>6

Unfolds(f, N, S, a, h) ==
  f \in [0..N -> S] /\ f[0] = a /\ \A i \in 1..N : f[i] = h[<<f[i-1], i>>]

(* A function on 0..N is defined by its first value and by each value from  *)
(* the one before.                                                          *)
LEMMA RecursionExists ==
  ASSUME NEW N \in Nat, NEW S, NEW a \in S, NEW h \in [S \X (1..N) -> S]
  PROVE  \E f : Unfolds(f, N, S, a, h)
<1> DEFINE Upto(n, f) == f \in [0..n -> S] /\ f[0] = a /\ \A i \in 1..n : f[i] = h[<<f[i-1], i>>]
           T == {n \in 0..N : ~ \E f : Upto(n, f)}
<1>1. SUFFICES T = {}
  <2>0. N \in 0..N
    OBVIOUS
  <2>1. ASSUME T = {} PROVE \E f : Upto(N, f)
    BY <2>0, <2>1, Zenon
  <2> QED
    BY <2>1, Zenon DEF Unfolds
<1>2. SUFFICES ASSUME T # {} PROVE FALSE
  OBVIOUS
<1>3. PICK m \in T : \A n \in T : m <= n
  <2>1. T \subseteq Nat
    OBVIOUS
  <2> HIDE DEF T
  <2> QED
    BY <1>2, <2>1, LeastIndex
<1>4. m \in 0..N /\ ~ \E f : Upto(m, f)
  OBVIOUS
<1>5. m # 0
  <2> DEFINE f == [i \in 0..0 |-> a]
  <2>1. Upto(0, f)
    OBVIOUS
  <2> QED
    BY <1>4, <2>1
<1>6. m - 1 \in 0..N /\ m - 1 \notin T /\ m \in 1..N
  BY <1>3, <1>4, <1>5
<1>7. PICK g : Upto(m - 1, g)
  BY <1>6
<1> DEFINE f == [i \in 0..m |-> IF i = m THEN h[<<g[m-1], m>>] ELSE g[i]]
<1>8. g \in [0..(m-1) -> S] /\ g[0] = a /\ g[m-1] \in S
  BY <1>6, <1>7
<1>9. f \in [0..m -> S] /\ f[0] = a /\ f[m] = h[<<g[m-1], m>>]
      /\ \A i \in 0..(m-1) : f[i] = g[i]
  <2>1. h[<<g[m-1], m>>] \in S
    BY <1>6, <1>8
  <2>2. \A i \in 0..m : f[i] \in S
    BY <1>4, <1>6, <1>8, <2>1
  <2> QED
    BY <1>4, <1>5, <1>6, <1>8, <2>1, <2>2
<1>10. \A i \in 1..m : f[i] = h[<<f[i-1], i>>]
  <2>1. \A i \in 1..(m-1) : g[i] = h[<<g[i-1], i>>]
    BY <1>7
  <2> HIDE DEF f
  <2>2. ASSUME NEW i \in 1..m PROVE f[i-1] = g[i-1]
    <3>1. i - 1 \in 0..(m-1)
      BY <1>6
    <3> QED
      BY <1>9, <3>1
  <2>3. f[m] = h[<<f[m-1], m>>]
    <3>1. m \in 1..m
      BY <1>6
    <3> QED
      BY <1>9, <2>2, <3>1
  <2>4. ASSUME NEW i \in 1..m, i # m PROVE f[i] = h[<<f[i-1], i>>]
    <3>1. i \in 1..(m-1) /\ i \in 0..(m-1)
      BY <1>6, <2>4
    <3> QED
      BY <1>9, <2>1, <2>2, <3>1
  <2> QED
    BY <2>3, <2>4
<1>11. Upto(m, f)
  BY <1>9, <1>10
<1> HIDE DEF f
<1> QED
  BY <1>4, <1>11

-----------------------------------------------------------------------------
(* The refresh of the skip list.                                            *)

Distinct(s) == \A i, j \in 1..Len(s) : s[i].pod = s[j].pod => i = j

RefreshStates == [panic : BOOLEAN, list : Seq(SkipItem)]

(* Whatever an index is taken from, removing an item makes no duplicate.    *)
LEMMA RemovingKeepsDistinct ==
  ASSUME NEW s \in Seq(SkipItem), NEW i \in 1..Len(s)
  PROVE  /\ removeIndex(s, i) \in Seq(SkipItem)
         /\ Len(removeIndex(s, i)) = Len(s) - 1
         /\ Distinct(s) => Distinct(removeIndex(s, i))
<1> DEFINE r == removeIndex(s, i)
<1>1. r = SubSeq(s, 1, i-1) \o SubSeq(s, i+1, Len(s))
  BY DEF removeIndex, RemoveAt
<1>2. /\ SubSeq(s, 1, i-1) \in Seq(SkipItem) /\ Len(SubSeq(s, 1, i-1)) = i - 1
      /\ \A j \in 1..(i-1) : SubSeq(s, 1, i-1)[j] = s[j]
  OBVIOUS
<1>3. /\ SubSeq(s, i+1, Len(s)) \in Seq(SkipItem) /\ Len(SubSeq(s, i+1, Len(s))) = Len(s) - i
      /\ \A j \in 1..(Len(s)-i) : SubSeq(s, i+1, Len(s))[j] = s[i+j]
  OBVIOUS
<1>4. /\ r \in Seq(SkipItem) /\ Len(r) = Len(s) - 1
      /\ \A j \in 1..(Len(s)-1) : r[j] = IF j < i THEN s[j] ELSE s[j+1]
  <2> DEFINE A == SubSeq(s, 1, i-1)
             B == SubSeq(s, i+1, Len(s))
  <2>1. A \in Seq(SkipItem) /\ B \in Seq(SkipItem) /\ r = A \o B
    BY <1>1, <1>2, <1>3
  <2>2. Len(A) = i - 1 /\ Len(B) = Len(s) - i
    BY <1>2, <1>3
  <2>3. \A j \in 1..(i-1) : A[j] = s[j]
    BY <1>2
  <2>4. \A j \in 1..(Len(s)-i) : B[j] = s[i+j]
    BY <1>3
  <2> HIDE DEF A, B, r
  <2>5. r \in Seq(SkipItem) /\ Len(r) = Len(A) + Len(B)
    BY <2>1
  <2>6. \A j \in 1..(Len(A)+Len(B)) : r[j] = IF j <= Len(A) THEN A[j] ELSE B[j - Len(A)]
    BY <2>1
  <2>7. Len(s) \in Nat /\ i \in Nat /\ i >= 1 /\ i <= Len(s)
    OBVIOUS
  <2>8. ASSUME NEW j \in 1..(Len(s)-1) PROVE r[j] = IF j < i THEN s[j] ELSE s[j+1]
    <3>1. CASE j < i
      BY <2>2, <2>3, <2>6, <2>7, <3>1
    <3>2. CASE ~(j < i)
      <4>1. j - (i-1) \in 1..(Len(s)-i) /\ i + (j - (i-1)) = j + 1
        BY <2>7, <3>2
      <4>2. r[j] = B[j - (i-1)]
        BY <2>2, <2>6, <2>7, <3>2
      <4>3. B[j - (i-1)] = s[i + (j - (i-1))]
        BY <2>4, <4>1
      <4> QED
        BY <3>2, <4>1, <4>2, <4>3
    <3> QED
      BY <3>1, <3>2
  <2>9. Len(r) = Len(s) - 1
    BY <2>2, <2>5, <2>7
  <2> QED
    BY <2>5, <2>8, <2>9
<1> HIDE DEF r
<1>5. ASSUME Distinct(s), NEW j \in 1..Len(r), NEW k \in 1..Len(r), r[j].pod = r[k].pod
      PROVE  j = k
  <2> DEFINE At(n) == IF n < i THEN n ELSE n + 1
  <2>1. At(j) \in 1..Len(s) /\ At(k) \in 1..Len(s) /\ r[j] = s[At(j)] /\ r[k] = s[At(k)]
    BY <1>4
  <2>2. At(j) = At(k)
    BY <1>5, <2>1 DEF Distinct
  <2> QED
    BY <1>4, <2>2
<1> QED
  BY <1>4, <1>5 DEF r, Distinct

LEMMA RefreshItemKeeps ==
  ASSUME NEW s \in RefreshStates, NEW i \in Nat, i > 0
  PROVE  /\ RefreshItem(s, i) \in RefreshStates
         /\ Distinct(s.list) => Distinct(RefreshItem(s, i).list)
<1>1. s.list \in Seq(SkipItem) /\ s.panic \in BOOLEAN
  BY DEF RefreshStates
<1>2. CASE RefreshItem(s, i) = s
  BY <1>2
<1>3. CASE RefreshItem(s, i) = [s EXCEPT !.panic = TRUE]
  BY <1>3 DEF RefreshStates
<1>4. CASE i <= Len(s.list) /\ RefreshItem(s, i) = [s EXCEPT !.list = removeIndex(s.list, i)]
  <2>1. i \in 1..Len(s.list)
    BY <1>1, <1>4
  <2>2. /\ removeIndex(s.list, i) \in Seq(SkipItem)
        /\ Distinct(s.list) => Distinct(removeIndex(s.list, i))
    BY <1>1, <2>1, RemovingKeepsDistinct
  <2>3. RefreshItem(s, i) = [s EXCEPT !.list = removeIndex(s.list, i)]
    BY <1>4
  <2>4. RefreshItem(s, i).list = removeIndex(s.list, i) /\ RefreshItem(s, i) \in RefreshStates
    BY <2>2, <2>3 DEF RefreshStates
  <2> QED
    BY <2>2, <2>4
<1>5. \/ RefreshItem(s, i) = s
      \/ RefreshItem(s, i) = [s EXCEPT !.panic = TRUE]
      \/ i <= Len(s.list) /\ RefreshItem(s, i) = [s EXCEPT !.list = removeIndex(s.list, i)]
  <2>1. (i > Len(s.list)) \/ i <= Len(s.list)
    BY <1>1
  <2>2. CASE s.panic \/ ~Removable(skip[i])
    BY <2>2, Zenon DEF RefreshItem
  <2>3. CASE ~(s.panic \/ ~Removable(skip[i])) /\ i > Len(s.list)
    BY <2>3, Zenon DEF RefreshItem
  <2>4. CASE ~(s.panic \/ ~Removable(skip[i])) /\ ~(i > Len(s.list))
    <3>1. RefreshItem(s, i) = [s EXCEPT !.list = removeIndex(s.list, i)]
      BY <2>4, Zenon DEF RefreshItem
    <3> QED
      BY <2>1, <2>4, <3>1
  <2> QED
    BY <2>2, <2>3, <2>4, Zenon
<1> QED
  BY <1>2, <1>3, <1>4, <1>5

(* The equation of the recursive function.                                  *)
LEMMA RefreshEquation ==
  ASSUME skip \in Seq(SkipItem)
  PROVE  \A i \in 0..Len(skip) :
           refreshSkiplist[i] = IF i = 0 THEN [panic |-> FALSE, list |-> skip]
                                ELSE RefreshItem(refreshSkiplist[i-1], i)
<1> DEFINE N == Len(skip)
           a == [panic |-> FALSE, list |-> skip]
           h == [x \in RefreshStates \X (1..N) |-> RefreshItem(x[1], x[2])]
           Body(f) == [i \in 0..N |-> IF i = 0 THEN a ELSE RefreshItem(f[i-1], i)]
<1>1. N \in Nat /\ a \in RefreshStates
  BY DEF RefreshStates
<1>2. h \in [RefreshStates \X (1..N) -> RefreshStates]
  BY <1>1, RefreshItemKeeps
<1>3. PICK f : Unfolds(f, N, RefreshStates, a, h)
  <2> HIDE DEF h, a, N
  <2> QED
    BY <1>1, <1>2, RecursionExists, Zenon
<1>4. \A i \in 1..N : f[i] = RefreshItem(f[i-1], i)
  <2>1. \A i \in 1..N : f[i-1] \in RefreshStates
    BY <1>1, <1>3 DEF Unfolds
  <2> QED
    BY <1>3, <2>1 DEF Unfolds
<1>5. f = Body(f)
  BY <1>1, <1>3, <1>4 DEF Unfolds
<1>6. refreshSkiplist = Body(refreshSkiplist)
  <2>1. refreshSkiplist = CHOOSE g : g = Body(g)
    BY DEF refreshSkiplist
  <2> HIDE DEF Body
  <2> QED
    BY <1>5, <2>1
<1> QED
  BY <1>6, Zenon

(* The refresh keeps the list a list of items, and free of duplicates.      *)
LEMMA RefreshedIsDistinct ==
  ASSUME skip \in Seq(SkipItem)
  PROVE  /\ Refreshed \in RefreshStates
         /\ Distinct(skip) => Distinct(Refreshed.list)
<1> DEFINE Good(s) == s \in RefreshStates /\ (Distinct(skip) => Distinct(s.list))
           T == {i \in 0..Len(skip) : ~Good(refreshSkiplist[i])}
<1>1. SUFFICES ASSUME T # {} PROVE FALSE
  <2>1. Len(skip) \in 0..Len(skip)
    OBVIOUS
  <2> QED
    BY <2>1 DEF Refreshed
<1>2. PICK m \in T : \A n \in T : m <= n
  <2>1. T \subseteq Nat
    OBVIOUS
  <2> HIDE DEF T
  <2> QED
    BY <1>1, <2>1, LeastIndex
<1>3. m \in 0..Len(skip) /\ ~Good(refreshSkiplist[m]) /\ Len(skip) \in Nat
  OBVIOUS
<1>4. CASE m = 0
  <2>1. refreshSkiplist[0] = [panic |-> FALSE, list |-> skip]
    BY <1>3, <1>4, RefreshEquation
  <2>2. Good([panic |-> FALSE, list |-> skip])
    BY DEF RefreshStates
  <2> QED
    BY <1>3, <1>4, <2>1, <2>2
<1>5. CASE m # 0
  <2>1. m - 1 \in 0..Len(skip) /\ m - 1 \notin T /\ m > 0 /\ m \in Nat
    BY <1>2, <1>3, <1>5
  <2>2. Good(refreshSkiplist[m-1])
    BY <2>1
  <2>3. refreshSkiplist[m] = RefreshItem(refreshSkiplist[m-1], m)
    BY <1>3, <1>5, RefreshEquation
  <2>4. Good(RefreshItem(refreshSkiplist[m-1], m))
    BY <2>1, <2>2, RefreshItemKeeps
  <2> QED
    BY <1>3, <2>3, <2>4
<1> QED
  BY <1>4, <1>5

LEMMA OtherListState ==
  ASSUME NEW S, NEW s \in [panic : BOOLEAN, list : S], NEW y \in S
  PROVE  [s EXCEPT !.list = y] = [panic |-> s.panic, list |-> y]
OBVIOUS

(* With at most one item to remove, the recursion leaves the list alone up  *)
(* to that item, takes it out, and leaves the rest alone.                   *)
LEMMA RefreshedIsExact ==
  ASSUME skip \in Seq(SkipItem)
  PROVE  /\ RemovableItems = {} => Refreshed = [panic |-> FALSE, list |-> skip]
         /\ \A i \in DOMAIN skip : RemovableItems = {i} =>
              Refreshed = [panic |-> FALSE, list |-> RemoveAt(skip, i)]
<1> DEFINE Kept == [panic |-> FALSE, list |-> skip]
           Cut(i) == [panic |-> FALSE, list |-> RemoveAt(skip, i)]
           After(k, i) == IF k < i THEN Kept ELSE Cut(i)
<1>1. ASSUME RemovableItems = {} PROVE Refreshed = Kept
  <2> DEFINE T == {k \in 0..Len(skip) : refreshSkiplist[k] # Kept}
  <2>1. T = {}
    <3>1. SUFFICES ASSUME T # {} PROVE FALSE
      OBVIOUS
    <3>2. PICK m \in T : \A n \in T : m <= n
      <4>1. T \subseteq Nat
        OBVIOUS
      <4> HIDE DEF T
      <4> QED
        BY <3>1, <4>1, LeastIndex
    <3>3. m \in 0..Len(skip) /\ refreshSkiplist[m] # Kept /\ Len(skip) \in Nat
      OBVIOUS
    <3>4. m # 0
      BY <3>3, RefreshEquation
    <3>5. m - 1 \in 0..Len(skip) /\ m - 1 \notin T /\ m \in DOMAIN skip
      <4>1. m \in Nat /\ m - 1 \in 0..Len(skip) /\ m \in 1..Len(skip)
        BY <3>3, <3>4
      <4>2. m - 1 \notin T
        <5>1. m \in Nat /\ \A n \in T : m <= n
          BY <3>2, <4>1
        <5> HIDE DEF T
        <5> QED
          BY <5>1
      <4> QED
        BY <4>1, <4>2
    <3>6. refreshSkiplist[m-1] = Kept
      BY <3>5
    <3>7. refreshSkiplist[m] = RefreshItem(refreshSkiplist[m-1], m)
      BY <3>3, <3>4, RefreshEquation
    <3>8. ~Removable(skip[m])
      BY <1>1, <3>5 DEF RemovableItems
    <3> QED
      BY <3>3, <3>6, <3>7, <3>8 DEF RefreshItem
  <2>2. Len(skip) \in 0..Len(skip)
    OBVIOUS
  <2> QED
    BY <2>1, <2>2 DEF Refreshed
<1>2. ASSUME NEW i \in DOMAIN skip, RemovableItems = {i} PROVE Refreshed = Cut(i)
  <2> DEFINE T == {k \in 0..Len(skip) : refreshSkiplist[k] # After(k, i)}
  <2>0. i \in 1..Len(skip) /\ Len(skip) \in Nat
    OBVIOUS
  <2>1. T = {}
    <3>1. SUFFICES ASSUME T # {} PROVE FALSE
      OBVIOUS
    <3>2. PICK m \in T : \A n \in T : m <= n
      <4>1. T \subseteq Nat
        OBVIOUS
      <4> HIDE DEF T
      <4> QED
        BY <3>1, <4>1, LeastIndex
    <3>3. m \in 0..Len(skip) /\ refreshSkiplist[m] # After(m, i)
      OBVIOUS
    <3>4. m # 0
      <4>1. refreshSkiplist[0] = Kept
        <5>1. 0 \in 0..Len(skip)
          BY <2>0
        <5> QED
          BY <5>1, RefreshEquation, Zenon
      <4>2. After(0, i) = Kept
        BY <2>0
      <4> QED
        BY <3>3, <4>1, <4>2, Zenon
    <3>5. m - 1 \in 0..Len(skip) /\ m - 1 \notin T /\ m \in DOMAIN skip /\ m \in 1..Len(skip)
      <4>1. m \in Nat /\ m - 1 \in 0..Len(skip) /\ m \in 1..Len(skip)
        BY <2>0, <3>3, <3>4
      <4>2. m - 1 \notin T
        <5>1. m \in Nat /\ \A n \in T : m <= n
          BY <3>2, <4>1
        <5> HIDE DEF T
        <5> QED
          BY <5>1
      <4> QED
        BY <4>1, <4>2
    <3>6. refreshSkiplist[m-1] = After(m - 1, i)
      BY <3>5
    <3>7. refreshSkiplist[m] = RefreshItem(refreshSkiplist[m-1], m)
      BY <3>3, <3>4, RefreshEquation
    <3>8. Removable(skip[m]) <=> m = i
      BY <1>2, <3>5 DEF RemovableItems
    <3>9. CASE m < i
      BY <2>0, <3>3, <3>5, <3>6, <3>7, <3>8, <3>9 DEF RefreshItem
    <3>10. CASE m = i
      <4>1. refreshSkiplist[m-1] = Kept /\ ~(m > Len(skip))
        BY <2>0, <3>5, <3>6, <3>10
      <4>2. RefreshItem(Kept, m) = [Kept EXCEPT !.list = removeIndex(skip, m)]
        BY <3>8, <3>10, <4>1 DEF RefreshItem
      <4>3. [Kept EXCEPT !.list = removeIndex(skip, m)] = Cut(i)
        <5> DEFINE new == RemoveAt(skip, i)
        <5>1. removeIndex(skip, m) = new
          BY <3>10, Zenon DEF removeIndex
        <5> HIDE DEF new
        <5>2. new \in Seq(SkipItem)
          BY <2>0, <5>1, <3>10, RemovingKeepsDistinct
        <5>3. Kept \in [panic : BOOLEAN, list : Seq(SkipItem)] /\ Kept.panic = FALSE
          OBVIOUS
        <5>4. [Kept EXCEPT !.list = new] = [panic |-> FALSE, list |-> new]
          <6> DEFINE k == Kept
          <6>1. k \in [panic : BOOLEAN, list : Seq(SkipItem)] /\ k.panic = FALSE
            BY <5>3
          <6> HIDE DEF k
          <6>2. [k EXCEPT !.list = new] = [panic |-> k.panic, list |-> new]
            BY <5>2, <6>1, OtherListState, Zenon
          <6>3. [k EXCEPT !.list = new] = [panic |-> FALSE, list |-> new]
            BY <6>1, <6>2, Zenon
          <6> QED
            BY <6>3, Zenon DEF k
        <5> QED
          BY <5>1, <5>4, Zenon DEF new
      <4>4. After(m, i) = Cut(i)
        BY <2>0, <3>10
      <4> QED
        BY <3>3, <3>7, <4>1, <4>2, <4>3, <4>4
    <3>11. CASE m > i
      <4>1. refreshSkiplist[m-1] = Cut(i) /\ After(m, i) = Cut(i) /\ m # i
        BY <2>0, <3>5, <3>6, <3>11
      <4>2. RefreshItem(Cut(i), m) = Cut(i)
        BY <3>8, <4>1, Zenon DEF RefreshItem
      <4> QED
        BY <3>3, <3>7, <4>1, <4>2
    <3> QED
      BY <2>0, <3>5, <3>9, <3>10, <3>11
  <2>2. Len(skip) \in 0..Len(skip) /\ ~(Len(skip) < i)
    BY <2>0
  <2> QED
    BY <2>1, <2>2 DEF Refreshed
<1> QED
  BY <1>1, <1>2

(* The removable items of the list up to an index, and how many.            *)
RemovableUpto(i) == {j \in RemovableItems : j <= i}

BeyondTheEnd(j) == j > Len(skip) - RemovedBefore(j)

(* After i items the refresh has panicked just if one of them was beyond    *)
(* the end; otherwise it has removed one item for each.                     *)
CountsUpto(i, r) ==
  /\ r \in RefreshStates
  /\ r.panic = TRUE => \E j \in RemovableUpto(i) : BeyondTheEnd(j)
  /\ r.panic = FALSE => /\ \A j \in RemovableUpto(i) : ~BeyondTheEnd(j)
                        /\ Len(r.list) = Len(skip) - Cardinality(RemovableUpto(i))

LEMMA UptoTheNext ==
  ASSUME skip \in Seq(SkipItem), NEW i \in 1..Len(skip)
  PROVE  /\ ~Removable(skip[i]) => RemovableUpto(i) = RemovableUpto(i-1)
         /\ Removable(skip[i]) => /\ RemovableUpto(i) = RemovableUpto(i-1) \cup {i}
                                  /\ Cardinality(RemovableUpto(i)) = Cardinality(RemovableUpto(i-1)) + 1
         /\ Cardinality(RemovableUpto(i-1)) \in Nat
         /\ RemovedBefore(i) = Cardinality(RemovableUpto(i-1))
<1>1. RemovableItems \subseteq 1..Len(skip) /\ Len(skip) \in Nat
      /\ (i \in RemovableItems <=> Removable(skip[i]))
  BY DEF RemovableItems
<1>2. IsFiniteSet(RemovableUpto(i-1)) /\ i \notin RemovableUpto(i-1)
  <2>1. IsFiniteSet(1..Len(skip))
    BY <1>1, FS_Interval, SMT
  <2>2. RemovableUpto(i-1) \subseteq 1..Len(skip)
    BY <1>1 DEF RemovableUpto
  <2>3. IsFiniteSet(RemovableUpto(i-1))
    BY <2>1, <2>2, FS_Subset
  <2> QED
    BY <1>1, <2>3 DEF RemovableUpto
<1>0. ASSUME NEW j \in RemovableItems
      PROVE  /\ (j <= i) <=> (j <= i-1 \/ j = i)
             /\ (j < i) <=> (j <= i-1)
  <2>1. j \in Int /\ i \in Int
    BY <1>1
  <2> QED
    BY <2>1
<1>3. ~Removable(skip[i]) => RemovableUpto(i) = RemovableUpto(i-1)
  BY <1>0, <1>1, Zenon DEF RemovableUpto
<1>4. Removable(skip[i]) => RemovableUpto(i) = RemovableUpto(i-1) \cup {i}
  <2> SUFFICES ASSUME Removable(skip[i]) PROVE RemovableUpto(i) = RemovableUpto(i-1) \cup {i}
    OBVIOUS
  <2>1. i \in RemovableItems /\ i <= i
    BY <1>1
  <2>2. \A j : j \in RemovableUpto(i) => j \in RemovableUpto(i-1) \/ j = i
    BY <1>0, Zenon DEF RemovableUpto
  <2>3. \A j : j \in RemovableUpto(i-1) \/ j = i => j \in RemovableUpto(i)
    BY <1>0, <2>1, Zenon DEF RemovableUpto
  <2> QED
    BY <2>2, <2>3, Zenon
<1>5. {j \in RemovableItems : j < i} = RemovableUpto(i-1)
  BY <1>0, Zenon DEF RemovableUpto
<1> HIDE DEF RemovableUpto
<1>6. Cardinality(RemovableUpto(i-1) \cup {i}) = Cardinality(RemovableUpto(i-1)) + 1
  BY <1>2, FS_AddElement
<1>7. Cardinality(RemovableUpto(i-1)) \in Nat
  BY <1>2, FS_CardinalityType
<1> QED
  BY <1>3, <1>4, <1>5, <1>6, <1>7 DEF RemovedBefore

(* One item further.                                                        *)
LEMMA RefreshItemCounts ==
  ASSUME skip \in Seq(SkipItem), NEW i \in 1..Len(skip), NEW r, CountsUpto(i-1, r)
  PROVE  CountsUpto(i, RefreshItem(r, i))
<1> DEFINE next == RefreshItem(r, i)
<1> SUFFICES CountsUpto(i, next)
  OBVIOUS
<1>1. r \in RefreshStates /\ r.list \in Seq(SkipItem) /\ Len(r.list) \in Nat
      /\ (r.panic = TRUE \/ r.panic = FALSE) /\ Len(skip) \in Nat
  BY DEF CountsUpto, RefreshStates
<1>2. next \in RefreshStates
  BY <1>1, RefreshItemKeeps
<1>3. CASE r.panic = TRUE
  <2>1. next = r
    BY <1>3 DEF RefreshItem
  <2>2. RemovableUpto(i-1) \subseteq RemovableUpto(i)
    BY DEF RemovableUpto, RemovableItems
  <2> HIDE DEF next
  <2> QED
    BY <1>2, <1>3, <2>1, <2>2 DEF CountsUpto
<1>4. CASE r.panic = FALSE /\ ~Removable(skip[i])
  <2>1. next = r
    BY <1>4 DEF RefreshItem
  <2>2. RemovableUpto(i) = RemovableUpto(i-1)
    BY <1>4, UptoTheNext
  <2> HIDE DEF next
  <2> QED
    BY <1>2, <2>1, <2>2 DEF CountsUpto
<1>5. CASE r.panic = FALSE /\ Removable(skip[i])
  <2>1. /\ \A j \in RemovableUpto(i-1) : ~BeyondTheEnd(j)
        /\ Len(r.list) = Len(skip) - Cardinality(RemovableUpto(i-1))
    BY <1>5 DEF CountsUpto
  <2>2. /\ RemovableUpto(i) = RemovableUpto(i-1) \cup {i}
        /\ Cardinality(RemovableUpto(i)) = Cardinality(RemovableUpto(i-1)) + 1
        /\ Cardinality(RemovableUpto(i-1)) \in Nat
        /\ RemovedBefore(i) = Cardinality(RemovableUpto(i-1))
    BY <1>5, UptoTheNext
  <2>3. BeyondTheEnd(i) <=> i > Len(r.list)
    BY <2>1, <2>2 DEF BeyondTheEnd
  <2>4. CASE i > Len(r.list)
    <3>1. next = [r EXCEPT !.panic = TRUE]
      BY <1>5, <2>4, Zenon DEF RefreshItem
    <3>2. next.panic = TRUE
      BY <1>1, <3>1 DEF RefreshStates
    <3> HIDE DEF next
    <3> QED
      BY <1>2, <2>2, <2>3, <2>4, <3>2 DEF CountsUpto
  <2>5. CASE ~(i > Len(r.list))
    <3>1. next = [r EXCEPT !.list = removeIndex(r.list, i)]
      BY <1>5, <2>5, Zenon DEF RefreshItem
    <3>2. /\ removeIndex(r.list, i) \in Seq(SkipItem)
          /\ Len(removeIndex(r.list, i)) = Len(r.list) - 1
      <4>1. i \in 1..Len(r.list)
        BY <1>1, <2>5
      <4> QED
        BY <1>1, <4>1, RemovingKeepsDistinct
    <3>3. next.panic = FALSE /\ next.list = removeIndex(r.list, i)
      BY <1>1, <1>5, <3>1 DEF RefreshStates
    <3> HIDE DEF next
    <3>4. Len(next.list) = Len(skip) - Cardinality(RemovableUpto(i))
      BY <1>1, <2>1, <2>2, <3>2, <3>3
    <3> QED
      BY <1>2, <2>1, <2>2, <2>3, <2>5, <3>3, <3>4 DEF CountsUpto
  <2> QED
    BY <2>4, <2>5
<1> QED
  BY <1>1, <1>3, <1>4, <1>5

(* When the whole list has been gone through.                               *)
LEMMA RefreshedCounts ==
  ASSUME skip \in Seq(SkipItem)
  PROVE  CountsUpto(Len(skip), Refreshed)
<1> DEFINE T == {i \in 0..Len(skip) : ~CountsUpto(i, refreshSkiplist[i])}
<1>1. SUFFICES ASSUME T # {} PROVE FALSE
  <2>1. Len(skip) \in 0..Len(skip)
    OBVIOUS
  <2> QED
    BY <2>1 DEF Refreshed
<1>2. PICK m \in T : \A n \in T : m <= n
  <2>1. T \subseteq Nat
    OBVIOUS
  <2> HIDE DEF T
  <2> QED
    BY <1>1, <2>1, LeastIndex
<1>3. m \in 0..Len(skip) /\ ~CountsUpto(m, refreshSkiplist[m]) /\ Len(skip) \in Nat
  OBVIOUS
<1>4. CASE m = 0
  <2> DEFINE r == [panic |-> FALSE, list |-> skip]
  <2>1. refreshSkiplist[0] = r
    BY <1>3, <1>4, RefreshEquation
  <2>2. RemovableUpto(0) = {} /\ Cardinality(RemovableUpto(0)) = 0
    <3>1. RemovableUpto(0) = {}
      BY DEF RemovableUpto, RemovableItems
    <3> QED
      BY <3>1, FS_EmptySet
  <2>3. CountsUpto(0, r)
    BY <1>3, <2>2 DEF CountsUpto, RefreshStates
  <2> QED
    BY <1>3, <1>4, <2>1, <2>3
<1>5. CASE m # 0
  <2>1. m - 1 \in 0..Len(skip) /\ m - 1 \notin T /\ m \in 1..Len(skip)
    BY <1>2, <1>3, <1>5
  <2>2. CountsUpto(m-1, refreshSkiplist[m-1])
    BY <2>1
  <2>3. refreshSkiplist[m] = RefreshItem(refreshSkiplist[m-1], m)
    BY <1>3, <1>5, RefreshEquation
  <2>4. CountsUpto(m, RefreshItem(refreshSkiplist[m-1], m))
    BY <2>1, <2>2, RefreshItemCounts
  <2> QED
    BY <1>3, <2>3, <2>4
<1> QED
  BY <1>4, <1>5

-----------------------------------------------------------------------------
(* The invariant: what is about to be patched is not on the list, so that   *)
(* the patches, done one by one, add no duplicate.                          *)
Pass ==
  /\ todo \in Seq([node : Nodes, diff : Diffs])
  /\ DOMAIN seen \subseteq Pods /\ DOMAIN updates \subseteq DOMAIN seen
  /\ \A p \in DOMAIN seen : seen[p] \in 0..MaxLimit
  /\ step \in {"query", "refresh", "list", "patch", "panicked"}
  /\ step = "patch" <=> updates # NoUpdates
  /\ step \in {"refresh", "list", "patch"} => todo # <<>>

NoneSkipped ==
  \A p \in DOMAIN updates : \A i \in 1..Len(skip) : skip[i].pod # p

SelfDrivingInv ==
  /\ phase \in [Pods -> Phases]
  /\ limit \in [Pods -> 0..MaxLimit]
  /\ counted \subseteq Nodes
  /\ skip \in Seq(SkipItem)
  /\ Pass
  /\ Distinct(skip)
  /\ NoneSkipped

LEMMA TailsStay ==
  ASSUME NEW S, NEW s \in Seq(S), s # <<>>
  PROVE  Tail(s) \in Seq(S)
OBVIOUS

LEMMA OneItemChanged ==
  ASSUME NEW S, NEW s \in Seq(S), NEW i \in 1..Len(s), NEW x \in S
  PROVE  /\ [s EXCEPT ![i] = x] \in Seq(S)
         /\ Len([s EXCEPT ![i] = x]) = Len(s)
         /\ \A j \in 1..Len(s) : [s EXCEPT ![i] = x][j] = IF j = i THEN x ELSE s[j]
OBVIOUS

LEMMA NoUpdatesHasNoPods == DOMAIN NoUpdates = {}
BY DEF NoUpdates

(* Going on to the next node forgets the updates.                           *)
LEMMA NextNodePasses ==
  ASSUME NEW s \in Seq([node : Nodes, diff : Diffs]), NextNode(s)
  PROVE  Pass' /\ NoneSkipped'
<1>1. /\ todo' = s /\ seen' = NoUpdates /\ updates' = NoUpdates
      /\ step' \in {"query", "refresh"}
      /\ step' = "refresh" => s # <<>>
  BY DEF NextNode
<1>2. Pass'
  <2>1. (step' = "patch" <=> updates' # NoUpdates)
    BY <1>1
  <2>2. /\ DOMAIN seen' \subseteq Pods /\ DOMAIN updates' \subseteq DOMAIN seen'
        /\ \A p \in DOMAIN seen' : seen'[p] \in 0..MaxLimit
    BY <1>1, NoUpdatesHasNoPods
  <2>3. step' \in {"refresh", "list", "patch"} => todo' # <<>>
    BY <1>1
  <2> QED
    BY <1>1, <2>1, <2>2, <2>3 DEF Pass
<1>3. NoneSkipped'
  BY <1>1, NoUpdatesHasNoPods DEF NoneSkipped
<1> QED
  BY <1>2, <1>3

LEMMA InitInv == Init => SelfDrivingInv
<1> SUFFICES ASSUME Init PROVE SelfDrivingInv
  OBVIOUS
<1>1. Pass /\ NoneSkipped
  BY NoUpdatesHasNoPods DEF Init, Pass, NoneSkipped
<1>2. skip \in Seq(SkipItem) /\ Distinct(skip)
  BY DEF Init, Distinct
<1>3. phase \in [Pods -> Phases] /\ limit \in [Pods -> 0..MaxLimit]
  BY SelfDrivingAssumption DEF Init, Phases
<1>4. counted \subseteq Nodes
  BY DEF Init
<1> QED
  BY <1>1, <1>2, <1>3, <1>4 DEF SelfDrivingInv

(* The nodes in violation, in some order.                                   *)
LEMMA QueryInv ==
  ASSUME SelfDrivingInv, NEW n \in SUBSET Nodes, NEW diffs \in [n -> Diffs],
         NEW counts \in SUBSET Nodes, Query(diffs, counts)
  PROVE  SelfDrivingInv'
<1> DEFINE S == InViolation(diffs)
<1>1. PICK order \in SetToSeqs(S) :
        NextNode([i \in DOMAIN order |-> [node |-> order[i], diff |-> diffs[order[i]]]])
  BY DEF Query
<1>2. S \subseteq n /\ IsFiniteSet(S)
  <2>1. S \subseteq n
    BY DEF InViolation
  <2> QED
    BY <2>1, FS_Subset, SelfDrivingAssumption
<1> HIDE DEF S
<1>3. Cardinality(S) \in Nat
  BY <1>2, FS_CardinalityType
<1>4. order \in [1..Cardinality(S) -> S]
  BY <1>1 DEF SetToSeqs
<1> DEFINE k == Cardinality(S)
<1>5. k \in Nat /\ order \in [1..k -> S]
  BY <1>3, <1>4
<1> HIDE DEF k
<1>6. \A i \in 1..k : [node |-> order[i], diff |-> diffs[order[i]]] \in [node : Nodes, diff : Diffs]
  BY <1>2, <1>5
<1>7. [i \in DOMAIN order |-> [node |-> order[i], diff |-> diffs[order[i]]]]
        \in Seq([node : Nodes, diff : Diffs])
  BY <1>5, <1>6
<1>8. Pass' /\ NoneSkipped'
  BY <1>1, <1>7, NextNodePasses
<1>9. UNCHANGED <<phase, limit, skip>> /\ counted' \subseteq Nodes
  BY DEF Query, podVars
<1> QED
  BY <1>8, <1>9 DEF SelfDrivingInv, Distinct

(* The candidates are not on the list.                                      *)
LEMMA ListPodsInv ==
  ASSUME SelfDrivingInv, ListPods
  PROVE  SelfDrivingInv'
<1> DEFINE node == Head(todo)
           pods == Candidates(node.node)
           deltas == Deltas(node.node, pods, node.diff)
           changed == {p \in DOMAIN deltas : deltas[p].num # 0}
<1>1. /\ step = "list"
      /\ IF changed = {} THEN NextNode(Tail(todo))
         ELSE /\ seen' = [p \in pods |-> limit[p]]
              /\ updates' = [p \in changed |-> deltas[p]]
              /\ step' = "patch"
              /\ todo' = todo
      /\ UNCHANGED <<podVars, skip, counted>>
  BY DEF ListPods
<1>2. pods \subseteq Pods /\ \A p \in pods : \A i \in DOMAIN skip : skip[i].pod # p
  BY DEF Candidates, shouldSkipPod
<1>3. DOMAIN deltas \subseteq pods
  BY Zenon DEF Deltas
<1>4. changed \subseteq pods
  BY <1>3
<1> HIDE DEF changed, deltas, pods, node
<1>5. Pass' /\ NoneSkipped'
  <2>1. CASE changed = {}
    <3>1. Tail(todo) \in Seq([node : Nodes, diff : Diffs])
      BY <1>1, TailsStay DEF SelfDrivingInv, Pass
    <3> QED
      BY <1>1, <2>1, <3>1, NextNodePasses
  <2>2. CASE changed # {}
    <3>1. /\ seen' = [p \in pods |-> limit[p]] /\ updates' = [p \in changed |-> deltas[p]]
          /\ step' = "patch" /\ todo' = todo /\ skip' = skip
      BY <1>1, <2>2
    <3>2. DOMAIN seen' = pods /\ DOMAIN updates' = changed
      BY <3>1
    <3>3. updates' # NoUpdates
      BY <2>2, <3>2, NoUpdatesHasNoPods
    <3>4. DOMAIN skip = 1..Len(skip)
      BY DEF SelfDrivingInv
    <3>5. todo \in Seq([node : Nodes, diff : Diffs]) /\ todo # <<>>
      BY <1>1 DEF SelfDrivingInv, Pass
    <3>6. (step' = "patch" <=> updates' # NoUpdates)
      BY <3>1, <3>3
    <3>9. \A p \in DOMAIN seen' : seen'[p] \in 0..MaxLimit
      BY <1>2, <3>1, <3>2 DEF SelfDrivingInv
    <3>7. Pass'
      BY <1>2, <1>4, <3>1, <3>2, <3>5, <3>6, <3>9 DEF Pass
    <3>8. NoneSkipped'
      BY <1>2, <1>4, <3>1, <3>2, <3>4 DEF NoneSkipped
    <3> QED
      BY <3>7, <3>8
  <2> QED
    BY <2>1, <2>2
<1> QED
  BY <1>1, <1>5 DEF SelfDrivingInv, Distinct, podVars

(* A patched pod is put on the list and is to be patched no more.           *)
LEMMA PatchInv ==
  ASSUME SelfDrivingInv, NEW p \in DOMAIN updates, Patched(p) \/ PatchReplyLost(p)
  PROVE  SelfDrivingInv'
<1>0. /\ p \in Pods /\ skip \in Seq(SkipItem) /\ limit \in [Pods -> 0..MaxLimit]
      /\ Pass /\ Distinct(skip) /\ NoneSkipped /\ todo \in Seq([node : Nodes, diff : Diffs])
  BY DEF SelfDrivingInv, Pass
<1>1. limit' \in [Pods -> 0..MaxLimit] /\ phase' = phase /\ counted' = counted
  <2>1. \E new \in 0..MaxLimit : limit' = [limit EXCEPT ![p] = new]
    BY DEF Patched, PatchReplyLost, Patch
  <2>2. phase' = phase /\ counted' = counted
    BY DEF Patched, PatchReplyLost
  <2> QED
    BY <1>0, <2>1, <2>2
<1>2. <<>> \in Seq([node : Nodes, diff : Diffs])
      /\ Tail(todo) \in Seq([node : Nodes, diff : Diffs])
  <2>1. todo # <<>>
    BY <1>0 DEF Pass, Patched, PatchReplyLost, Patch
  <2> QED
    BY <1>0, <2>1, TailsStay
<1>3. CASE PatchReplyLost(p)
  <2>1. NextNode(<<>>) /\ skip' = skip
    BY <1>3 DEF PatchReplyLost
  <2>2. Pass' /\ NoneSkipped'
    BY <1>2, <2>1, NextNodePasses
  <2> QED
    BY <1>0, <1>1, <2>1, <2>2 DEF SelfDrivingInv, Distinct
<1>4. CASE Patched(p)
  <2> DEFINE item == [pod |-> p, old |-> FALSE]
  <2>1. skip' = Append(skip, item) /\ step = "patch"
    BY <1>4 DEF Patched, Patch
  <2>2. item \in SkipItem
    BY <1>0 DEF SkipItem
  <2> HIDE DEF item
  <2>3. /\ skip' \in Seq(SkipItem) /\ Len(skip') = Len(skip) + 1 /\ Len(skip) \in Nat
        /\ \A i \in 1..Len(skip) : skip'[i] = skip[i]
        /\ skip'[Len(skip) + 1] = item
    BY <1>0, <2>1, <2>2
  <2>4. \A i \in 1..Len(skip) : skip[i].pod # p
    BY <1>0 DEF NoneSkipped
  <2>5. item.pod = p
    BY DEF item
  <2>6. Distinct(skip')
    <3>1. SUFFICES ASSUME NEW i \in 1..Len(skip'), NEW j \in 1..Len(skip'),
                          skip'[i].pod = skip'[j].pod
                   PROVE  i = j
      BY DEF Distinct
    <3>2. \A k \in 1..Len(skip') : k \in 1..Len(skip) \/ k = Len(skip) + 1
      BY <2>3
    <3> QED
      BY <1>0, <2>3, <2>4, <2>5, <3>1, <3>2 DEF Distinct
  <2>7. Pass' /\ NoneSkipped'
    <3>1. CASE DOMAIN updates = {p}
      <4>1. NextNode(Tail(todo))
        BY <1>4, <3>1 DEF Patched
      <4> QED
        BY <1>2, <4>1, NextNodePasses
    <3>2. CASE DOMAIN updates # {p}
      <4>1. /\ updates' = [q \in DOMAIN updates \ {p} |-> updates[q]]
            /\ step' = step /\ todo' = todo /\ seen' = seen
        BY <1>4, <3>2 DEF Patched
      <4>2. DOMAIN updates' = DOMAIN updates \ {p} /\ DOMAIN updates' # {}
        BY <3>2, <4>1
      <4>3. updates' # NoUpdates
        BY <4>2, NoUpdatesHasNoPods
      <4>4. Pass'
        BY <1>0, <2>1, <4>1, <4>2, <4>3 DEF Pass
      <4>5. NoneSkipped'
        <5>1. SUFFICES ASSUME NEW q \in DOMAIN updates', NEW i \in 1..Len(skip')
                       PROVE  skip'[i].pod # q
          BY DEF NoneSkipped
        <5>2. q \in DOMAIN updates /\ q # p
          BY <4>2
        <5>3. i \in 1..Len(skip) \/ i = Len(skip) + 1
          BY <2>3
        <5> QED
          BY <1>0, <2>3, <2>5, <5>2, <5>3 DEF NoneSkipped
      <4> QED
        BY <4>4, <4>5
    <3> QED
      BY <3>1, <3>2
  <2> QED
    BY <1>0, <1>1, <2>3, <2>6, <2>7 DEF SelfDrivingInv
<1> QED
  BY <1>3, <1>4

LEMMA NextInv == SelfDrivingInv /\ [Next]_vars => SelfDrivingInv'
<1> SUFFICES ASSUME SelfDrivingInv, [Next]_vars PROVE SelfDrivingInv'
  OBVIOUS
<1>0. /\ phase \in [Pods -> Phases] /\ limit \in [Pods -> 0..MaxLimit] /\ counted \subseteq Nodes
      /\ skip \in Seq(SkipItem) /\ Pass /\ Distinct(skip) /\ NoneSkipped
      /\ <<>> \in Seq([node : Nodes, diff : Diffs])
  BY DEF SelfDrivingInv
<1>1. ASSUME NEW p \in Pods, Ages(p) PROVE SelfDrivingInv'
  <2>1. phase' \in [Pods -> Phases]
    BY <1>0, <1>1 DEF Ages, Phases
  <2>2. UNCHANGED <<limit, skip, step, counted, todo, seen, updates>>
    BY <1>1 DEF Ages, passVars
  <2> QED
    BY <1>0, <2>1, <2>2 DEF SelfDrivingInv, Pass, Distinct, NoneSkipped
<1>2. ASSUME NEW p \in Pods, NEW new \in Limits, PatchWorkload(p, new) PROVE SelfDrivingInv'
  <2>1. limit' \in [Pods -> 0..MaxLimit]
    BY <1>0, <1>2, SelfDrivingAssumption DEF PatchWorkload
  <2>2. UNCHANGED <<phase, skip, step, counted, todo, seen, updates>>
    BY <1>2 DEF PatchWorkload, passVars
  <2> QED
    BY <1>0, <2>1, <2>2 DEF SelfDrivingInv, Pass, Distinct, NoneSkipped
<1>3. ASSUME NEW i \in DOMAIN skip, Expires(i) PROVE SelfDrivingInv'
  <2>1. skip' = [skip EXCEPT ![i].old = TRUE] /\ i \in 1..Len(skip)
    BY <1>0, <1>3 DEF Expires
  <2>2. /\ skip' \in Seq(SkipItem) /\ Len(skip') = Len(skip)
        /\ \A j \in 1..Len(skip) : skip'[j].pod = skip[j].pod
    <3>1. \A j \in 1..Len(skip) : [skip[j] EXCEPT !.old = TRUE] \in SkipItem
      <4>1. \A item \in SkipItem : [item EXCEPT !.old = TRUE] \in SkipItem
        BY DEF SkipItem
      <4> QED
        BY <1>0, <4>1
    <3>2. \A j \in 1..Len(skip) : skip[j] \in SkipItem
      BY <1>0
    <3> DEFINE new == [skip[i] EXCEPT !.old = TRUE]
    <3>3. new \in SkipItem
      BY <2>1, <3>1
    <3>4. skip' = [skip EXCEPT ![i] = new]
      BY <2>1
    <3> HIDE DEF new
    <3>5. /\ skip' \in Seq(SkipItem) /\ Len(skip') = Len(skip)
          /\ \A j \in 1..Len(skip) : skip'[j] = IF j = i THEN new ELSE skip[j]
      <4>1. i \in 1..Len(skip) /\ skip \in Seq(SkipItem)
        BY <1>0, <2>1
      <4>2. /\ [skip EXCEPT ![i] = new] \in Seq(SkipItem)
            /\ Len([skip EXCEPT ![i] = new]) = Len(skip)
            /\ \A j \in 1..Len(skip) :
                 [skip EXCEPT ![i] = new][j] = IF j = i THEN new ELSE skip[j]
        BY <3>3, <4>1, OneItemChanged
      <4> QED
        BY <3>4, <4>2, Zenon
    <3>6. new.pod = skip[i].pod
      BY <2>1, <3>2 DEF SkipItem, new
    <3> QED
      BY <3>5, <3>6
  <2>3. UNCHANGED <<phase, limit, step, counted, todo, seen, updates>>
    BY <1>3 DEF Expires, podVars, passVars
  <2> QED
    BY <1>0, <2>2, <2>3 DEF SelfDrivingInv, Pass, Distinct, NoneSkipped
<1>4. ASSUME NEW n \in SUBSET Nodes, NEW diffs \in [n -> Diffs], NEW counts \in SUBSET Nodes,
             Query(diffs, counts)
      PROVE  SelfDrivingInv'
  BY <1>4, QueryInv
<1>5. CASE Refresh
  <2>1. /\ step = "refresh" /\ skip' = Refreshed.list /\ step' \in {"panicked", "list"}
        /\ UNCHANGED <<phase, limit, counted, todo, seen, updates>>
    BY <1>5 DEF Refresh, podVars, passVars
  <2>2. skip' \in Seq(SkipItem) /\ Distinct(skip')
    BY <1>0, <2>1, RefreshedIsDistinct DEF RefreshStates
  <2>3. updates = NoUpdates /\ updates' = NoUpdates
    BY <1>0, <2>1 DEF Pass
  <2>4. Pass' /\ NoneSkipped'
    BY <1>0, <2>1, <2>3, NoUpdatesHasNoPods DEF Pass, NoneSkipped
  <2> QED
    BY <1>0, <2>1, <2>2, <2>4 DEF SelfDrivingInv
<1>6. CASE ListPods
  BY <1>6, ListPodsInv
<1>7. ASSUME NEW p \in DOMAIN updates, Patched(p) \/ PatchReplyLost(p) PROVE SelfDrivingInv'
  BY <1>7, PatchInv
<1>8. CASE Fails
  <2>1. NextNode(<<>>) /\ UNCHANGED <<phase, limit, skip, counted>>
    BY <1>8 DEF Fails, podVars
  <2>2. Pass' /\ NoneSkipped'
    BY <1>0, <2>1, NextNodePasses
  <2> QED
    BY <1>0, <2>1, <2>2 DEF SelfDrivingInv, Distinct
<1>9. CASE Restart
  <2>1. NextNode(<<>>) /\ skip' = <<>> /\ UNCHANGED <<phase, limit, counted>>
    BY <1>9 DEF Restart, podVars
  <2>2. Pass' /\ NoneSkipped'
    BY <1>0, <2>1, NextNodePasses
  <2>3. skip' \in Seq(SkipItem) /\ Distinct(skip')
    BY <2>1 DEF Distinct
  <2> QED
    BY <1>0, <2>1, <2>2, <2>3 DEF SelfDrivingInv
<1>10. CASE UNCHANGED vars
  BY <1>0, <1>10 DEF vars, podVars, passVars, SelfDrivingInv, Pass, Distinct, NoneSkipped
<1> QED
  BY <1>1, <1>2, <1>3, <1>4, <1>5, <1>6, <1>7, <1>8, <1>9, <1>10 DEF Next, ReconcileStep

(* SelfDrivingInv holds in every reachable state.                           *)
THEOREM Invariance == Spec => []SelfDrivingInv
  BY InitInv, NextInv, PTL DEF Spec

(* Every variable keeps its type, the refresh of the skip list included.    *)
THEOREM TypeCorrect == Spec => []TypeOK
<1>1. SelfDrivingInv => TypeOK
  BY DEF SelfDrivingInv, Pass, TypeOK
<1> QED
  BY <1>1, Invariance, PTL

(* No pod is twice on the skip list, which is therefore no longer than the  *)
(* number of pods, whatever errors, lost replies and wrong removals there   *)
(* were (selfdriving.go addPodToSkipList, refreshSkiplist).                 *)
THEOREM SkipsAreDistinct == Spec => []NoDuplicateSkips
<1>1. SelfDrivingInv => NoDuplicateSkips
  BY DEF SelfDrivingInv, Distinct, NoDuplicateSkips
<1> QED
  BY <1>1, Invariance, PTL

(* Nothing else leads from "refresh" to "list" or "panicked".               *)
LEMMA OnlyRefreshRefreshes ==
  ASSUME SelfDrivingInv, [Next]_vars, step = "refresh", step' \in {"list", "panicked"}
  PROVE  /\ skip \in Seq(SkipItem)
         /\ skip' = Refreshed.list
         /\ step' = IF Refreshed.panic THEN "panicked" ELSE "list"
<1>1. ASSUME NEW left, NextNode(left) PROVE step' \in {"query", "refresh"}
  BY <1>1 DEF NextNode
<1>2. Refresh
  BY <1>1
  DEF Next, ReconcileStep, vars, podVars, passVars, Ages, PatchWorkload, Expires, Query,
      ListPods, Patched, PatchReplyLost, Patch, Fails, Restart
<1> QED
  BY <1>2 DEF Refresh, SelfDrivingInv

(* One item that has expired, or whose pod has completed, is removed from   *)
(* the list, and nothing else, without a panic (selfdriving.go              *)
(* refreshSkiplist); with two this fails.                                   *)
THEOREM OneExpiryRemovesIt == Spec => OneExpiryIsExact
<1>1. ASSUME SelfDrivingInv, [Next]_vars,
             step = "refresh", step' \in {"list", "panicked"}
      PROVE  /\ RemovableItems = {} => step' = "list" /\ skip' = skip
             /\ \A i \in DOMAIN skip :
                  RemovableItems = {i} => step' = "list" /\ skip' = RemoveAt(skip, i)
  BY <1>1, OnlyRefreshRefreshes, RefreshedIsExact
<1>2. SelfDrivingInv /\ [Next]_vars =>
        [step = "refresh" /\ step' \in {"list", "panicked"} =>
           /\ RemovableItems = {} => step' = "list" /\ skip' = skip
           /\ \A i \in DOMAIN skip :
                RemovableItems = {i} => step' = "list" /\ skip' = RemoveAt(skip, i)]_vars
  BY <1>1
<1> QED
  BY <1>2, Invariance, PTL DEF Spec, OneExpiryIsExact

(* Which skip lists a refresh panics on, and how many items it removes from *)
(* the others, for a list of any length (selfdriving.go 119-140).           *)
THEOREM PanicsJustBeyondTheEnd == Spec => PanicsBeyondTheEnd
<1> DEFINE Claim ==
      /\ (step' = "panicked") <=>
           (\E i \in RemovableItems : i > Len(skip) - RemovedBefore(i))
      /\ step' = "list" => Len(skip') = Len(skip) - Cardinality(RemovableItems)
<1>1. ASSUME SelfDrivingInv, [Next]_vars,
             step = "refresh", step' \in {"list", "panicked"}
      PROVE  Claim
  <2>1. /\ skip \in Seq(SkipItem) /\ skip' = Refreshed.list
        /\ step' = IF Refreshed.panic THEN "panicked" ELSE "list"
    BY <1>1, OnlyRefreshRefreshes
  <2>2. CountsUpto(Len(skip), Refreshed)
    BY <2>1, RefreshedCounts
  <2>3. RemovableUpto(Len(skip)) = RemovableItems
    BY <2>1 DEF RemovableUpto, RemovableItems
  <2>4. Refreshed.panic = TRUE \/ Refreshed.panic = FALSE
    BY <2>2 DEF CountsUpto, RefreshStates
  <2>5. CASE Refreshed.panic = TRUE
    BY <2>1, <2>2, <2>3, <2>5 DEF CountsUpto, BeyondTheEnd
  <2>6. CASE Refreshed.panic = FALSE
    BY <2>1, <2>2, <2>3, <2>6 DEF CountsUpto, BeyondTheEnd
  <2> QED
    BY <2>4, <2>5, <2>6
<1>2. SelfDrivingInv /\ [Next]_vars =>
        [step = "refresh" /\ step' \in {"list", "panicked"} => Claim]_vars
  BY <1>1
<1> QED
  BY <1>2, Invariance, PTL DEF Spec, PanicsBeyondTheEnd

-----------------------------------------------------------------------------
(* The sum of the updates. *)

(* The sums that MapThenSumSet takes of the subsets of S, for a function of *)
(* its terms: h[T] is the sum over T.                                       *)
One(T) == CHOOSE x \in T : TRUE

Sums(h, f, S) ==
  h = [T \in SUBSET S |-> IF T = {} THEN 0 ELSE f[One(T)] + h[T \ {One(T)}]]

(* A nonempty set of subsets of a finite set has a smallest one.            *)
LEMMA SmallestSubset ==
  ASSUME NEW S, IsFiniteSet(S), NEW C, C \subseteq SUBSET S, C # {}
  PROVE  \E M \in C : \A T \in C : ~(T \subseteq M /\ T # M)
<1> DEFINE R == StrictSubsetOrdering(S)
<1>1. C \subseteq FiniteSubsetsOf(S)
  BY FS_Subset, Zenon DEF FiniteSubsetsOf
<1>2. IsWellFoundedOn(R, FiniteSubsetsOf(S))
  BY FS_StrictSubsetOrderingWellFounded
<1>3. \A A, B \in SUBSET S : B \subseteq A /\ B # A => <<B, A>> \in R
  BY Zenon DEF R, StrictSubsetOrdering
<1> HIDE DEF R
<1>4. PICK M \in C : \A T \in C : ~(<<T, M>> \in R)
  BY <1>1, <1>2, WFMin
<1> QED
  BY <1>3, <1>4

LEMMA OneIsAMember ==
  ASSUME NEW T, T # {}
  PROVE  One(T) \in T
BY DEF One

(* The sums exist: by recursion on the number of elements.                  *)
LEMMA SumsExist ==
  ASSUME NEW S, IsFiniteSet(S), NEW f \in [S -> Int]
  PROVE  \E h : Sums(h, f, S)
<1> DEFINE N == Cardinality(S)
           V == [SUBSET S -> Int]
           a == [T \in SUBSET S |-> 0]
           More(g) == [T \in SUBSET S |-> IF T = {} THEN 0 ELSE f[One(T)] + g[T \ {One(T)}]]
           step1 == [x \in V \X (1..N) |-> More(x[1])]
<1>1. N \in Nat
  BY FS_CardinalityType
<1>2. a \in V
  OBVIOUS
<1>3. ASSUME NEW g \in V PROVE More(g) \in V
  <2>1. ASSUME NEW T \in SUBSET S, T # {} PROVE f[One(T)] + g[T \ {One(T)}] \in Int
    <3>1. One(T) \in S /\ T \ {One(T)} \in SUBSET S
      BY <2>1, OneIsAMember
    <3>2. f[One(T)] \in Int /\ g[T \ {One(T)}] \in Int
      BY <1>3, <3>1
    <3> QED
      BY <3>2
  <2> QED
    BY <2>1
<1>4. step1 \in [V \X (1..N) -> V]
  <2> HIDE DEF More, V
  <2> QED
    BY <1>3
<1>5. PICK F : Unfolds(F, N, V, a, step1)
  <2> HIDE DEF step1, a, N, V
  <2> QED
    BY <1>1, <1>2, <1>4, RecursionExists, Zenon
<1>6. /\ F[0] = a
      /\ \A n \in 1..N : F[n] = More(F[n-1])
  <2>1. F \in [0..N -> V] /\ F[0] = a /\ \A n \in 1..N : F[n] = step1[<<F[n-1], n>>]
    BY <1>5, Zenon DEF Unfolds
  <2>2. ASSUME NEW n \in 1..N PROVE F[n] = More(F[n-1])
    <3>1. n - 1 \in 0..N
      BY <1>1
    <3> HIDE DEF More, V
    <3>2. F[n-1] \in V
      BY <2>1, <3>1, Zenon
    <3>3. step1[<<F[n-1], n>>] = More(F[n-1])
      BY <3>2
    <3> QED
      BY <2>1, <3>3, Zenon
  <2> QED
    BY <2>1, <2>2, Zenon
<1> DEFINE h == [T \in SUBSET S |-> F[Cardinality(T)][T]]
<1>7. h[{}] = 0
  BY <1>6, FS_EmptySet
<1>8. ASSUME NEW T \in SUBSET S, T # {}
      PROVE  h[T] = f[One(T)] + h[T \ {One(T)}]
  <2> DEFINE U == T \ {One(T)}
             n == Cardinality(T)
  <2>1. One(T) \in T /\ U \in SUBSET S /\ IsFiniteSet(T)
    BY <1>8, OneIsAMember, FS_Subset
  <2>2. n \in Nat /\ Cardinality(U) = n - 1 /\ n <= N
    BY <2>1, FS_RemoveElement, FS_CardinalityType, FS_Subset
  <2>3. Cardinality(U) \in Nat
    BY <2>1, FS_Subset, FS_CardinalityType
  <2>4. n \in 1..N
    BY <1>1, <2>2, <2>3
  <2>5. h[T] = More(F[n-1])[T]
    BY <1>6, <2>4
  <2>6. h[U] = F[n-1][U]
    BY <2>1, <2>2
  <2> QED
    BY <1>8, <2>5, <2>6
<1>9. h = More(h)
  <2>1. h = [T \in SUBSET S |-> h[T]]
    OBVIOUS
  <2> HIDE DEF h
  <2> QED
    BY <1>7, <1>8, <2>1
<1> HIDE DEF h
<1> QED
  BY <1>9, Zenon DEF Sums

(* The order in which the elements are taken does not matter.               *)
LEMMA SumsAdd ==
  ASSUME NEW S, IsFiniteSet(S), NEW f \in [S -> Int], NEW h, Sums(h, f, S)
  PROVE  /\ h[{}] = 0
         /\ \A T \in SUBSET S : h[T] \in Int
         /\ \A T \in SUBSET S : \A x \in T : h[T] = f[x] + h[T \ {x}]
<1> DEFINE Typed(T) == h[T] \in Int
           AnyOrder(T) == \A x \in T : h[T] = f[x] + h[T \ {x}]
           C == {T \in SUBSET S : ~(Typed(T) /\ AnyOrder(T))}
<1>0. h[{}] = 0 /\ \A T \in SUBSET S : T # {} => h[T] = f[One(T)] + h[T \ {One(T)}]
  <2> DEFINE Term(T) == IF T = {} THEN 0 ELSE f[One(T)] + h[T \ {One(T)}]
  <2>1. h = [T \in SUBSET S |-> Term(T)]
    BY Zenon DEF Sums
  <2>2. \A T \in SUBSET S : h[T] = Term(T)
    <3> HIDE DEF Term
    <3> QED
      BY <2>1
  <2> QED
    BY <2>2, {} \in SUBSET S, Zenon
<1>1. SUFFICES ASSUME C # {} PROVE FALSE
  BY <1>0
<1>2. PICK M \in C : \A T \in C : ~(T \subseteq M /\ T # M)
  <2>1. C \subseteq SUBSET S
    OBVIOUS
  <2> HIDE DEF C
  <2> QED
    BY <1>1, <2>1, SmallestSubset
<1>3. M \in SUBSET S /\ ~(Typed(M) /\ AnyOrder(M))
  OBVIOUS
<1>4. \A T \in SUBSET M : T # M => Typed(T) /\ AnyOrder(T)
  BY <1>2, <1>3
<1> HIDE DEF C
<1>5. M # {}
  <2>1. Typed({}) /\ AnyOrder({})
    BY <1>0
  <2> QED
    BY <1>3, <2>1, Zenon
<1> DEFINE y == One(M)
<1>6. y \in M /\ h[M] = f[y] + h[M \ {y}]
  BY <1>0, <1>3, <1>5, OneIsAMember, Zenon
<1> HIDE DEF y
<1>7. f[y] \in Int /\ h[M \ {y}] \in Int
  BY <1>3, <1>4, <1>6
<1>8. ASSUME NEW x \in M, x # y PROVE h[M] = f[x] + h[M \ {x}]
  <2> DEFINE U == (M \ {x}) \ {y}
  <2>1. U = (M \ {y}) \ {x}
    OBVIOUS
  <2>2. h[M \ {x}] = f[y] + h[U]
    <3>1. M \ {x} \in SUBSET M /\ M \ {x} # M /\ y \in M \ {x}
      BY <1>6, <1>8
    <3> QED
      BY <1>4, <3>1
  <2>3. h[M \ {y}] = f[x] + h[U]
    <3>1. M \ {y} \in SUBSET M /\ M \ {y} # M /\ x \in M \ {y}
      BY <1>6, <1>8
    <3> QED
      BY <1>4, <2>1, <3>1
  <2>4. h[U] \in Int /\ f[x] \in Int
    <3>1. U \in SUBSET M /\ U # M
      BY <1>6
    <3> QED
      BY <1>3, <1>4, <3>1
  <2> HIDE DEF U
  <2> QED
    BY <1>6, <1>7, <2>2, <2>3, <2>4
<1>9. h[M] \in Int
  BY <1>6, <1>7
<1> QED
  BY <1>3, <1>6, <1>8, <1>9

(* Terms that are all the same add their number times their value.          *)
LEMMA SumOfConstants ==
  ASSUME NEW S, IsFiniteSet(S), NEW f \in [S -> Int], NEW h, Sums(h, f, S)
  PROVE  \A A, B \in SUBSET S : \A c \in Int :
           A \cap B = {} /\ (\A x \in B : f[x] = c)
             => h[A \cup B] = h[A] + Cardinality(B) * c
<1> SUFFICES ASSUME NEW A \in SUBSET S, NEW B \in SUBSET S, A \cap B = {},
                    NEW c \in Int, \A x \in B : f[x] = c
             PROVE  h[A \cup B] = h[A] + Cardinality(B) * c
  OBVIOUS
<1> DEFINE Claim(T) == h[A \cup T] = h[A] + Cardinality(T) * c
           C == {T \in SUBSET B : ~Claim(T)}
<1>0. IsFiniteSet(B)
  BY FS_Subset
<1>1. SUFFICES ASSUME C # {} PROVE FALSE
  <2>1. B \in SUBSET B
    OBVIOUS
  <2> QED
    BY <2>1
<1>2. PICK M \in C : \A T \in C : ~(T \subseteq M /\ T # M)
  <2>1. C \subseteq SUBSET B
    OBVIOUS
  <2> HIDE DEF C
  <2> QED
    BY <1>0, <1>1, <2>1, SmallestSubset
<1>3. M \in SUBSET B /\ ~Claim(M)
  OBVIOUS
<1>4. \A T \in SUBSET M : T # M => Claim(T)
  BY <1>2, <1>3
<1> HIDE DEF C
<1>5. h[A] \in Int
  BY SumsAdd
<1>6. M # {}
  <2>1. A \cup {} = A
    OBVIOUS
  <2>2. Claim({})
    BY <1>5, <2>1, FS_EmptySet
  <2> QED
    BY <1>3, <2>2, Zenon
<1>7. PICK x \in M : TRUE
  BY <1>6
<1>8. h[A \cup M] = f[x] + h[(A \cup M) \ {x}] /\ f[x] = c
  <2>1. A \cup M \in SUBSET S /\ x \in A \cup M /\ x \in B
    BY <1>3
  <2> QED
    BY <2>1, SumsAdd
<1>9. (A \cup M) \ {x} = A \cup (M \ {x})
  BY <1>3
<1>10. h[A \cup (M \ {x})] = h[A] + Cardinality(M \ {x}) * c
  <2>1. M \ {x} \in SUBSET M /\ M \ {x} # M
    OBVIOUS
  <2> QED
    BY <1>4, <2>1
<1>11. IsFiniteSet(M) /\ Cardinality(M) \in Nat /\ Cardinality(M \ {x}) = Cardinality(M) - 1
  <2>1. IsFiniteSet(M)
    BY <1>0, <1>3, FS_Subset
  <2> QED
    BY <2>1, FS_CardinalityType, FS_RemoveElement
<1> DEFINE k == Cardinality(M)
<1>12. h[A \cup M] = c + (h[A] + (k - 1) * c) /\ k \in Nat /\ h[A] \in Int
  BY <1>5, <1>8, <1>9, <1>10, <1>11
<1>13. ~(h[A \cup M] = h[A] + k * c)
  BY <1>3
<1> HIDE DEF k
<1> QED
  BY <1>12, <1>13

(* A common factor of the terms is a factor of the sum.                     *)
LEMMA SumOfMultiples ==
  ASSUME NEW S, IsFiniteSet(S), NEW f \in [S -> Int], NEW h, Sums(h, f, S),
         NEW R, IsFiniteSet(R), NEW g \in [R -> Int], NEW k, Sums(k, g, R),
         NEW A \in SUBSET (S \cap R), NEW c \in Int, \A x \in A : f[x] = c * g[x]
  PROVE  h[A] = c * k[A]
<1> DEFINE Claim(T) == h[T] = c * k[T]
           C == {T \in SUBSET A : ~Claim(T)}
<1>0. IsFiniteSet(A)
  BY FS_Subset
<1>1. SUFFICES ASSUME C # {} PROVE FALSE
  <2>1. A \in SUBSET A
    OBVIOUS
  <2> QED
    BY <2>1
<1>2. PICK M \in C : \A T \in C : ~(T \subseteq M /\ T # M)
  <2>1. C \subseteq SUBSET A
    OBVIOUS
  <2> HIDE DEF C
  <2> QED
    BY <1>0, <1>1, <2>1, SmallestSubset
<1>3. M \in SUBSET A /\ ~Claim(M)
  OBVIOUS
<1>4. \A T \in SUBSET M : T # M => Claim(T)
  BY <1>2, <1>3
<1> HIDE DEF C
<1>5. M # {}
  <2>1. h[{}] = 0 /\ k[{}] = 0
    BY SumsAdd
  <2>2. Claim({})
    BY <2>1
  <2> QED
    BY <1>3, <2>2, Zenon
<1>6. PICK x \in M : TRUE
  BY <1>5
<1>7. h[M \ {x}] = c * k[M \ {x}]
  <2>1. M \ {x} \in SUBSET M /\ M \ {x} # M
    OBVIOUS
  <2> QED
    BY <1>4, <2>1
<1>8. M \in SUBSET S /\ M \in SUBSET R /\ M \ {x} \in SUBSET R
  BY <1>3
<1>9. h[M] = f[x] + h[M \ {x}]
  BY <1>8, SumsAdd
<1>10. k[M] = g[x] + k[M \ {x}] /\ k[M \ {x}] \in Int /\ g[x] \in Int
  BY <1>8, SumsAdd
<1>11. f[x] = c * g[x]
  BY <1>3
<1> DEFINE u == k[M \ {x}]
           v == g[x]
<1>12. h[M] = c * v + c * u /\ k[M] = v + u /\ u \in Int /\ v \in Int
  BY <1>7, <1>9, <1>10, <1>11
<1>13. ~(h[M] = c * k[M])
  BY <1>3
<1> HIDE DEF u, v
<1> QED
  BY <1>12, <1>13

(* Each use of MapThenSumSet by the model is such a sum.                    *)
LEMMA PartialSum ==
  ASSUME NEW S, \E h : Sums(h, [p \in S |-> Partial(p)], S)
  PROVE  \E h : /\ Sums(h, [p \in S |-> Partial(p)], S)
                /\ MapThenSumSet(Partial, S) = h[S]
<1> DEFINE f == [p \in S |-> Partial(p)]
           Body(h) == [T \in SUBSET S |-> IF T = {} THEN 0
                                          ELSE Partial(One(T)) + h[T \ {One(T)}]]
           sum == CHOOSE h : h = Body(h)
<1>1. MapThenSumSet(Partial, S) = sum[S]
  BY Zenon DEF MapThenSumSet, MapThenFoldSet, One
<1>2. \A h : h = Body(h) <=> Sums(h, f, S)
  <2>1. \A T \in SUBSET S : T # {} => f[One(T)] = Partial(One(T))
    BY OneIsAMember
  <2>2. ASSUME NEW h
        PROVE  Body(h) = [T \in SUBSET S |-> IF T = {} THEN 0 ELSE f[One(T)] + h[T \ {One(T)}]]
    <3> HIDE DEF f
    <3> QED
      BY <2>1
  <2> QED
    BY <2>2, Zenon DEF Sums
<1> HIDE DEF Body
<1>3. \E h : h = Body(h)
  BY <1>2, Zenon
<1>4. sum = Body(sum)
  BY <1>3, Zenon
<1> QED
  BY <1>1, <1>2, <1>4, Zenon

ScaledTerms(u, den, S) == [p \in S |-> u[p].num * (den \div u[p].den)]

ScaledTotal(u, den, S) ==
  LET Scaled(p) == u[p].num * (den \div u[p].den)
  IN  MapThenSumSet(Scaled, S)

LEMMA ScaledSum ==
  ASSUME NEW u, NEW den, NEW S,
         \E h : Sums(h, ScaledTerms(u, den, S), S)
  PROVE  \E h : /\ Sums(h, ScaledTerms(u, den, S), S)
                /\ ScaledTotal(u, den, S) = h[S]
<1> DEFINE Scaled(p) == u[p].num * (den \div u[p].den)
           f == ScaledTerms(u, den, S)
           Body(h) == [T \in SUBSET S |-> IF T = {} THEN 0
                                          ELSE Scaled(One(T)) + h[T \ {One(T)}]]
           sum == CHOOSE h : h = Body(h)
<1>1. ScaledTotal(u, den, S) = sum[S]
  BY Zenon DEF ScaledTotal, MapThenSumSet, MapThenFoldSet, One
<1>2. \A h : h = Body(h) <=> Sums(h, f, S)
  <2>1. \A T \in SUBSET S : T # {} => f[One(T)] = Scaled(One(T))
    BY OneIsAMember DEF ScaledTerms
  <2>2. ASSUME NEW h
        PROVE  Body(h) = [T \in SUBSET S |-> IF T = {} THEN 0 ELSE f[One(T)] + h[T \ {One(T)}]]
    <3> HIDE DEF f, Scaled
    <3> QED
      BY <2>1
  <2> QED
    BY <2>2, Zenon DEF Sums
<1> HIDE DEF Body
<1>3. \E h : h = Body(h)
  BY <1>2, Zenon
<1>4. sum = Body(sum)
  BY <1>3, Zenon
<1> QED
  BY <1>1, <1>2, <1>4, Zenon

LEMMA GreatestIsMax ==
  ASSUME NEW D, D \subseteq Int, NEW m \in D, \A y \in D : m >= y
  PROVE  Max(D) = m
<1>1. \A x \in D : (\A y \in D : x >= y) => x = m
  OBVIOUS
<1>2. \E x \in D : \A y \in D : x >= y
  OBVIOUS
<1>3. Max(D) \in D /\ \A y \in D : Max(D) >= y
  BY <1>2 DEF Max
<1> QED
  BY <1>1, <1>3

SumsTo(u, S, d) ==
  LET den == Max({u[p].den : p \in S}) IN ScaledTotal(u, den, S) = d * den

(* Every pod has the same share of the diff.                                *)
LEMMA SharesSumToDiff ==
  ASSUME NEW S, IsFiniteSet(S), S # {}, NEW d \in Int, NEW u,
         \A p \in S : u[p].num = d /\ u[p].den = Cardinality(S)
  PROVE  SumsTo(u, S, d)
<1> DEFINE m == Max({u[p].den : p \in S})
           K == Cardinality(S)
           f == ScaledTerms(u, m, S)
<1>1. K \in Nat /\ K # 0
  BY FS_CardinalityType, FS_EmptySet
<1>2. m = K
  <2>1. {u[p].den : p \in S} = {K}
    OBVIOUS
  <2> HIDE DEF K
  <2> QED
    BY <1>1, <2>1, GreatestIsMax
<1> HIDE DEF m
<1>4. f \in [S -> Int] /\ \A p \in S : f[p] = d
  <2>1. K \div K = 1 /\ d * 1 = d
    BY <1>1
  <2>2. \A p \in S : u[p].num * (m \div u[p].den) = d
    BY <1>2, <2>1
  <2> QED
    BY <2>2 DEF ScaledTerms
<1>5. PICK h : Sums(h, f, S) /\ ScaledTotal(u, m, S) = h[S]
  <2>1. \E h : Sums(h, f, S)
    BY <1>4, SumsExist
  <2> QED
    BY <2>1, ScaledSum, Zenon
<1> HIDE DEF f
<1>6. h[{} \cup S] = h[{}] + Cardinality(S) * d /\ h[{}] = 0
  BY <1>4, <1>5, SumOfConstants, SumsAdd
<1>7. h[S] = 0 + K * d
  BY <1>6, Zenon, {} \cup S = S
<1> HIDE DEF K
<1>8. ScaledTotal(u, m, S) = d * m
  BY <1>1, <1>2, <1>5, <1>7
<1> QED
  BY <1>8 DEF m, SumsTo

(* Special pods, A those of them with an update other than zero, have       *)
(* updates of their own; the others, B if not zero, share what is left.     *)
Divides(u, A, B, left, pods, special) ==
  /\ special \in SUBSET pods /\ special # pods
  /\ \A p \in special : Partial(p) \in Int
  /\ A \in SUBSET special /\ \A p \in special \ A : Partial(p) = 0
  /\ left = 0 => B = {}
  /\ left # 0 => B = pods \ special
  /\ \A p \in A : u[p].num = Partial(p) /\ u[p].den = 1
  /\ \A p \in B : u[p].num = left /\ u[p].den = Cardinality(pods \ special)
  /\ A \cup B # {}

LEMMA SpecialSharesSumToDiff ==
  ASSUME NEW pods, IsFiniteSet(pods), NEW special, NEW d \in Int,
         NEW left, left = d - MapThenSumSet(Partial, special),
         NEW A, NEW B, NEW u, Divides(u, A, B, left, pods, special)
  PROVE  SumsTo(u, A \cup B, d)
<1>0. /\ special \in SUBSET pods /\ special # pods
      /\ \A p \in special : Partial(p) \in Int
      /\ A \in SUBSET special /\ \A p \in special \ A : Partial(p) = 0
      /\ left = 0 => B = {}
      /\ left # 0 => B = pods \ special
      /\ \A p \in A : u[p].num = Partial(p) /\ u[p].den = 1
      /\ \A p \in B : u[p].num = left /\ u[p].den = Cardinality(pods \ special)
      /\ A \cup B # {}
  BY Zenon DEF Divides
<1> DEFINE K == Cardinality(pods \ special)
           m == Max({u[p].den : p \in A \cup B})
           C == A \cup B
           g == [p \in special |-> Partial(p)]
           f == ScaledTerms(u, m, C)
<1>1. IsFiniteSet(special) /\ IsFiniteSet(A) /\ IsFiniteSet(C) /\ IsFiniteSet(pods \ special)
  <2>1. special \in SUBSET pods /\ A \in SUBSET pods /\ C \in SUBSET pods /\ pods \ special \in SUBSET pods
    BY <1>0
  <2> QED
    BY <1>0, <2>1, FS_Subset
<1>2. K \in Nat /\ K >= 1
  <2>1. K \in Nat /\ K # 0
    BY <1>0, <1>1, FS_CardinalityType, FS_EmptySet
  <2> QED
    BY <1>0, <2>1
<1>3. g \in [special -> Int]
  BY <1>0
<1>4. PICK k : Sums(k, g, special) /\ MapThenSumSet(Partial, special) = k[special]
  <2>1. \E k : Sums(k, [p \in special |-> Partial(p)], special)
    BY <1>0, <1>1, <1>3, SumsExist
  <2> QED
    BY <1>0, <2>1, PartialSum
<1>5. k[special] = k[A] /\ k[A] \in Int
  <2>1. A \in SUBSET special /\ special \ A \in SUBSET special /\ A \cap (special \ A) = {}
        /\ 0 \in Int /\ \A p \in special \ A : g[p] = 0
    BY <1>0
  <2>2. k[A \cup (special \ A)] = k[A] + Cardinality(special \ A) * 0
    <3> HIDE DEF g
    <3>1. \A X, Y \in SUBSET special : \A c \in Int :
            X \cap Y = {} /\ (\A x \in Y : g[x] = c)
              => k[X \cup Y] = k[X] + Cardinality(Y) * c
      BY <1>0, <1>1, <1>3, <1>4, SumOfConstants
    <3> QED
      BY <2>1, <3>1, Zenon
  <2>3. k[A] \in Int
    <3> HIDE DEF g
    <3> QED
      BY <1>0, <1>1, <1>3, <1>4, SumsAdd
  <2>4. A \cup (special \ A) = special /\ Cardinality(special \ A) \in Nat
    <3>1. special \ A \in SUBSET special
      BY <1>0
    <3> QED
      BY <1>0, <1>1, <3>1, FS_Subset, FS_CardinalityType
  <2>5. Cardinality(special \ A) * 0 = 0
    BY <1>0, <2>4
  <2>6. k[special] = k[A] + 0
    BY <2>2, <2>4, <2>5, Zenon
  <2> QED
    BY <1>0, <2>3, <2>6
<1>6. left = d - k[A] /\ left \in Int
  BY <1>0, <1>4, <1>5
<1>7. m = IF left = 0 THEN 1 ELSE K
  <2> DEFINE D == {u[p].den : p \in A \cup B}
  <2>1. CASE left = 0
    <3>1. D = {1}
      BY <1>0, <2>1
    <3> HIDE DEF D
    <3>2. Max(D) = 1
      BY <1>0, <3>1, GreatestIsMax
    <3> QED
      BY <1>0, <2>1, <3>2 DEF D
  <2>2. CASE left # 0
    <3>1. D \subseteq {1, K} /\ K \in D
      <4>1. B = pods \ special /\ B # {}
        BY <1>0, <2>2
      <4> QED
        BY <1>0, <4>1
    <3> HIDE DEF D, K
    <3>2. Max(D) = K
      <4>1. D \subseteq Int /\ \A y \in D : K >= y
        BY <1>0, <1>2, <3>1
      <4> QED
        BY <1>0, <3>1, <4>1, GreatestIsMax
    <3> QED
      BY <1>0, <2>2, <3>2 DEF D
  <2> QED
    BY <1>0, <2>1, <2>2
<1> HIDE DEF m, K
<1>8. m \in Nat
  BY <1>0, <1>2, <1>7
<1>9. \A p \in A : u[p].num * (m \div u[p].den) = m * g[p]
  <2>1. ASSUME NEW p \in A PROVE u[p].num * (m \div u[p].den) = m * g[p]
    <3>1. u[p].num = g[p] /\ u[p].den = 1 /\ g[p] \in Int
      BY <1>0
    <3>2. m \div 1 = m
      BY <1>0, <1>8
    <3> HIDE DEF g
    <3> QED
      BY <1>0, <1>8, <3>1, <3>2
  <2> QED
    BY <1>0, <2>1
<1>10. \A p \in B : u[p].num * (m \div u[p].den) = left
  <2>1. ASSUME NEW p \in B PROVE u[p].num * (m \div u[p].den) = left
    <3>1. left # 0 /\ u[p].num = left /\ u[p].den = K
      BY <1>0 DEF K
    <3>2. K \div K = 1 /\ left * 1 = left
      BY <1>0, <1>2, <1>6
    <3> QED
      BY <1>0, <1>7, <3>1, <3>2
  <2> QED
    BY <1>0, <2>1
<1>11. /\ f \in [C -> Int]
       /\ \A p \in A : f[p] = m * g[p]
       /\ \A p \in B : f[p] = left
  <2>1. \A p \in A : g[p] \in Int
    BY <1>0, <1>3
  <2>2. \A p \in A : m * g[p] \in Int
    <3> HIDE DEF g
    <3> QED
      BY <1>0, <1>8, <2>1
  <2> HIDE DEF g
  <2> QED
    BY <1>0, <1>6, <1>9, <1>10, <2>2 DEF ScaledTerms
<1>12. PICK h : Sums(h, f, C) /\ ScaledTotal(u, m, C) = h[C]
  <2>1. \E h : Sums(h, f, C)
    <3> HIDE DEF f
    <3> QED
      BY <1>0, <1>1, <1>11, SumsExist
  <2> HIDE DEF C
  <2> QED
    BY <1>0, <2>1, ScaledSum
<1> HIDE DEF f, g
<1>13. h[A \cup B] = h[A] + Cardinality(B) * left
  <2>1. A \in SUBSET C /\ B \in SUBSET C /\ A \cap B = {}
    BY <1>0
  <2>2. IsFiniteSet(C) /\ left \in Int /\ f \in [C -> Int] /\ \A p \in B : f[p] = left
    BY <1>0, <1>1, <1>6, <1>11
  <2>3. Sums(h, f, C)
    BY <1>0, <1>12
  <2> HIDE DEF C
  <2>4. \A X, Y \in SUBSET C : \A c \in Int :
          X \cap Y = {} /\ (\A x \in Y : f[x] = c)
            => h[X \cup Y] = h[X] + Cardinality(Y) * c
    BY <1>0, <2>2, <2>3, SumOfConstants
  <2> QED
    BY <2>1, <2>2, <2>4, Zenon
<1>14. h[A] = m * k[A]
  <2>1. A \in SUBSET (C \cap special)
    BY <1>0
  <2> HIDE DEF C
  <2> QED
    BY <1>0, <1>1, <1>3, <1>4, <1>8, <1>11, <1>12, <2>1, SumOfMultiples
<1>15. ScaledTotal(u, m, C) = m * k[A] + Cardinality(B) * left
  BY <1>0, <1>12, <1>13, <1>14
<1>16. ScaledTotal(u, m, C) = d * m
  <2>1. CASE left = 0
    <3>1. Cardinality(B) = 0 /\ m = 1
      BY <1>0, <1>7, <2>1, FS_EmptySet
    <3> QED
      BY <1>0, <1>5, <1>6, <1>15, <2>1, <3>1
  <2>2. CASE left # 0
    <3>1. Cardinality(B) = K /\ m = K
      BY <1>0, <1>7, <2>2 DEF K
    <3>2. ScaledTotal(u, m, C) = K * k[A] + K * left
      BY <1>0, <1>15, <3>1
    <3> HIDE DEF C
    <3> QED
      BY <1>0, <1>2, <1>5, <1>6, <3>1, <3>2
  <2> QED
    BY <1>0, <2>1, <2>2
<1> QED
  BY <1>16 DEF m, SumsTo

(* What is listed for a node with a CPU count sums to the node's diff.      *)
Changed(n, pods, d) ==
  {p \in DOMAIN Deltas(n, pods, d) : Deltas(n, pods, d)[p].num # 0}

Listed(n, pods, d) == [p \in Changed(n, pods, d) |-> Deltas(n, pods, d)[p]]

LEMMA DeltasSumToDiff ==
  ASSUME NEW n \in counted, NEW pods \in SUBSET Pods, NEW d \in Int, limit \in [Pods -> 0..MaxLimit],
         Changed(n, pods, d) # {},
         d > 0 \/ ((\A p \in pods : MinCpu[p] # NoMin) /\ Subceeding(pods, d) # pods)
  PROVE  SumsTo(Listed(n, pods, d), Changed(n, pods, d), d)
<1> DEFINE deltas == Deltas(n, pods, d)
           changed == Changed(n, pods, d)
           u == Listed(n, pods, d)
<1>0. IsFiniteSet(pods)
  BY FS_Subset, SelfDrivingAssumption
<1>1. changed = {p \in DOMAIN deltas : deltas[p].num # 0} /\ \A p \in changed : u[p] = deltas[p]
  BY DEF Changed, Listed
<1> HIDE DEF changed, u
<1>2. CASE d >= 0
  <2>1. deltas = [p \in pods |-> [num |-> d, den |-> Cardinality(pods)]]
    BY <1>2, Zenon DEF Deltas
  <2> HIDE DEF deltas
  <2>2. d # 0 /\ changed = pods /\ changed # {}
    BY <1>1, <2>1 DEF changed
  <2>3. \A p \in pods : u[p].num = d /\ u[p].den = Cardinality(pods)
    BY <1>1, <2>1, <2>2
  <2>4. SumsTo(u, pods, d)
    BY <1>0, <2>2, <2>3, SharesSumToDiff
  <2> QED
    BY <2>2, <2>4, Zenon DEF changed, u
<1>3. CASE ~(d >= 0)
  <2> DEFINE special == Subceeding(pods, d)
             left == d - MapThenSumSet(Partial, special)
             A == {p \in special : Partial(p) # 0}
             B == IF left = 0 THEN {} ELSE pods \ special
  <2>1. (\A p \in pods : MinCpu[p] # NoMin) /\ special # pods
    BY <1>3
  <2>2. special \in SUBSET pods
    BY DEF Subceeding
  <2>3. {p \in pods : MinCpu[p] # NoMin} = pods
    BY <2>1
  <2>4. deltas = [p \in pods |-> IF p \in special THEN [num |-> Partial(p), den |-> 1]
                                 ELSE Share(pods, special, d)]
    <3>1. deltas = [p \in {q \in pods : MinCpu[q] # NoMin} |->
                      IF p \in special THEN [num |-> Partial(p), den |-> 1]
                      ELSE Share(pods, special, d)]
      BY <1>3, Zenon DEF Deltas
    <3> QED
      BY <2>3, <3>1, Zenon
  <2>5. Share(pods, special, d) = [num |-> left, den |-> Cardinality(pods \ special)]
    BY Zenon DEF Share
  <2>6. \A p \in special : Partial(p) \in Int
    <3>1. ASSUME NEW p \in special PROVE Partial(p) \in Int
      <4>1. p \in Pods
        BY <2>2
      <4>2. limit[p] \in Int /\ MinCpu[p] \in Int
        BY <4>1, SelfDrivingAssumption DEF NoMin
      <4> QED
        BY <4>2 DEF Partial
    <3> QED
      BY <3>1
  <2> HIDE DEF special, left, deltas
  <2>7. \A p \in special : deltas[p].num = Partial(p) /\ deltas[p].den = 1
    BY <2>2, <2>4
  <2>8. \A p \in pods \ special : deltas[p].num = left /\ deltas[p].den = Cardinality(pods \ special)
    BY <2>4, <2>5
  <2>9. DOMAIN deltas = pods
    BY <2>4
  <2>10. changed = A \cup B /\ changed # {}
    BY <1>1, <2>2, <2>7, <2>8, <2>9 DEF changed
  <2>11. \A p \in A : u[p].num = Partial(p) /\ u[p].den = 1
    BY <1>1, <2>7, <2>10
  <2>12. \A p \in B : u[p].num = left /\ u[p].den = Cardinality(pods \ special)
    BY <1>1, <2>8, <2>10
  <2>13. Divides(u, A, B, left, pods, special)
    <3>1. /\ A \in SUBSET special /\ \A p \in special \ A : Partial(p) = 0
          /\ left = 0 => B = {}
          /\ left # 0 => B = pods \ special
          /\ A \cup B # {}
      BY <2>10
    <3> HIDE DEF A, B
    <3> QED
      BY <2>1, <2>2, <2>6, <2>11, <2>12, <3>1, Zenon DEF Divides
  <2>14. left = d - MapThenSumSet(Partial, special)
    BY DEF left
  <2> HIDE DEF A, B
  <2>15. SumsTo(u, A \cup B, d)
    BY <1>0, <2>13, <2>14, SpecialSharesSumToDiff, Zenon
  <2> QED
    BY <2>10, <2>15, Zenon DEF changed, u
<1> QED
  BY <1>2, <1>3

LEMMA HeadsBelong ==
  ASSUME NEW S, NEW s \in Seq(S), s # <<>>
  PROVE  Head(s) \in S
OBVIOUS

(* If the CPU count of a node is known, the updates of its pods sum to its  *)
(* diff, provided every candidate has a minimum, or the diff is positive,   *)
(* and one pod at least is not a special case of its own: what the special  *)
(* ones get, be it more CPU, the others make up for (selfdriving.go         *)
(* 324-404).                                                                *)
THEOREM SharesAreExact == Spec => UpdatesSumToDiff
<1>1. ASSUME SelfDrivingInv, ListPods, step' = "patch", Head(todo).node \in counted
      PROVE  LET d == Head(todo).diff
                 pods == DOMAIN seen'
             IN  d > 0 \/ ((\A p \in pods : MinCpu[p] # NoMin) /\ Subceeding(pods, d) # pods)
                   => SumsTo(updates', DOMAIN updates', d)
  <2> DEFINE d == Head(todo).diff
             n == Head(todo).node
             pods == Candidates(n)
  <2>1. IF Changed(n, pods, d) = {} THEN NextNode(Tail(todo))
        ELSE seen' = [p \in pods |-> limit[p]] /\ updates' = Listed(n, pods, d)
    BY <1>1, Zenon DEF ListPods, Changed, Listed
  <2>2. Changed(n, pods, d) # {}
    BY <1>1, <2>1 DEF NextNode
  <2>3. DOMAIN seen' = pods /\ updates' = Listed(n, pods, d) /\ DOMAIN updates' = Changed(n, pods, d)
    BY <2>1, <2>2 DEF Listed
  <2>4. pods \in SUBSET Pods
    BY DEF Candidates
  <2>5. d \in Int
    <3>1. todo \in Seq([node : Nodes, diff : Diffs]) /\ todo # <<>>
      BY <1>1 DEF SelfDrivingInv, Pass, ListPods
    <3>2. Head(todo) \in [node : Nodes, diff : Diffs]
      BY <3>1, HeadsBelong
    <3>3. d \in Diffs
      BY <3>2
    <3> HIDE DEF d
    <3> QED
      BY <3>3, SelfDrivingAssumption
  <2>6. limit \in [Pods -> 0..MaxLimit]
    BY <1>1 DEF SelfDrivingInv
  <2>8. n \in counted
    BY <1>1
  <2> HIDE DEF d, n, pods
  <2>7. d > 0 \/ ((\A p \in pods : MinCpu[p] # NoMin) /\ Subceeding(pods, d) # pods)
          => SumsTo(Listed(n, pods, d), Changed(n, pods, d), d)
    BY <2>2, <2>4, <2>5, <2>6, <2>8, DeltasSumToDiff
  <2> QED
    BY <2>3, <2>7, Zenon DEF d
<1>2. ASSUME [Next]_vars, step = "list", step' = "patch" PROVE ListPods
  <2>1. \A left : NextNode(left) => step' # "patch"
    BY DEF NextNode
  <2>2. CASE UNCHANGED vars
    BY <1>2, <2>2 DEF vars
  <2>3. ASSUME NEW p \in Pods, Ages(p) \/ \E new \in Limits : PatchWorkload(p, new)
        PROVE  FALSE
    BY <1>2, <2>3 DEF Ages, PatchWorkload
  <2>4. ASSUME NEW i \in DOMAIN skip, Expires(i) PROVE FALSE
    BY <1>2, <2>4 DEF Expires
  <2>5. ASSUME NEW diffs, NEW counts, Query(diffs, counts) PROVE FALSE
    BY <1>2, <2>5 DEF Query
  <2>6. ASSUME NEW p, Patched(p) \/ PatchReplyLost(p) PROVE FALSE
    BY <1>2, <2>6 DEF Patched, PatchReplyLost, Patch
  <2>7. CASE Refresh \/ Fails \/ Restart
    BY <1>2, <2>1, <2>7 DEF Refresh, Fails, Restart
  <2> QED
    BY <1>2, <2>2, <2>3, <2>4, <2>5, <2>6, <2>7 DEF Next, ReconcileStep
<1>3. SelfDrivingInv /\ [Next]_vars =>
        [step = "list" /\ step' = "patch" /\ Head(todo).node \in counted =>
           LET d == Head(todo).diff
               pods == DOMAIN seen'
               den == Max({updates'[p].den : p \in DOMAIN updates'})
               Scaled(p) == updates'[p].num * (den \div updates'[p].den)
           IN  d > 0 \/ ((\A p \in pods : MinCpu[p] # NoMin) /\ Subceeding(pods, d) # pods)
                 => MapThenSumSet(Scaled, DOMAIN updates') = d * den]_vars
  BY <1>1, <1>2, Zenon DEF SumsTo, ScaledTotal, MapThenSumSet, MapThenFoldSet
<1> QED
  BY <1>3, Invariance, PTL DEF Spec, UpdatesSumToDiff

(* Without a CPU count, whatever the diff and the minimums, a reconcile     *)
(* adjusts no pod: the patches that the API accepts write back what was     *)
(* listed (selfdriving.go 50-52, 93-107, 377-401, kubeclient.go 247-252).   *)
THEOREM UncountedPodsKeepTheirLimits == Spec => UncountedIsNotAdjusted
<1> DEFINE Kept == \A p \in Pods :
             limit'[p] # limit[p] => p \in DOMAIN updates /\ limit'[p] = seen[p]
<1>1. ASSUME SelfDrivingInv, Head(todo).node \notin counted,
             NEW p \in DOMAIN updates, Patch(p)
      PROVE  Kept
  <2>1. /\ limit \in [Pods -> 0..MaxLimit] /\ p \in Pods /\ seen[p] \in 0..MaxLimit
    BY <1>1 DEF SelfDrivingInv, Pass
  <2>2. PICK new \in NewLimits(p) \cap 0..MaxLimit : limit' = [limit EXCEPT ![p] = new]
    BY <1>1, Zenon DEF Patch
  <2>3. PICK q \in Quantities(updates[p]) :
          new = IF isNodeAboveTarget(Head(todo).diff) THEN seen[p] - q ELSE seen[p] + q
    BY <2>2, Zenon DEF NewLimits
  <2>4. q \in {0, MinInt}
    BY <1>1, <2>3 DEF Quantities
  <2>5. new = seen[p]
    <3>1. new \in 0..MaxLimit /\ (new = seen[p] - q \/ new = seen[p] + q)
      BY <2>2, <2>3
    <3> QED
      BY <2>1, <2>4, <3>1, SelfDrivingAssumption DEF MinInt
  <2> QED
    BY <1>1, <2>1, <2>2, <2>5
<1>2. ASSUME SelfDrivingInv, [Next]_vars, step = "patch", updates' # updates,
             Head(todo).node \notin counted
      PROVE  Kept
  <2>1. ASSUME limit' = limit PROVE Kept
    BY <2>1
  <2>2. ASSUME NEW i \in DOMAIN skip, Expires(i) PROVE FALSE
    BY <1>2, <2>2 DEF Expires, passVars
  <2>3. ASSUME NEW p \in Pods, Ages(p) \/ \E new \in Limits : PatchWorkload(p, new)
        PROVE  FALSE
    BY <1>2, <2>3 DEF Ages, PatchWorkload, passVars
  <2>4. ASSUME NEW p \in DOMAIN updates, Patched(p) \/ PatchReplyLost(p) PROVE Kept
    BY <1>1, <1>2, <2>4 DEF Patched, PatchReplyLost
  <2>5. ASSUME Fails PROVE Kept
    BY <2>1, <2>5 DEF Fails, podVars
  <2>6. ASSUME NEW diffs, NEW counts, Query(diffs, counts) PROVE FALSE
    BY <1>2, <2>6 DEF Query
  <2>7. ASSUME Refresh \/ ListPods \/ Restart \/ UNCHANGED vars PROVE FALSE
    BY <1>2, <2>7 DEF Refresh, ListPods, Restart, vars, passVars
  <2> QED
    BY <1>2, <2>2, <2>3, <2>4, <2>5, <2>6, <2>7, Zenon DEF Next, ReconcileStep
<1>3. SelfDrivingInv /\ [Next]_vars =>
        [step = "patch" /\ Head(todo).node \notin counted /\ updates' # updates => Kept]_vars
  BY <1>2, Zenon
<1> QED
  BY <1>3, Invariance, PTL DEF Spec, UncountedIsNotAdjusted

=============================================================================
