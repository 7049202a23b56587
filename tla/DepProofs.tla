------------------------------ MODULE DepProofs ------------------------------
(***************************************************************************)
(* Proofs about the solver of golang-dep and the two writers of its         *)
(* solution.                                                                *)
(*                                                                          *)
(* Solver: for every universe, the invariant SvInv of the stacks and the    *)
(* heap, and from it that they agree and that a solution is right.          *)
(* DeltaWriter for any set of paths, SafeWriter for any choice of devices.  *)
(***************************************************************************)
EXTENDS Solver, SafeWriter, DeltaWriter,
        FiniteSetTheorems, SequenceTheorems, WellFoundedInduction, TLAPS

(* Solver: recursion over the elements of a sequence.                       *)

\* A set of numbers that is not empty has a least one.
LEMMA LeastNumber ==
  ASSUME NEW N, N \subseteq Nat, N # {}
  PROVE  \E x \in N : \A y \in N : x <= y
<1> DEFINE less == {ss \in Nat \X Nat : ss[1] < ss[2]}
<1>1. IsWellFoundedOn(less, Nat)
  BY NatLessThanWellFounded, Zenon DEF OpToRel
<1>2. PICK x \in N : \A y \in N : ~(<<y, x>> \in less)
  BY <1>1, WFMin
<1>3. ASSUME NEW y \in N PROVE x <= y
  <2>1. x \in Nat /\ y \in Nat /\ <<y, x>> \notin less
    BY <1>2
  <2>2. <<y, x>>[1] = y /\ <<y, x>>[2] = x
    OBVIOUS
  <2> QED
    BY <2>1, <2>2
<1> QED
  BY <1>3

\* What holds at 0 and is handed on from each number to the next holds up to n.
LEMMA StepByStep ==
  ASSUME NEW n \in Nat, NEW Good, 0 \in Good, \A i \in 1..n : i - 1 \in Good => i \in Good
  PROVE  \A i \in 0..n : i \in Good
<1> DEFINE Bad == {i \in 0..n : i \notin Good}
<1> SUFFICES ASSUME Bad # {} PROVE FALSE
  OBVIOUS
<1>0. Bad \subseteq Nat
  OBVIOUS
<1>1. PICK x \in Bad : \A y \in Bad : x <= y
  BY <1>0, LeastNumber
<1>2. x \in 1..n /\ x - 1 \in 0..n /\ x - 1 < x
  BY <1>1
<1>3. x - 1 \in Good
  BY <1>1, <1>2
<1> QED
  BY <1>1, <1>2, <1>3

\* The values of a recursion over the first n numbers.
Runs(f, n, T, base, F) ==
  f \in [0..n -> T] /\ \A i \in 0..n : f[i] = IF i = 0 THEN base ELSE F[i][f[i - 1]]

\* The value at 0 and a step for each number make a function.
LEMMA RecursionExists ==
  ASSUME NEW n \in Nat, NEW T, NEW base \in T, NEW F \in [1..n -> [T -> T]]
  PROVE  \E f : Runs(f, n, T, base, F)
<1> DEFINE Run(f, k) == Runs(f, k, T, base, F)
           Good == {k \in 0..n : \E f : Run(f, k)}
<1>1. 0 \in Good
  <2>1. Run([i \in 0..0 |-> base], 0)
    BY DEF Runs
  <2> HIDE DEF Run
  <2> QED
    BY <2>1
<1>2. ASSUME NEW k \in 1..n, k - 1 \in Good PROVE k \in Good
  <2>1. PICK f : Run(f, k - 1)
    BY <1>2
  <2> DEFINE g == [i \in 0..k |-> IF i = k THEN F[k][f[k - 1]] ELSE f[i]]
  <2>2. k - 1 \in 0..(k - 1) /\ F[k] \in [T -> T] /\ f[k - 1] \in T
    BY <2>1 DEF Runs
  <2>3. g \in [0..k -> T]
    BY <2>1, <2>2 DEF Runs
  <2>4. ASSUME NEW i \in 0..k PROVE g[i] = IF i = 0 THEN base ELSE F[i][g[i - 1]]
    <3>1. ASSUME i # k PROVE g[i] = IF i = 0 THEN base ELSE F[i][g[i - 1]]
      <4>1. i \in 0..(k - 1) /\ g[i] = f[i] /\ (i # 0 => g[i - 1] = f[i - 1])
        BY <3>1
      <4> QED
        BY <2>1, <4>1 DEF Runs
    <3>2. k # 0 /\ g[k] = F[k][f[k - 1]] /\ g[k - 1] = f[k - 1]
      BY <1>2
    <3> QED
      BY <3>1, <3>2
  <2>5. Run(g, k)
    BY <2>3, <2>4 DEF Runs
  <2> HIDE DEF Run, g
  <2> QED
    BY <2>5
<1>3. \A k \in 0..n : k \in Good
  <2> HIDE DEF Good
  <2> QED
    BY <1>1, <1>2, StepByStep
<1> QED
  BY <1>3

-----------------------------------------------------------------------------
(* Solver: the heap.                                                        *)

\* The places of the heap on the way from n to the root.
IsClimb(up, n) == up = [i \in 0..n |-> IF i = 0 THEN n ELSE up[i - 1] \div 2]
Climb(n) == CHOOSE up : IsClimb(up, n)

\* Each is half the one before.
LEMMA ClimbHalves ==
  ASSUME NEW n \in Nat
  PROVE  /\ IsClimb(Climb(n), n)
         /\ \A i \in 0..n : Climb(n)[i] \in Nat
<1> DEFINE F == [i \in 1..n |-> [y \in Nat |-> y \div 2]]
<1>1. F \in [1..n -> [Nat -> Nat]]
  OBVIOUS
<1>2. PICK f : Runs(f, n, Nat, n, F)
  <2> HIDE DEF F
  <2> QED
    BY <1>1, RecursionExists
<1>3. IsClimb(f, n)
  <2>1. ASSUME NEW i \in 0..n PROVE f[i] = IF i = 0 THEN n ELSE f[i - 1] \div 2
    <3>1. f[i] = IF i = 0 THEN n ELSE F[i][f[i - 1]]
      BY <1>2 DEF Runs
    <3>2. i # 0 => i \in 1..n /\ i - 1 \in 0..n
      OBVIOUS
    <3>3. i # 0 => f[i - 1] \in Nat
      BY <1>2, <3>2 DEF Runs
    <3> QED
      BY <3>1, <3>2, <3>3
  <2> QED
    BY <1>2, <2>1 DEF IsClimb, Runs
<1>4. IsClimb(Climb(n), n)
  BY <1>3, Zenon DEF Climb
<1> DEFINE c == Climb(n)
           Good == {i \in 0..n : c[i] \in Nat}
<1>5. \A i \in 0..n : c[i] = IF i = 0 THEN n ELSE c[i - 1] \div 2
  BY <1>4 DEF IsClimb
<1>6. 0 \in Good /\ \A i \in 1..n : i - 1 \in Good => i \in Good
  BY <1>5
<1>7. \A i \in 0..n : i \in Good
  <2> HIDE DEF Good
  <2> QED
    BY <1>6, StepByStep
<1> QED
  BY <1>4, <1>7


\* The new element rises past m ancestors.
Rises(sel, h, x, m) ==
  \A i \in 1..m : /\ Climb(Len(h) + 1)[i] >= 1
                  /\ Less(sel, x, h[Climb(Len(h) + 1)[i]])
Risen(sel, h, x) ==
  CHOOSE m \in 0..(Len(h) + 1 - 1) :
    Rises(sel, h, x, m) /\ \A k \in 0..(Len(h) + 1 - 1) : Rises(sel, h, x, k) => k <= m
Sifted(h, x, up, m) ==
  [k \in 1..(Len(h) + 1) |-> IF k = up[m] THEN x
                             ELSE IF \E i \in 0..(m - 1) : k = up[i] THEN h[k \div 2]
                             ELSE h[k]]

\* HeapPush written with its helpers by name.
LEMMA HeapPushIs ==
  ASSUME NEW sel, NEW h, NEW x
  PROVE  HeapPush(sel, h, x) = Sifted(h, x, Climb(Len(h) + 1), Risen(sel, h, x))
BY DEF HeapPush, Sifted, Climb, IsClimb, Risen, Rises


\* How far the new element rises, and that it has an ancestor at each step.
LEMMA RisenIs ==
  ASSUME NEW sel, NEW h, NEW x, Len(h) \in Nat
  PROVE  /\ Risen(sel, h, x) \in 0..Len(h)
         /\ \A i \in 1..Risen(sel, h, x) : Climb(Len(h) + 1)[i] >= 1
<1> DEFINE L == Len(h)
           Not == {k \in 1..L : ~Rises(sel, h, x, k)}
<1>0. Len(h) + 1 - 1 = L
  OBVIOUS
<1>1. \E m \in 0..L : Rises(sel, h, x, m) /\ \A k \in 0..L : Rises(sel, h, x, k) => k <= m
  <2>0. Rises(sel, h, x, 0)
    BY DEF Rises
  <2>1. ASSUME NEW k \in 0..L, NEW j \in 0..k, Rises(sel, h, x, k) PROVE Rises(sel, h, x, j)
    BY <2>1 DEF Rises
  <2>2. CASE Not = {}
    <3>1. Rises(sel, h, x, L)
      BY <2>0, <2>2
    <3> QED
      BY <3>1
  <2>3. CASE Not # {}
    <3>1. PICK k \in Not : \A j \in Not : k <= j
      <4>1. Not \subseteq Nat
        OBVIOUS
      <4> HIDE DEF Not
      <4> QED
        BY <2>3, <4>1, LeastNumber
    <3>2. k - 1 \in 0..L /\ Rises(sel, h, x, k - 1)
      BY <2>0, <3>1
    <3>3. ASSUME NEW j \in 0..L, Rises(sel, h, x, j) PROVE j <= k - 1
      <4>1. ~(k \in 0..j)
        BY <2>1, <3>1, <3>3
      <4> QED
        BY <3>1, <4>1
    <3> QED
      BY <3>2, <3>3
  <2> QED
    BY <2>2, <2>3
<1>2. Risen(sel, h, x) \in 0..L /\ Rises(sel, h, x, Risen(sel, h, x))
  <2> HIDE DEF L
  <2> QED
    BY <1>0, <1>1 DEF Risen
<1> QED
  BY <1>2 DEF Rises

\* On the way to the root the places go down.
LEMMA ClimbFalls ==
  ASSUME NEW n \in Nat, NEW m \in 0..n, \A i \in 1..m : Climb(n)[i] >= 1
  PROVE  \A i \in 0..(m - 1) : Climb(n)[m] < Climb(n)[i]
<1> DEFINE c == Climb(n)
           Good == {k \in 0..m : \A i \in 0..(k - 1) : c[k] < c[i]}
<1>1. \A i \in 0..n : c[i] \in Nat /\ (i # 0 => c[i] = c[i - 1] \div 2)
  BY ClimbHalves DEF IsClimb
<1> HIDE DEF c
<1>2. 0 \in Good
  OBVIOUS
<1>3. ASSUME NEW k \in 1..m, k - 1 \in Good PROVE k \in Good
  <2>1. c[k] \in Nat /\ c[k - 1] \in Nat /\ c[k] = c[k - 1] \div 2 /\ c[k] >= 1
    BY <1>1 DEF c
  <2>2. c[k] < c[k - 1]
    BY <2>1
  <2>3. ASSUME NEW i \in 0..(k - 1) PROVE c[k] < c[i]
    <3>1. CASE i = k - 1
      BY <2>2, <3>1
    <3>2. CASE i # k - 1
      <4>1. i \in 0..(k - 1 - 1) /\ c[i] \in Nat
        BY <1>1, <3>2
      <4>2. c[k - 1] < c[i]
        BY <1>3, <4>1
      <4> QED
        BY <2>1, <2>2, <4>1, <4>2
    <3> QED
      BY <3>1, <3>2
  <2> QED
    BY <2>3
<1>4. \A k \in 0..m : k \in Good
  <2> HIDE DEF Good
  <2> QED
    BY <1>2, <1>3, StepByStep
<1> QED
  BY <1>4 DEF c


\* w is a heap of elements of T that holds those of h and those of xs.
Holds(w, h, xs, T) == w \in Seq(T) /\ ToSet(w) = ToSet(h) \cup xs

\* heap.Push adds the element and loses none.
LEMMA HeapPushEffect ==
  ASSUME NEW sel, NEW T, NEW h \in Seq(T), NEW x \in T
  PROVE  Holds(HeapPush(sel, h, x), h, {x}, T)
<1> DEFINE n == Len(h) + 1
           c == Climb(n)
           m == Risen(sel, h, x)
           w == Sifted(h, x, c, m)
<1>1. Len(h) \in Nat /\ n \in Nat /\ n \in 1..n /\ DOMAIN h = 1..(n - 1)
  OBVIOUS
<1>2. m \in 0..(n - 1) /\ \A i \in 1..m : c[i] >= 1
  BY <1>1, RisenIs
<1>3. /\ \A i \in 0..n : c[i] \in Nat /\ (i # 0 => c[i] = c[i - 1] \div 2)
      /\ c[0] = n
  BY <1>1, ClimbHalves DEF IsClimb
<1>4. \A i \in 0..(m - 1) : c[m] < c[i]
  BY <1>1, <1>2, ClimbFalls
<1>5. w = [k \in 1..n |-> IF k = c[m] THEN x
                          ELSE IF \E i \in 0..(m - 1) : k = c[i] THEN h[k \div 2] ELSE h[k]]
  BY DEF Sifted
<1>6. HeapPush(sel, h, x) = w
  BY HeapPushIs
<1> HIDE DEF n, c, m, w
<1>7. c[m] \in 1..n
  <2>1. CASE m = 0
    BY <1>1, <1>3, <2>1
  <2>2. CASE m # 0
    <3>1. c[m] < c[0] /\ c[m] >= 1 /\ c[m] \in Nat
      BY <1>1, <1>2, <1>3, <1>4, <2>2
    <3> QED
      BY <1>1, <1>3, <3>1
  <2> QED
    BY <2>1, <2>2
<1>8. ASSUME NEW k \in 1..n, NEW i \in 0..(m - 1), k = c[i], k # c[m]
      PROVE  k \div 2 \in DOMAIN h
  <2>1. i + 1 \in 1..m /\ i + 1 \in 0..n /\ i + 1 # 0 /\ i + 1 - 1 = i
    BY <1>1, <1>2
  <2>2. c[i + 1] = k \div 2 /\ c[i + 1] >= 1
    BY <1>2, <1>3, <1>8, <2>1
  <2>3. k \div 2 <= n - 1
    BY <1>1
  <2> QED
    BY <1>1, <2>2, <2>3
<1>9. ASSUME NEW k \in 1..n, k # c[m], ~\E i \in 0..(m - 1) : k = c[i]
      PROVE  k \in DOMAIN h
  <2>1. k # n
    <3>1. CASE m = 0
      BY <1>3, <1>9, <3>1
    <3>2. CASE m # 0
      <4>1. 0 \in 0..(m - 1)
        BY <1>1, <1>2, <3>2
      <4> QED
        BY <1>3, <1>9, <4>1
    <3> QED
      BY <3>1, <3>2
  <2> QED
    BY <1>1, <2>1
<1>10. ASSUME NEW k \in 1..n
       PROVE  (w[k] = x \/ \E j \in DOMAIN h : w[k] = h[j]) /\ w[k] \in T
  BY <1>5, <1>8, <1>9
<1>11. w \in Seq(T) /\ DOMAIN w = 1..n
  <2>1. w \in [1..n -> T]
    BY <1>5, <1>10
  <2> QED
    BY <1>1, <2>1
<1>12. ASSUME NEW j \in DOMAIN h PROVE \E k \in 1..n : w[k] = h[j]
  <2>1. CASE \E i \in 1..m : j = c[i]
    <3>1. PICK i \in 1..m : j = c[i]
      BY <2>1
    <3>2. i - 1 \in 0..(m - 1) /\ i - 1 \in 0..n /\ i \in 0..n /\ i # 0
      BY <1>1, <1>2
    <3>3. c[i - 1] \in Nat /\ c[i - 1] \div 2 = j /\ j >= 1
      BY <1>1, <1>3, <3>1, <3>2
    <3>4. c[i - 1] <= n
      <4>1. CASE i - 1 = 0
        BY <1>1, <1>3, <4>1
      <4>2. CASE i - 1 # 0
        <5>1. i - 1 \in 0..n /\ i - 1 \in 1..m /\ (\A l \in 1..(i - 1) : c[l] >= 1)
          BY <1>1, <1>2, <4>2
        <5>2. 0 \in 0..(i - 1 - 1)
          BY <4>2
        <5>3. c[i - 1] < c[0]
          BY <1>1, <5>1, <5>2, ClimbFalls DEF c
        <5> QED
          BY <1>1, <1>3, <3>3, <5>3
      <4> QED
        BY <4>1, <4>2
    <3>5. c[m] < c[i - 1] /\ c[m] \in Nat
      BY <1>1, <1>2, <1>3, <1>4, <3>2
    <3>6. c[i - 1] \in 1..n /\ c[i - 1] # c[m]
      <4>1. ASSUME NEW y \in Nat, y \div 2 >= 1 PROVE y >= 1
        BY <4>1
      <4>2. c[i - 1] >= 1
        BY <3>3, <4>1
      <4> QED
        BY <1>1, <3>3, <3>4, <3>5, <4>2
    <3>7. w[c[i - 1]] = h[j]
      BY <1>5, <3>2, <3>3, <3>6
    <3> QED
      BY <3>6, <3>7
  <2>2. CASE ~\E i \in 1..m : j = c[i]
    <3>1. j \in 1..n /\ j # n
      BY <1>1
    <3>2. ASSUME NEW i \in 0..m PROVE j # c[i]
      <4>1. i = 0 \/ i \in 1..m
        BY <1>1, <1>2
      <4> QED
        BY <1>3, <2>2, <3>1, <4>1
    <3>3. j # c[m] /\ ~\E i \in 0..(m - 1) : j = c[i]
      BY <1>1, <1>2, <3>2
    <3> QED
      BY <1>5, <3>1, <3>3
  <2> QED
    BY <2>1, <2>2
<1>13. w[c[m]] = x
  BY <1>5, <1>7
<1>14. ToSet(w) = ToSet(h) \cup {x}
  BY <1>7, <1>10, <1>11, <1>12, <1>13 DEF ToSet
<1> QED
  BY <1>6, <1>11, <1>14 DEF Holds


IsPushing(f, sel, h, xs) ==
  f = [i \in 0..Len(xs) |-> IF i = 0 THEN h ELSE HeapPush(sel, f[i - 1], xs[i])]
Pushing(sel, h, xs) == CHOOSE f : IsPushing(f, sel, h, xs)

\* Several elements are added.
LEMMA HeapPushAllEffect ==
  ASSUME NEW sel, NEW T, NEW h \in Seq(T), NEW xs \in Seq(T)
  PROVE  Holds(HeapPushAll(sel, h, xs), h, ToSet(xs), T)
<1> DEFINE n == Len(xs)
           F == [i \in 1..n |-> [y \in Seq(T) |-> HeapPush(sel, y, xs[i])]]
           f == Pushing(sel, h, xs)
<1>0. n \in Nat /\ DOMAIN xs = 1..n /\ \A i \in 1..n : xs[i] \in T
  OBVIOUS
<1>1. F \in [1..n -> [Seq(T) -> Seq(T)]]
  <2>1. ASSUME NEW i \in 1..n, NEW y \in Seq(T) PROVE HeapPush(sel, y, xs[i]) \in Seq(T)
    BY <1>0, HeapPushEffect DEF Holds
  <2> QED
    BY <2>1
<1>2. PICK g : Runs(g, n, Seq(T), h, F)
  <2> HIDE DEF F
  <2> QED
    BY <1>0, <1>1, RecursionExists
<1>3. IsPushing(g, sel, h, xs)
  <2>1. ASSUME NEW i \in 0..n
        PROVE  g[i] = IF i = 0 THEN h ELSE HeapPush(sel, g[i - 1], xs[i])
    <3>1. g[i] = IF i = 0 THEN h ELSE F[i][g[i - 1]]
      BY <1>2 DEF Runs
    <3>2. i # 0 => i \in 1..n /\ i - 1 \in 0..n
      BY <1>0
    <3>3. i # 0 => g[i - 1] \in Seq(T)
      BY <1>2, <3>2 DEF Runs
    <3> QED
      BY <3>1, <3>2, <3>3
  <2> HIDE DEF F
  <2> QED
    BY <1>2, <2>1 DEF IsPushing, Runs
<1>4. IsPushing(f, sel, h, xs)
  BY <1>3, Zenon DEF Pushing
<1>5. HeapPushAll(sel, h, xs) = f[n]
  BY DEF HeapPushAll, Pushing, IsPushing
<1> DEFINE Good == {i \in 0..n : f[i] \in Seq(T) /\ ToSet(f[i]) = ToSet(h) \cup {xs[j] : j \in 1..i}}
<1> HIDE DEF f, F
<1>6. \A i \in 0..n : f[i] = IF i = 0 THEN h ELSE HeapPush(sel, f[i - 1], xs[i])
  BY <1>4 DEF IsPushing
<1>7. 0 \in Good
  <2>1. f[0] = h
    BY <1>0, <1>6
  <2> QED
    BY <1>0, <2>1
<1>8. ASSUME NEW i \in 1..n, i - 1 \in Good PROVE i \in Good
  <2>1. f[i - 1] \in Seq(T) /\ ToSet(f[i - 1]) = ToSet(h) \cup {xs[j] : j \in 1..(i - 1)}
    BY <1>8
  <2>2. f[i] = HeapPush(sel, f[i - 1], xs[i])
    BY <1>0, <1>6
  <2>3. xs[i] \in T
    BY <1>0
  <2>4. /\ HeapPush(sel, f[i - 1], xs[i]) \in Seq(T)
        /\ ToSet(HeapPush(sel, f[i - 1], xs[i])) = ToSet(f[i - 1]) \cup {xs[i]}
    <3>1. PICK y \in Seq(T) : y = f[i - 1]
      BY <2>1
    <3>2. Holds(HeapPush(sel, y, xs[i]), y, {xs[i]}, T)
      BY <2>3, HeapPushEffect
    <3> QED
      BY <3>1, <3>2 DEF Holds
  <2>5. {xs[j] : j \in 1..i} = {xs[j] : j \in 1..(i - 1)} \cup {xs[i]}
    OBVIOUS
  <2>6. ToSet(f[i]) = ToSet(h) \cup {xs[j] : j \in 1..i} /\ f[i] \in Seq(T)
    BY <2>1, <2>2, <2>4, <2>5
  <2> QED
    BY <1>0, <2>6
<1>9. \A i \in 0..n : i \in Good
  <2> HIDE DEF Good
  <2> QED
    BY <1>0, <1>7, <1>8, StepByStep
<1>10. n \in Good
  <2> HIDE DEF Good
  <2> QED
    BY <1>0, <1>9
<1> QED
  BY <1>0, <1>5, <1>10 DEF ToSet, Holds


\* w is a heap of elements of T that lost of the elements of h only some of bs.
Spares(w, h, bs, T) == w \in Seq(T) /\ ToSet(w) \subseteq ToSet(h) /\ ToSet(h) \ bs \subseteq ToSet(w)

\* Splicing out an element keeps the others.
LEMMA RemoveAtEffect ==
  ASSUME NEW T, NEW h \in Seq(T), NEW i \in 1..Len(h)
  PROVE  Spares(RemoveAt(h, i), h, {h[i]}, T)
<1> DEFINE a == SubSeq(h, 1, i - 1)
           b == SubSeq(h, i + 1, Len(h))
           w == a \o b
<1>0. Len(h) \in Nat /\ i \in Nat /\ \A k \in 1..Len(h) : h[k] \in T
  OBVIOUS
<1>1. a \in Seq(T) /\ Len(a) = i - 1 /\ \A k \in 1..(i - 1) : a[k] = h[k]
  BY <1>0
<1>2. b \in Seq(T) /\ Len(b) = Len(h) - i /\ \A k \in 1..(Len(h) - i) : b[k] = h[k + i]
  BY <1>0
<1> HIDE DEF a, b
<1>3. w \in Seq(T) /\ Len(w) = Len(h) - 1
  <2>1. a \in Seq(T) /\ b \in Seq(T)
    BY <1>1, <1>2
  <2>2. w \in Seq(T) /\ Len(w) = Len(a) + Len(b)
    BY <2>1
  <2> QED
    BY <1>0, <1>1, <1>2, <2>2
<1>4. \A k \in 1..(Len(h) - 1) : w[k] = IF k <= i - 1 THEN a[k] ELSE b[k - (i - 1)]
  BY <1>0, <1>1, <1>2
<1>5. \A k \in 1..(Len(h) - 1) : w[k] = IF k < i THEN h[k] ELSE h[k + 1]
  BY <1>0, <1>1, <1>2, <1>4
<1>6. RemoveAt(h, i) = w
  BY DEF RemoveAt, a, b
<1> HIDE DEF w
<1>7. ASSUME NEW k \in 1..Len(h), k # i PROVE \E l \in 1..(Len(h) - 1) : w[l] = h[k]
  <2>1. CASE k < i
    BY <1>0, <1>5, <2>1
  <2>2. CASE k > i
    <3>1. k - 1 \in 1..(Len(h) - 1) /\ ~(k - 1 < i) /\ k - 1 + 1 = k
      BY <1>0, <2>2
    <3>2. w[k - 1] = h[k]
      BY <1>5, <3>1
    <3> QED
      BY <3>1, <3>2
  <2> QED
    BY <1>0, <1>7, <2>1, <2>2
<1>8. ASSUME NEW k \in 1..(Len(h) - 1) PROVE \E l \in 1..Len(h) : w[k] = h[l]
  BY <1>0, <1>5
<1>9. DOMAIN w = 1..(Len(h) - 1) /\ DOMAIN h = 1..Len(h)
  BY <1>0, <1>3
<1>10. ToSet(w) = {w[k] : k \in 1..(Len(h) - 1)} /\ ToSet(h) = {h[k] : k \in 1..Len(h)}
  BY <1>9 DEF ToSet
<1>11. ToSet(w) \subseteq ToSet(h)
  BY <1>8, <1>10
<1>12. ToSet(h) \ {h[i]} \subseteq ToSet(w)
  BY <1>7, <1>10
<1> QED
  BY <1>3, <1>6, <1>11, <1>12 DEF Spares

\* unselected.remove takes out nothing but an entry that was asked for.
LEMMA RemovedEffect ==
  ASSUME NEW T, NEW h \in Seq(T), NEW p, NEW pl
  PROVE  Spares(Removed(h, p, pl), h, {b \in T : b.p = p /\ b.pl = pl}, T)
<1> DEFINE matches == {i \in DOMAIN h : h[i].p = p /\ h[i].pl = pl}
           first == CHOOSE i \in matches : \A j \in matches : i <= j
<1>0. DOMAIN h = 1..Len(h) /\ Len(h) \in Nat /\ \A i \in 1..Len(h) : h[i] \in T
  OBVIOUS
<1>1. CASE matches = {}
  BY <1>1 DEF Removed, Spares
<1>2. CASE matches # {}
  <2>1. matches \subseteq Nat
    BY <1>0
  <2>2. Removed(h, p, pl) = RemoveAt(h, first)
    BY <1>2 DEF Removed
  <2>3. \E i \in matches : \A j \in matches : i <= j
    <3> HIDE DEF matches
    <3> QED
      BY <1>2, <2>1, LeastNumber
  <2>4. first \in matches
    <3> HIDE DEF matches
    <3> QED
      BY <2>3
  <2> HIDE DEF first
  <2>5. Spares(RemoveAt(h, first), h, {h[first]}, T)
    <3>1. PICK i \in 1..Len(h) : i = first
      BY <1>0, <2>4
    <3>2. Spares(RemoveAt(h, i), h, {h[i]}, T)
      BY RemoveAtEffect
    <3> QED
      BY <3>1, <3>2
  <2>6. h[first] \in T /\ h[first].p = p /\ h[first].pl = pl
    BY <1>0, <2>4
  <2> QED
    BY <2>2, <2>5, <2>6 DEF Spares
<1> QED
  BY <1>1, <1>2

IsRemoving(f, h, ds) ==
  f = [i \in 0..Len(ds) |-> IF i = 0 THEN h ELSE Removed(f[i - 1], ds[i].on, ds[i].pl)]
Removing(h, ds) == CHOOSE f : IsRemoving(f, h, ds)

\* Nor do several of them.
LEMMA RemovedAllEffect ==
  ASSUME NEW T, NEW h \in Seq(T), NEW D, NEW ds \in Seq(D)
  PROVE  Spares(RemovedAll(h, ds), h, {b \in T : \E d \in ToSet(ds) : b.p = d.on}, T)
<1> DEFINE n == Len(ds)
           F == [i \in 1..n |-> [y \in Seq(T) |-> Removed(y, ds[i].on, ds[i].pl)]]
           f == Removing(h, ds)
           gone == {b \in T : \E d \in ToSet(ds) : b.p = d.on}
<1>0. n \in Nat /\ DOMAIN ds = 1..n /\ \A i \in 1..n : ds[i] \in ToSet(ds)
  BY DEF ToSet
<1>1. F \in [1..n -> [Seq(T) -> Seq(T)]]
  <2>1. ASSUME NEW i \in 1..n, NEW y \in Seq(T) PROVE Removed(y, ds[i].on, ds[i].pl) \in Seq(T)
    BY <1>0, RemovedEffect DEF Spares
  <2> QED
    BY <2>1
<1>2. PICK g : Runs(g, n, Seq(T), h, F)
  <2> HIDE DEF F
  <2> QED
    BY <1>0, <1>1, RecursionExists
<1>3. IsRemoving(g, h, ds)
  <2>1. ASSUME NEW i \in 0..n
        PROVE  g[i] = IF i = 0 THEN h ELSE Removed(g[i - 1], ds[i].on, ds[i].pl)
    <3>1. g[i] = IF i = 0 THEN h ELSE F[i][g[i - 1]]
      BY <1>2 DEF Runs
    <3>2. i # 0 => i \in 1..n /\ i - 1 \in 0..n
      BY <1>0
    <3>3. i # 0 => g[i - 1] \in Seq(T)
      BY <1>2, <3>2 DEF Runs
    <3> QED
      BY <3>1, <3>2, <3>3
  <2> HIDE DEF F
  <2> QED
    BY <1>2, <2>1 DEF IsRemoving, Runs
<1>4. IsRemoving(f, h, ds)
  BY <1>3, Zenon DEF Removing
<1>5. RemovedAll(h, ds) = f[n]
  BY DEF RemovedAll, Removing, IsRemoving
<1> DEFINE Good == {i \in 0..n : Spares(f[i], h, gone, T)}
<1> HIDE DEF f, F
<1>6. \A i \in 0..n : f[i] = IF i = 0 THEN h ELSE Removed(f[i - 1], ds[i].on, ds[i].pl)
  BY <1>4 DEF IsRemoving
<1>7. 0 \in Good
  <2>1. f[0] = h
    BY <1>0, <1>6
  <2> QED
    BY <1>0, <2>1 DEF Spares
<1>8. ASSUME NEW i \in 1..n, i - 1 \in Good PROVE i \in Good
  <2>1. f[i - 1] \in Seq(T) /\ Spares(f[i - 1], h, gone, T)
    BY <1>8 DEF Spares
  <2>2. f[i] = Removed(f[i - 1], ds[i].on, ds[i].pl)
    BY <1>0, <1>6
  <2>3. Spares(f[i], f[i - 1], {b \in T : b.p = ds[i].on /\ b.pl = ds[i].pl}, T)
    <3>1. PICK y \in Seq(T) : y = f[i - 1]
      BY <2>1
    <3>2. Spares(Removed(y, ds[i].on, ds[i].pl), y, {b \in T : b.p = ds[i].on /\ b.pl = ds[i].pl}, T)
      BY RemovedEffect
    <3> QED
      BY <2>2, <3>1, <3>2
  <2>4. {b \in T : b.p = ds[i].on /\ b.pl = ds[i].pl} \subseteq gone
    BY <1>0
  <2> HIDE DEF gone
  <2>5. Spares(f[i], h, gone, T)
    BY <2>1, <2>3, <2>4 DEF Spares
  <2> QED
    BY <1>0, <2>5
<1>9. \A i \in 0..n : i \in Good
  <2> HIDE DEF Good
  <2> QED
    BY <1>0, <1>7, <1>8, StepByStep
<1>10. n \in Good
  <2> HIDE DEF Good
  <2> QED
    BY <1>0, <1>9
<1> QED
  BY <1>0, <1>5, <1>10


-----------------------------------------------------------------------------
(* Solver: sequences, and stacks that follow a set of places.               *)

\* An order of a finite set has its elements and no others.
LEMMA OrderEffect ==
  ASSUME NEW S, IsFiniteSet(S), NEW order \in SetToSeqs(S)
  PROVE  order \in Seq(S) /\ ToSet(order) = S
<1> DEFINE n == Cardinality(S)
           D == 1..n
<1>1. n \in Nat
  BY FS_CardinalityType
<1>2. order \in [D -> S] /\ \A i, j \in D : i # j => order[i] # order[j]
  BY DEF SetToSeqs
<1>3. order \in Injection(D, S)
  BY <1>2 DEF Injection, IsInjective
<1>4. Cardinality(D) = n
  <2>1. Cardinality(1..n) = IF 1 > n THEN 0 ELSE n - 1 + 1
    <3>1. 1 \in Int /\ n \in Int
      BY <1>1
    <3> HIDE DEF n
    <3> QED
      BY <3>1, FS_Interval
  <2> HIDE DEF n
  <2> QED
    BY <1>1, <2>1
<1>5. order \in Surjection(D, S)
  <2> HIDE DEF D
  <2> QED
    BY <1>3, <1>4, FS_Injection
<1>6. \A x \in S : \E i \in D : order[i] = x
  BY <1>5 DEF Surjection
<1> HIDE DEF n
<1>7. order \in Seq(S)
  BY <1>1, <1>2
<1>8. DOMAIN order = D
  BY <1>2
<1> QED
  BY <1>2, <1>6, <1>7, <1>8 DEF ToSet

\* Front drops the last element.
LEMMA FrontEffect ==
  ASSUME NEW T, NEW s \in Seq(T), s # <<>>
  PROVE  /\ Front(s) \in Seq(T)
         /\ Len(s) \in Nat \ {0}
         /\ Len(Front(s)) = Len(s) - 1
         /\ \A i \in 1..(Len(s) - 1) : Front(s)[i] = s[i]
         /\ Last(s) = s[Len(s)] /\ Last(s) \in T
<1>1. Len(s) \in Nat \ {0} /\ \A i \in 1..Len(s) : s[i] \in T
  OBVIOUS
<1>2. /\ SubSeq(s, 1, Len(s) - 1) \in Seq(T)
      /\ Len(SubSeq(s, 1, Len(s) - 1)) = Len(s) - 1
      /\ \A i \in 1..(Len(s) - 1) : SubSeq(s, 1, Len(s) - 1)[i] = s[i]
  <2>1. \A n \in 0..Len(s) : /\ SubSeq(s, 1, n) \in Seq(T)
                             /\ Len(SubSeq(s, 1, n)) = n
                             /\ \A i \in 1..n : SubSeq(s, 1, n)[i] = s[i]
    OBVIOUS
  <2>2. Len(s) - 1 \in 0..Len(s)
    BY <1>1
  <2> QED
    BY <2>1, <2>2
<1>3. Last(s) = s[Len(s)] /\ Last(s) \in T
  BY <1>1 DEF Last
<1> QED
  BY <1>1, <1>2, <1>3 DEF Front

\* The numbers 1..n stand in order for the members of T.
InOrder(at, n, T) ==
  /\ at \in [1..n -> T]
  /\ \A i, j \in 1..n : i < j => at[i] < at[j]
  /\ \A k \in T : \E i \in 1..n : at[i] = k

\* The elements of s are those of the places T, in order, and M says which ones a place
\* can have.
Follows(s, T, M) ==
  \E at \in [1..Len(s) -> T] :
    InOrder(at, Len(s), T) /\ \A i \in 1..Len(s) : s[i] \in M[at[i]]

\* Follows looks only at what M says of the places.
LEMMA FollowsSame ==
  ASSUME NEW s, NEW T, NEW M, Follows(s, T, M), NEW M2, \A k \in T : M2[k] = M[k]
  PROVE  Follows(s, T, M2)
BY DEF Follows

\* The empty sequence has no places.
LEMMA FollowsNone ==
  ASSUME NEW M
  PROVE  Follows(<<>>, {}, M)
<1> DEFINE at == [i \in 1..0 |-> 0]
<1>1. Len(<<>>) = 0 /\ at \in [1..0 -> {}] /\ InOrder(at, 0, {})
  BY DEF InOrder
<1> QED
  BY <1>1 DEF Follows

\* One more element for one more place, after all others.
LEMMA FollowsPush ==
  ASSUME NEW X, NEW s \in Seq(X), NEW x \in X, NEW T, NEW M, Follows(s, T, M),
         NEW m \in Nat, T \subseteq 1..m,
         NEW M2, \A k \in T : M2[k] = M[k], x \in M2[m + 1]
  PROVE  Follows(Append(s, x), T \cup {m + 1}, M2)
<1> DEFINE n == Len(s)
           w == Append(s, x)
           T2 == T \cup {m + 1}
<1>1. PICK at \in [1..n -> T] :
        InOrder(at, n, T) /\ \A i \in 1..n : s[i] \in M[at[i]]
  BY DEF Follows
<1> DEFINE at2 == [i \in 1..(n + 1) |-> IF i = n + 1 THEN m + 1 ELSE at[i]]
<1>2. n \in Nat /\ Len(w) = n + 1 /\ w[n + 1] = x /\ \A i \in 1..n : w[i] = s[i]
  OBVIOUS
<1>3. at2 \in [1..(n + 1) -> T2]
  BY <1>1, <1>2
<1>4. ASSUME NEW i \in 1..(n + 1), NEW j \in 1..(n + 1), i < j PROVE at2[i] < at2[j]
  <2>1. CASE j = n + 1
    <3>0. i \in 1..n /\ n \in Nat
      BY <1>2, <1>4, <2>1
    <3>1. i \in 1..n /\ at[i] \in 1..m
      BY <1>1, <3>0
    <3> QED
      BY <1>2, <2>1, <3>1
  <2>2. CASE j # n + 1
    <3>1. i \in 1..n /\ j \in 1..n
      BY <1>2, <1>4, <2>2
    <3> QED
      BY <1>1, <1>2, <1>4, <3>1 DEF InOrder
  <2> QED
    BY <2>1, <2>2
<1>5. ASSUME NEW k \in T2 PROVE \E i \in 1..(n + 1) : at2[i] = k
  BY <1>1, <1>2 DEF InOrder
<1>6. InOrder(at2, n + 1, T2)
  BY <1>3, <1>4, <1>5 DEF InOrder
<1>7. ASSUME NEW i \in 1..(n + 1) PROVE w[i] \in M2[at2[i]]
  <2>1. CASE i = n + 1
    BY <1>2, <2>1
  <2>2. CASE i # n + 1
    <3>1. i \in 1..n /\ at2[i] = at[i] /\ at[i] \in T /\ w[i] = s[i]
      BY <1>1, <1>2, <2>2
    <3> QED
      BY <1>1, <3>1
  <2> QED
    BY <2>1, <2>2
<1> HIDE DEF at2, w, T2
<1> QED
  BY <1>2, <1>3, <1>6, <1>7 DEF Follows, w, T2

\* The last place and the last element go together.
LEMMA FollowsPop ==
  ASSUME NEW X, NEW s \in Seq(X), NEW T, NEW M, Follows(s, T, M),
         T \subseteq Nat, NEW m \in T, \A k \in T : k <= m,
         NEW M2, \A k \in T \ {m} : M2[k] = M[k]
  PROVE  s # <<>> /\ Last(s) \in M[m] /\ Follows(Front(s), T \ {m}, M2)
<1> DEFINE n == Len(s)
           w == Front(s)
           T2 == T \ {m}
<1>1. PICK at \in [1..n -> T] :
        InOrder(at, n, T) /\ \A i \in 1..n : s[i] \in M[at[i]]
  BY DEF Follows
<1>2. n \in Nat
  OBVIOUS
<1>3. PICK j \in 1..n : at[j] = m
  BY <1>1 DEF InOrder
<1>4. n \in 1..n /\ s # <<>>
  BY <1>2, <1>3
<1>5. at[n] = m
  <2>1. CASE j = n
    BY <1>3, <2>1
  <2>2. CASE j # n
    <3>0. j < n
      BY <1>2, <1>3, <2>2
    <3>1. j < n /\ at[n] \in T /\ at[n] \in Nat /\ m \in Nat
      BY <1>1, <1>4, <3>0
    <3>2. at[j] < at[n] /\ at[n] <= m
      BY <1>1, <1>3, <1>4, <3>1 DEF InOrder
    <3> QED
      BY <1>3, <3>1, <3>2
  <2> QED
    BY <2>1, <2>2
<1>6. Len(w) = n - 1 /\ (\A i \in 1..(n - 1) : w[i] = s[i]) /\ Last(s) = s[n]
  BY <1>4, FrontEffect
<1> DEFINE at2 == [i \in 1..(n - 1) |-> at[i]]
<1>7. ASSUME NEW i \in 1..(n - 1) PROVE at[i] \in T2
  <2>1. i \in 1..n /\ i < n
    BY <1>2
  <2>2. at[i] < at[n] /\ at[i] \in T
    BY <1>1, <1>4, <2>1 DEF InOrder
  <2> QED
    BY <1>5, <2>2
<1>8. at2 \in [1..(n - 1) -> T2]
  BY <1>7
<1>9. ASSUME NEW k \in T2 PROVE \E i \in 1..(n - 1) : at2[i] = k
  <2>1. PICK i \in 1..n : at[i] = k
    BY <1>1 DEF InOrder
  <2>2. i # n
    BY <1>5, <2>1
  <2> QED
    BY <1>2, <2>1, <2>2
<1>10. ASSUME NEW i \in 1..(n - 1), NEW k \in 1..(n - 1), i < k PROVE at2[i] < at2[k]
  BY <1>1, <1>2, <1>10 DEF InOrder
<1>11. InOrder(at2, n - 1, T2)
  BY <1>8, <1>9, <1>10 DEF InOrder
<1>12. ASSUME NEW i \in 1..(n - 1) PROVE w[i] \in M2[at2[i]]
  <2>1. i \in 1..n
    BY <1>2
  <2> QED
    BY <1>1, <1>6, <1>7, <2>1
<1>13. Last(s) \in M[m]
  BY <1>1, <1>4, <1>5, <1>6
<1> HIDE DEF at2, w, T2
<1>14. Follows(w, T2, M2)
  BY <1>6, <1>8, <1>11, <1>12 DEF Follows
<1> QED
  BY <1>4, <1>13, <1>14 DEF w, T2


-----------------------------------------------------------------------------
(* Solver: what the universe imports.                                       *)

\* The dependencies of p at v, at most one on a project.
AreDependencies(ds, p, v) ==
  /\ IsFiniteSet(ds)
  /\ \A d \in ds : /\ d.on \in Proj /\ d.by = p /\ d.v = v /\ d.c = RuleOf(p, v, d.on)
                   /\ d.pl \subseteq Pkg /\ d.pl # {}
                   /\ Edge(d) \in Dependency
  /\ \A d, e \in ds : d.on = e.on => d = e

\* They import all of imports, and nothing else.
ImportAll(ds, imports) ==
  /\ \A i \in imports : \E d \in ds : d.on = i[1] /\ i[2] \in d.pl
  /\ \A d \in ds : \A k \in d.pl : <<d.on, k>> \in imports

\* A set of records with different projects is finite.
LEMMA FinitelyMany ==
  ASSUME NEW ds, NEW f \in [ds -> Proj], \A d, e \in ds : f[d] = f[e] => d = e
  PROVE  IsFiniteSet(ds)
<1>1. f \in Injection(ds, Proj)
  BY DEF Injection, IsInjective
<1>2. IsFiniteSet(Proj)
  BY SolverConstants
<1> QED
  BY <1>1, <1>2, FS_Injection

\* The dependencies of an atom: one for each project imported, with its packages and rule.
LEMMA DependenciesAre ==
  ASSUME u \in Universe, NEW p \in Proj \cup {Root}, NEW v \in Ver \cup {None},
         p = Root \/ v \in Ver, NEW imports \in SUBSET (Proj \X Pkg)
  PROVE  /\ AreDependencies(DependenciesOf(p, v, imports), p, v)
         /\ ImportAll(DependenciesOf(p, v, imports), imports)
<1> DEFINE ds == DependenciesOf(p, v, imports)
           D(p2) == [on |-> p2, by |-> p, v |-> v, c |-> RuleOf(p, v, p2),
                     pl |-> {k \in Pkg : <<p2, k>> \in imports}]
<1>1. ds = {D(p2) : p2 \in {i[1] : i \in imports}}
  BY DEF DependenciesOf
<1>2. \A i \in imports : i = <<i[1], i[2]>> /\ i[1] \in Proj /\ i[2] \in Pkg
  OBVIOUS
<1>3. \A p2 \in Proj : RuleOf(p, v, p2) \subseteq Ver
  BY UniverseAssumption, SolverConstants DEF RuleOf
<1>4. ASSUME NEW d \in ds
      PROVE  /\ d.on \in Proj /\ d.by = p /\ d.v = v /\ d.c = RuleOf(p, v, d.on)
             /\ d.pl = {k \in Pkg : <<d.on, k>> \in imports} /\ d.pl # {}
             /\ Edge(d) \in Dependency
             /\ d = D(d.on)
  <2>1. PICK i \in imports : d = D(i[1])
    BY <1>1
  <2>2. d.on = i[1] /\ d.by = p /\ d.v = v /\ d.c = RuleOf(p, v, i[1])
        /\ d.pl = {k \in Pkg : <<i[1], k>> \in imports}
    BY <2>1
  <2>3. i[1] \in Proj /\ i[2] \in d.pl /\ d.pl \subseteq Pkg
    BY <1>2, <2>2
  <2>4. d.c \subseteq Ver
    BY <1>3, <2>2, <2>3
  <2>5. Edge(d) \in Dependency
    BY <2>2, <2>3, <2>4 DEF Edge, Dependency
  <2> QED
    BY <2>1, <2>2, <2>3, <2>5
<1>5. \A d, e \in ds : d.on = e.on => d = e
  BY <1>4
<1>6. IsFiniteSet(ds)
  <2> DEFINE f == [d \in ds |-> d.on]
  <2>1. f \in [ds -> Proj] /\ \A d, e \in ds : f[d] = f[e] => d = e
    BY <1>4, <1>5
  <2> HIDE DEF f, ds
  <2> QED
    BY <2>1, FinitelyMany
<1>7. ASSUME NEW i \in imports PROVE \E d \in ds : d.on = i[1] /\ i[2] \in d.pl
  <2>1. D(i[1]) \in ds
    BY <1>1
  <2>2. D(i[1]).on = i[1] /\ D(i[1]).pl = {k \in Pkg : <<i[1], k>> \in imports}
    OBVIOUS
  <2>3. i[2] \in Pkg /\ <<i[1], i[2]>> \in imports
    BY <1>2
  <2>4. i[2] \in D(i[1]).pl
    BY <2>2, <2>3
  <2> HIDE DEF D, ds
  <2> QED
    BY <2>1, <2>2, <2>4
<1>8. ASSUME NEW d \in ds, NEW k \in d.pl PROVE <<d.on, k>> \in imports
  <2>1. d.pl = {l \in Pkg : <<d.on, l>> \in imports}
    BY <1>4
  <2> HIDE DEF ds
  <2> QED
    BY <1>8, <2>1
<1> HIDE DEF ds, D
<1>9. AreDependencies(ds, p, v)
  BY <1>4, <1>5, <1>6 DEF AreDependencies
<1>10. ImportAll(ds, imports)
  BY <1>7, <1>8 DEF ImportAll
<1> QED
  BY <1>9, <1>10 DEF ds

\* What the root imports.
LEMMA RootImports ==
  ASSUME u \in Universe
  PROVE  /\ AreDependencies(DependenciesOf(Root, None, Imports(u)), Root, None)
         /\ ImportAll(DependenciesOf(Root, None, Imports(u)), Imports(u))
<1>1. Imports(u) \in SUBSET (Proj \X Pkg)
  BY UniverseAssumption
<1> QED
  BY <1>1, DependenciesAre

\* What some packages of a project import, of other projects.
LEMMA PackagesImport ==
  ASSUME u \in Universe, NEW p \in Proj, NEW v \in Ver, NEW pl \in SUBSET Pkg
  PROVE  /\ AreDependencies(DepsOf(p, v, pl), p, v)
         /\ ImportAll(DepsOf(p, v, pl), UNION {External(u, p, v, k) : k \in pl})
         /\ \A d \in DepsOf(p, v, pl) : d.on # p
<1> DEFINE imports == UNION {External(u, p, v, k) : k \in pl}
<1>1. imports \subseteq (Proj \ {p}) \X Pkg
  <2>1. \A k \in pl : External(u, p, v, k) \subseteq (Proj \ {p}) \X Pkg
    BY UniverseAssumption
  <2> QED
    BY <2>1
<1>2. imports \in SUBSET (Proj \X Pkg)
  BY <1>1
<1>3. DepsOf(p, v, pl) = DependenciesOf(p, v, imports)
  BY DEF DepsOf
<1> HIDE DEF imports
<1>4. AreDependencies(DependenciesOf(p, v, imports), p, v) /\ ImportAll(DependenciesOf(p, v, imports), imports)
  BY <1>2, DependenciesAre
<1>5. ASSUME NEW d \in DependenciesOf(p, v, imports) PROVE d.on # p
  <2>1. PICK k : k \in d.pl
    BY <1>4, <1>5 DEF AreDependencies
  <2>2. <<d.on, k>> \in imports
    BY <1>4, <1>5, <2>1 DEF ImportAll
  <2> QED
    BY <1>1, <2>2
<1> QED
  BY <1>3, <1>4, <1>5 DEF imports

\* The packages that some packages reach in their project import nothing more.
LEMMA InternalImportsNothing ==
  ASSUME u \in Universe, NEW p \in Proj, NEW v \in Ver, NEW pl \in SUBSET Pkg
  PROVE  /\ WithInternal(p, v, pl) \in SUBSET Pkg
         /\ pl \subseteq WithInternal(p, v, pl)
         /\ DepsOf(p, v, WithInternal(p, v, pl)) = DepsOf(p, v, pl)
         /\ \A k \in WithInternal(p, v, pl) : Internal(u, p, v, k) \subseteq WithInternal(p, v, pl)
         /\ pl \subseteq Reachable(p, v) => WithInternal(p, v, pl) \subseteq Reachable(p, v)
<1> DEFINE all == WithInternal(p, v, pl)
<1>1. \A k \in Pkg : /\ Internal(u, p, v, k) \subseteq Pkg
                     /\ \A k2 \in Internal(u, p, v, k) :
                          /\ Internal(u, p, v, k2) \subseteq Internal(u, p, v, k)
                          /\ External(u, p, v, k2) \subseteq External(u, p, v, k)
  BY UniverseAssumption
<1>2. \A k \in all : k \in pl \/ \E k1 \in pl : k \in Internal(u, p, v, k1)
  BY DEF WithInternal
<1>3. pl \subseteq all /\ \A k1 \in pl : Internal(u, p, v, k1) \subseteq all
  BY DEF WithInternal
<1> HIDE DEF all
<1>4. all \subseteq Pkg
  BY <1>1, <1>2
<1>5. UNION {External(u, p, v, k) : k \in all} = UNION {External(u, p, v, k) : k \in pl}
  <2>1. ASSUME NEW k \in all PROVE External(u, p, v, k) \subseteq UNION {External(u, p, v, k1) : k1 \in pl}
    BY <1>1, <1>2
  <2> QED
    BY <1>3, <2>1
<1>6. \A k \in all : Internal(u, p, v, k) \subseteq all
  BY <1>1, <1>2, <1>3
<1>7. ASSUME pl \subseteq Reachable(p, v), NEW k \in all PROVE k \in Reachable(p, v)
  BY <1>1, <1>2, <1>7 DEF Reachable
<1>8. DepsOf(p, v, all) = DepsOf(p, v, pl)
  BY <1>5 DEF DepsOf
<1> QED
  BY <1>3, <1>4, <1>6, <1>7, <1>8 DEF all


-----------------------------------------------------------------------------
(* Solver: the invariant.                                                   *)

Atom == [p : Proj \cup {Root}, v : Ver \cup {None}, pl : SUBSET Pkg, first : BOOLEAN]
Entry == [p : Proj, pl : SUBSET Pkg, fromRoot : BOOLEAN, prefv : Ver \cup {None}]
RootAtom == [p |-> Root, v |-> None, pl |-> {}, first |-> TRUE]
Busy == {"start", "loop", "search", "backtrack", "discard", "revisit"}

IsQueue(x) ==
  x \in [p : Proj, lockv : {x.lockv}, prefv : {x.prefv}, failed : {x.failed},
         pi : {x.pi}, allLoaded : {x.allLoaded}]
AreQueues(s) == s \in Seq(ToSet(s)) /\ \A x \in ToSet(s) : IsQueue(x)

SvTypes ==
  /\ u \in Universe
  /\ projects \in Seq(Atom)
  /\ deps \in [Proj -> Seq(Dependency)]
  /\ unsel \in Seq(Entry)
  /\ AreQueues(vqs)
  /\ phase \in {"search", "discard", "revisit"} => IsQueue(q)
  /\ goal \in SUBSET Pkg
  /\ phase \in Busy \cup Final

\* The root is selected first, and no other selection is of it.
Rooted ==
  /\ phase = "start" <=> projects = <<>>
  /\ phase = "start" => unsel = <<>> /\ vqs = <<>> /\ \A p \in Proj : deps[p] = <<>>
  /\ projects # <<>> => projects[1] = RootAtom
  /\ \A i \in DOMAIN projects : i # 1 => projects[i].p \in Proj /\ projects[i].v \in Ver

\* The dependencies that the i-th selection of s pushed, in the universe x.
ImportedBy(x, p, v, imports) ==
  {[on |-> p2, by |-> p, v |-> v, c |-> IF p = Root THEN RootRule(x, p2) ELSE Rule(x, p, v, p2),
    pl |-> {k \in Pkg : <<p2, k>> \in imports}] : p2 \in {i[1] : i \in imports}}
ImportedAt(x, s, i) ==
  IF i = 1 THEN ImportedBy(x, Root, None, Imports(x))
  ELSE ImportedBy(x, s[i].p, s[i].v, UNION {External(x, s[i].p, s[i].v, k) : k \in s[i].pl})

\* The places of the stack of selections that depend on p, and with what edges.
On(x, s, p) == {i \in DOMAIN s : \E d \in ImportedAt(x, s, i) : d.on = p}
EdgesOn(x, s, p) == [i \in On(x, s, p) |-> {Edge(d) : d \in {e \in ImportedAt(x, s, i) : e.on = p}}]
DepsFollow == \A p \in Proj : Follows(deps[p], On(u, projects, p), EdgesOn(u, projects, p))

\* The queues, with the one that was taken off the stack to be advanced, are those of the
\* first selections.
Key(x) == <<x.p, Head(x.pi)>>
Keys(s) == [i \in 1..Len(s) |-> Key(s[i])]
FirstsOf(s) == {i \in DOMAIN s : s[i].first /\ s[i].p # Root}
KeysOn(s) == [i \in FirstsOf(s) |-> {<<s[i].p, s[i].v>>}]
PickedKeys == IF phase \in {"discard", "revisit"} THEN Append(Keys(vqs), Key(q)) ELSE Keys(vqs)
QueuesFollow == Follows(PickedKeys, FirstsOf(projects), KeysOn(projects))

\* A project is selected at one version, first when it has not been selected before.
SelectedOnce ==
  /\ \A i, j \in DOMAIN projects : projects[i].p = projects[j].p => projects[i].v = projects[j].v
  /\ \A i \in DOMAIN projects :
       projects[i].first <=> \A j \in 1..(i - 1) : projects[j].p # projects[i].p
  /\ phase = "search" => \A i \in DOMAIN projects : projects[i].p # q.p

\* Its version satisfies every edge on it.
RulesKept ==
  \A i \in DOMAIN projects : i # 1 =>
    \A j \in DOMAIN deps[projects[i].p] : projects[i].v \in deps[projects[i].p][j].c

\* Its packages can be analysed, and are all that they reach.
Analysed ==
  \A i \in DOMAIN projects : i # 1 =>
    \A k \in projects[i].pl :
      /\ k \in Tree(u, projects[i].p, projects[i].v)
      /\ Internal(u, projects[i].p, projects[i].v, k)
           \subseteq Tree(u, projects[i].p, projects[i].v) \cap projects[i].pl

\* What is depended upon is selected or on the heap.
IsChosen(s, p, k) == \E i \in DOMAIN s : s[i].p = p /\ k \in s[i].pl
IsAwaited(h, p, k) == \E b \in ToSet(h) : b.p = p /\ k \in b.pl
Accounted ==
  \A p \in Proj : \A j \in DOMAIN deps[p] : \A k \in deps[p][j].pl :
    IsChosen(projects, p, k) \/ IsAwaited(unsel, p, k)

Done == phase = "solved" => unsel = <<>>

SvInv ==
  /\ SvTypes /\ Rooted /\ DepsFollow /\ QueuesFollow
  /\ SelectedOnce /\ RulesKept /\ Analysed /\ Accounted /\ Done

\* ImportedAt is what the actions push for that place.
LEMMA ImportedAtIs ==
  ASSUME NEW s, NEW i
  PROVE  ImportedAt(u, s, i) = IF i = 1 THEN DependenciesOf(Root, None, Imports(u))
                               ELSE DepsOf(s[i].p, s[i].v, s[i].pl)
BY DEF ImportedAt, ImportedBy, DependenciesOf, DepsOf, RuleOf

-----------------------------------------------------------------------------
(* Solver: a selection is pushed.                                           *)

\* The atom a is selected: its dependencies ds are pushed, and new goes to the heap h.
Pushed(a, ds, h, new) ==
  /\ projects' = Append(projects, a)
  /\ deps' \in [Proj -> Seq(Dependency)]
  /\ \A p \in Proj : (\A d \in ds : d.on # p) => deps'[p] = deps[p]
  /\ \A d \in ds : deps'[d.on] = Append(deps[d.on], Edge(d))
  /\ unsel' \in Seq(Entry) /\ ToSet(unsel') = ToSet(h) \cup new

NewEntries(fromRoot, ds) ==
  {Unselected(fromRoot, d) : d \in {x \in ds : Introduced(fromRoot, x) # {}}}

\* What goes to the heap are finitely many entries, one for each project.
LEMMA NewEntriesAre ==
  ASSUME u \in Universe, NEW fromRoot \in BOOLEAN, NEW p, NEW v, fromRoot \/ (p \in Proj /\ v \in Ver),
         NEW ds, AreDependencies(ds, p, v)
  PROVE  NewEntries(fromRoot, ds) \subseteq Entry /\ IsFiniteSet(NewEntries(fromRoot, ds))
<1> DEFINE new == NewEntries(fromRoot, ds)
<1>1. ASSUME NEW b \in new
      PROVE  b \in Entry /\ b.p \in Proj /\ \E d \in ds : b = Unselected(fromRoot, d) /\ b.p = d.on
  <2>1. PICK d \in ds : b = Unselected(fromRoot, d)
    BY <1>1 DEF NewEntries
  <2>2. d.on \in Proj /\ d.by = p /\ d.v = v /\ d.pl \subseteq Pkg
    BY DEF AreDependencies
  <2>3. Introduced(fromRoot, d) \in SUBSET Pkg
    BY <2>2 DEF Introduced
  <2>4. ~fromRoot => Hint(u, d.by, d.v, d.on) \in Ver \cup {None}
    BY <2>2, UniverseAssumption
  <2>5. b = [p |-> d.on, pl |-> Introduced(fromRoot, d), fromRoot |-> fromRoot,
             prefv |-> IF fromRoot THEN None ELSE Hint(u, d.by, d.v, d.on)]
    BY <2>1 DEF Unselected
  <2>6. b \in Entry /\ b.p = d.on
    BY <2>2, <2>3, <2>4, <2>5 DEF Entry
  <2> QED
    BY <2>1, <2>2, <2>6
<1>2. \A b, c \in new : b.p = c.p => b = c
  BY <1>1 DEF AreDependencies
<1> DEFINE f == [b \in new |-> b.p]
<1>3. f \in [new -> Proj] /\ \A b, c \in new : f[b] = f[c] => b = c
  BY <1>1, <1>2
<1>4. IsFiniteSet(new)
  <2> HIDE DEF f, new
  <2> QED
    BY <1>3, FinitelyMany
<1> QED
  BY <1>1, <1>4

\* PushDeps, whatever order it takes the dependencies in.
LEMMA PushDepsEffect ==
  ASSUME u \in Universe, deps \in [Proj -> Seq(Dependency)],
         NEW fromRoot \in BOOLEAN, NEW p, NEW v, fromRoot \/ (p \in Proj /\ v \in Ver),
         NEW ds, AreDependencies(ds, p, v),
         NEW sel, NEW h \in Seq(Entry), PushDeps(sel, fromRoot, h, ds),
         NEW a, projects' = Append(projects, a)
  PROVE  Pushed(a, ds, h, NewEntries(fromRoot, ds))
<1> DEFINE new == NewEntries(fromRoot, ds)
<1>1. new \subseteq Entry /\ IsFiniteSet(new)
  BY NewEntriesAre
<1>2. PICK order \in SetToSeqs(new) : unsel' = HeapPushAll(sel, h, order)
  BY DEF PushDeps, NewEntries
<1> HIDE DEF new
<1>3. order \in Seq(new) /\ ToSet(order) = new
  BY <1>1, OrderEffect
<1>4. order \in Seq(Entry)
  BY <1>1, <1>3
<1>5. Holds(HeapPushAll(sel, h, order), h, ToSet(order), Entry)
  BY <1>4, HeapPushAllEffect
<1>6. unsel' \in Seq(Entry) /\ ToSet(unsel') = ToSet(h) \cup new
  BY <1>2, <1>3, <1>5 DEF Holds
<1> DEFINE after(x) == IF \E d \in ds : d.on = x
                         THEN Append(deps[x], Edge(CHOOSE d \in ds : d.on = x)) ELSE deps[x]
<1>7. deps' = [x \in Proj |-> after(x)]
  BY DEF PushDeps
<1>8. ASSUME NEW d \in ds
      PROVE  d.on \in Proj /\ after(d.on) = Append(deps[d.on], Edge(d)) /\ Edge(d) \in Dependency
  <2>1. (CHOOSE e \in ds : e.on = d.on) = d
    BY DEF AreDependencies
  <2> QED
    BY <2>1 DEF AreDependencies
<1>9. ASSUME NEW x \in Proj, \A d \in ds : d.on # x PROVE after(x) = deps[x]
  BY <1>9
<1>10. ASSUME NEW x \in Proj PROVE after(x) \in Seq(Dependency)
  <2>1. CASE \E d \in ds : d.on = x
    <3>1. PICK d \in ds : d.on = x
      BY <2>1
    <3>2. deps[x] \in Seq(Dependency) /\ Edge(d) \in Dependency
      BY <1>8
    <3>3. Append(deps[x], Edge(d)) \in Seq(Dependency)
      BY <3>2
    <3> HIDE DEF after
    <3> QED
      BY <1>8, <3>1, <3>3
  <2>2. CASE ~\E d \in ds : d.on = x
    BY <2>2
  <2> QED
    BY <2>1, <2>2
<1> HIDE DEF after
<1> QED
  BY <1>6, <1>7, <1>8, <1>9, <1>10 DEF Pushed, new


\* Append adds one element at the end.
LEMMA AppendEffect ==
  ASSUME NEW T, NEW s \in Seq(T), NEW x \in T
  PROVE  /\ Append(s, x) \in Seq(T)
         /\ Len(s) \in Nat
         /\ DOMAIN s = 1..Len(s)
         /\ Len(Append(s, x)) = Len(s) + 1
         /\ DOMAIN Append(s, x) = 1..(Len(s) + 1)
         /\ Append(s, x)[Len(s) + 1] = x
         /\ \A i \in 1..Len(s) : Append(s, x)[i] = s[i] /\ s[i] \in T
OBVIOUS

\* The imports of the selections below a are the same.
LEMMA ImportedKept ==
  ASSUME NEW T, NEW s \in Seq(T), NEW x \in T, NEW i \in 1..Len(s)
  PROVE  ImportedAt(u, Append(s, x), i) = ImportedAt(u, s, i)
BY AppendEffect DEF ImportedAt

\* The stacks of dependencies follow the selections when one is pushed.
LEMMA DepsFollowPushed ==
  ASSUME SvTypes, DepsFollow, u' = u, NEW a \in Atom, NEW ds, NEW h, NEW new,
         Pushed(a, ds, h, new), NEW v, AreDependencies(ds, a.p, v),
         ds = ImportedAt(u, Append(projects, a), Len(projects) + 1)
  PROVE  DepsFollow'
<1> DEFINE n == Len(projects)
           s == Append(projects, a)
<1>1. /\ n \in Nat /\ DOMAIN projects = 1..n /\ DOMAIN s = 1..(n + 1)
      /\ \A i \in 1..n : ImportedAt(u, s, i) = ImportedAt(u, projects, i)
  BY AppendEffect, ImportedKept DEF SvTypes
<1>2. projects' = s
  BY DEF Pushed
<1> HIDE DEF s, n
<1>3. ds = ImportedAt(u, s, n + 1)
  BY DEF s, n
<1>4. ASSUME NEW p \in Proj
      PROVE  Follows(deps'[p], On(u, s, p), EdgesOn(u, s, p))
  <2>1. Follows(deps[p], On(u, projects, p), EdgesOn(u, projects, p)) /\ deps[p] \in Seq(Dependency)
    BY DEF DepsFollow, SvTypes
  <2>2. On(u, projects, p) \subseteq 1..n
    BY <1>1 DEF On
  <2>3. \A k \in On(u, projects, p) :
          k \in On(u, s, p) /\ EdgesOn(u, s, p)[k] = EdgesOn(u, projects, p)[k]
    <3> SUFFICES ASSUME NEW k \in On(u, projects, p)
                 PROVE  k \in On(u, s, p) /\ EdgesOn(u, s, p)[k] = EdgesOn(u, projects, p)[k]
      OBVIOUS
    <3>1. k \in 1..n /\ ImportedAt(u, s, k) = ImportedAt(u, projects, k) /\ k \in DOMAIN s
      BY <1>1 DEF On
    <3>2. k \in On(u, s, p)
      BY <3>1 DEF On
    <3>3. /\ EdgesOn(u, s, p)[k] = {Edge(d) : d \in {e \in ImportedAt(u, s, k) : e.on = p}}
          /\ EdgesOn(u, projects, p)[k] = {Edge(d) : d \in {e \in ImportedAt(u, projects, k) : e.on = p}}
      BY <3>2 DEF EdgesOn
    <3> QED
      BY <3>1, <3>2, <3>3
  <2>4. CASE \A d \in ds : d.on # p
    <3>1. On(u, s, p) = On(u, projects, p)
      BY <1>1, <1>3, <2>4 DEF On
    <3>2. deps'[p] = deps[p]
      BY <2>4 DEF Pushed
    <3> QED
      BY <2>1, <2>3, <3>1, <3>2, FollowsSame
  <2>5. ASSUME NEW d \in ds, d.on = p PROVE Follows(deps'[p], On(u, s, p), EdgesOn(u, s, p))
    <3>1. On(u, s, p) = On(u, projects, p) \cup {n + 1}
      BY <1>1, <1>3, <2>5 DEF On
    <3>2. deps'[p] = Append(deps[p], Edge(d)) /\ Edge(d) \in Dependency
      BY <2>5 DEF Pushed, AreDependencies
    <3>3. n + 1 \in On(u, s, p)
      BY <3>1
    <3>4. Edge(d) \in EdgesOn(u, s, p)[n + 1]
      BY <1>3, <2>5, <3>3 DEF EdgesOn
    <3>5. Follows(Append(deps[p], Edge(d)), On(u, projects, p) \cup {n + 1}, EdgesOn(u, s, p))
      BY <1>1, <2>1, <2>2, <2>3, <3>2, <3>4, FollowsPush
    <3> QED
      BY <3>1, <3>2, <3>5
  <2> QED
    BY <2>4, <2>5
<1> QED
  BY <1>2, <1>4 DEF DepsFollow

\* Every selected version satisfies the edges that are added.
LEMMA RulesKeptPushed ==
  ASSUME SvTypes, Rooted, RulesKept, NEW a \in Atom, NEW ds, NEW h, NEW new,
         Pushed(a, ds, h, new), NEW v, AreDependencies(ds, a.p, v), \A d \in ds : d.on # a.p,
         a = RootAtom \/ (projects # <<>> /\ a.p \in Proj
                           /\ \A j \in DOMAIN deps[a.p] : a.v \in deps[a.p][j].c),
         a = RootAtom => projects = <<>>,
         \A d \in ds : \A i \in DOMAIN projects :
           projects[i].p = d.on => projects[i].v \in d.c
  PROVE  RulesKept'
<1> DEFINE n == Len(projects)
<1>1. /\ n \in Nat /\ DOMAIN projects = 1..n /\ DOMAIN projects' = 1..(n + 1)
      /\ projects'[n + 1] = a
      /\ \A i \in 1..n : projects'[i] = projects[i]
  BY AppendEffect DEF SvTypes, Pushed
<1>2. projects = <<>> <=> n = 0
  BY DEF SvTypes
<1> HIDE DEF n
<1>3. ASSUME NEW i \in 1..(n + 1), i # 1, NEW j \in DOMAIN deps'[projects'[i].p]
      PROVE  projects'[i].v \in deps'[projects'[i].p][j].c
  <2> DEFINE p == projects'[i].p
  <2>1. p \in Proj /\ deps[p] \in Seq(Dependency) /\ DOMAIN deps[p] = 1..Len(deps[p])
    <3>1. p \in Proj
      BY <1>1, <1>2, <1>3 DEF Rooted
    <3> QED
      BY <3>1 DEF SvTypes
  <2>2. \A l \in DOMAIN deps[p] : projects'[i].v \in deps[p][l].c
    <3>1. CASE i = n + 1
      BY <1>1, <1>2, <1>3, <3>1
    <3>2. CASE i # n + 1
      <4>1. i \in 1..n /\ projects'[i] = projects[i]
        BY <1>1, <1>3, <3>2
      <4> QED
        BY <1>1, <1>3, <4>1 DEF RulesKept
    <3> QED
      BY <3>1, <3>2
  <2>3. CASE \A d \in ds : d.on # p
    <3>1. deps'[p] = deps[p]
      BY <2>1, <2>3 DEF Pushed
    <3> QED
      BY <1>3, <2>2, <3>1
  <2>4. ASSUME NEW d \in ds, d.on = p PROVE projects'[i].v \in deps'[p][j].c
    <3>1. deps'[p] = Append(deps[p], Edge(d)) /\ Edge(d) \in Dependency
      BY <2>4 DEF Pushed, AreDependencies
    <3>2. CASE j = Len(deps[p]) + 1
      <4>1. deps'[p][j].c = d.c
        BY <2>1, <3>1, <3>2, AppendEffect DEF Edge
      <4>2. i \in 1..n /\ projects'[i] = projects[i]
        BY <1>1, <1>3, <2>4
      <4> QED
        BY <1>1, <2>4, <4>1, <4>2
    <3>3. CASE j # Len(deps[p]) + 1
      <4>1. j \in 1..Len(deps[p]) /\ deps'[p][j] = deps[p][j]
        <5>1. DOMAIN deps'[p] = 1..(Len(deps[p]) + 1) /\ Len(deps[p]) \in Nat
              /\ \A l \in 1..Len(deps[p]) : deps'[p][l] = deps[p][l]
          BY <2>1, <3>1, AppendEffect
        <5> QED
          BY <1>3, <3>3, <5>1
      <4> QED
        BY <2>1, <2>2, <4>1
    <3> QED
      BY <3>2, <3>3
  <2> QED
    BY <2>3, <2>4
<1> QED
  BY <1>1, <1>3 DEF RulesKept

\* What the new selection wants, and what it took from the heap, is accounted for.
LEMMA AccountedPushed ==
  ASSUME SvTypes, Accounted, NEW a \in Atom, NEW ds, NEW h, NEW fromRoot \in BOOLEAN,
         Pushed(a, ds, h, NewEntries(fromRoot, ds)), NEW v, AreDependencies(ds, a.p, v),
         NEW pl \in SUBSET a.pl,
         ToSet(unsel) \ {b \in Entry : b.p = a.p /\ b.pl = pl} \subseteq ToSet(h)
  PROVE  Accounted'
<1> DEFINE n == Len(projects)
           new == NewEntries(fromRoot, ds)
           met(p, k) == IsChosen(projects', p, k) \/ IsAwaited(unsel', p, k)
<1>1. /\ n \in Nat /\ DOMAIN projects = 1..n /\ DOMAIN projects' = 1..(n + 1)
      /\ projects'[n + 1] = a
      /\ \A i \in 1..n : projects'[i] = projects[i]
  BY AppendEffect DEF SvTypes, Pushed
<1>2. ToSet(unsel') = ToSet(h) \cup new /\ ToSet(unsel) \subseteq Entry
  <2>1. unsel \in Seq(Entry)
    BY DEF SvTypes
  <2>2. ToSet(unsel) \subseteq Entry
    BY <2>1 DEF ToSet
  <2> QED
    BY <2>2 DEF Pushed
<1> HIDE DEF n, new
<1>3. ASSUME NEW p \in Proj, NEW k, IsChosen(projects, p, k) PROVE met(p, k)
  BY <1>1, <1>3 DEF IsChosen
<1>4. ASSUME NEW p \in Proj, NEW k, IsAwaited(unsel, p, k) PROVE met(p, k)
  <2>1. PICK b \in ToSet(unsel) : b.p = p /\ k \in b.pl
    BY <1>4 DEF IsAwaited
  <2>2. CASE b.p = a.p /\ b.pl = pl
    <3>1. n + 1 \in DOMAIN projects' /\ projects'[n + 1].p = p /\ k \in projects'[n + 1].pl
      BY <1>1, <2>1, <2>2
    <3> QED
      BY <3>1 DEF IsChosen
  <2>3. CASE ~(b.p = a.p /\ b.pl = pl)
    <3>1. b \in ToSet(unsel')
      BY <1>2, <2>1, <2>3
    <3> QED
      BY <2>1, <3>1 DEF IsAwaited
  <2> QED
    BY <2>2, <2>3
<1>5. ASSUME NEW p \in Proj, NEW j \in DOMAIN deps[p], NEW k \in deps[p][j].pl PROVE met(p, k)
  BY <1>3, <1>4, <1>5 DEF Accounted
<1>6. ASSUME NEW d \in ds, NEW k \in d.pl PROVE met(d.on, k)
  <2>1. d.on \in Proj
    BY DEF AreDependencies
  <2>2. CASE k \in Introduced(fromRoot, d)
    <3>1. Unselected(fromRoot, d) \in new
      BY <2>2 DEF NewEntries, new
    <3>2. Unselected(fromRoot, d).p = d.on /\ k \in Unselected(fromRoot, d).pl
      BY <2>2 DEF Unselected
    <3> QED
      BY <1>2, <3>1, <3>2 DEF IsAwaited
  <2>3. CASE k \notin Introduced(fromRoot, d)
    <3>1. k \in Required(d.on)
      BY <1>6, <2>3 DEF Introduced
    <3>2. PICK j \in DOMAIN deps[d.on] : k \in deps[d.on][j].pl
      BY <3>1 DEF Required
    <3> QED
      BY <1>5, <2>1, <3>2
  <2> QED
    BY <2>2, <2>3
<1>7. ASSUME NEW p \in Proj, NEW j \in DOMAIN deps'[p], NEW k \in deps'[p][j].pl PROVE met(p, k)
  <2>0. deps[p] \in Seq(Dependency) /\ DOMAIN deps[p] = 1..Len(deps[p])
    BY DEF SvTypes
  <2>1. CASE \A d \in ds : d.on # p
    <3>1. deps'[p] = deps[p]
      BY <2>1 DEF Pushed
    <3> QED
      BY <1>5, <1>7, <3>1
  <2>2. ASSUME NEW d \in ds, d.on = p PROVE met(p, k)
    <3>1. deps'[p] = Append(deps[p], Edge(d)) /\ Edge(d) \in Dependency
      BY <2>2 DEF Pushed, AreDependencies
    <3>2. DOMAIN deps'[p] = 1..(Len(deps[p]) + 1) /\ Len(deps[p]) \in Nat
          /\ deps'[p][Len(deps[p]) + 1] = Edge(d)
          /\ \A l \in 1..Len(deps[p]) : deps'[p][l] = deps[p][l]
      BY <2>0, <3>1, AppendEffect
    <3>3. CASE j = Len(deps[p]) + 1
      <4>1. deps'[p][j].pl = d.pl
        BY <3>2, <3>3 DEF Edge
      <4> QED
        BY <1>6, <1>7, <2>2, <4>1
    <3>4. CASE j # Len(deps[p]) + 1
      <4>1. j \in 1..Len(deps[p]) /\ deps'[p][j] = deps[p][j]
        BY <1>7, <3>2, <3>4
      <4> QED
        BY <1>5, <1>7, <2>0, <4>1
    <3> QED
      BY <3>3, <3>4
  <2> QED
    BY <2>1, <2>2
<1> QED
  BY <1>7 DEF Accounted


-----------------------------------------------------------------------------
(* Solver: the queues.                                                      *)

\* A stack of queues and the stack of its keys.
LEMMA QueuesAre ==
  ASSUME NEW s, AreQueues(s)
  PROVE  /\ Len(s) \in Nat /\ DOMAIN s = 1..Len(s)
         /\ \A i \in 1..Len(s) : s[i] \in ToSet(s) /\ IsQueue(s[i])
         /\ Keys(s) \in Seq({Key(x) : x \in ToSet(s)})
         /\ Len(Keys(s)) = Len(s)
         /\ \A i \in 1..Len(s) : Keys(s)[i] = Key(s[i])
<1>1. Len(s) \in Nat /\ DOMAIN s = 1..Len(s) /\ \A i \in 1..Len(s) : s[i] \in ToSet(s)
  BY DEF AreQueues
<1>2. \A i \in 1..Len(s) : IsQueue(s[i])
  BY <1>1 DEF AreQueues
<1>3. Keys(s) \in [1..Len(s) -> {Key(x) : x \in ToSet(s)}]
  BY <1>1 DEF Keys
<1>4. Keys(s) \in Seq({Key(x) : x \in ToSet(s)}) /\ Len(Keys(s)) = Len(s)
  BY <1>1, <1>3
<1>5. \A i \in 1..Len(s) : Keys(s)[i] = Key(s[i])
  BY DEF Keys
<1> QED
  BY <1>1, <1>2, <1>4, <1>5

\* A sequence of queues is one however it was made.
LEMMA QueuesMade ==
  ASSUME NEW T, NEW s \in Seq(T), \A i \in 1..Len(s) : IsQueue(s[i])
  PROVE  AreQueues(s)
<1>1. Len(s) \in Nat /\ DOMAIN s = 1..Len(s) /\ s = [i \in 1..Len(s) |-> s[i]]
  OBVIOUS
<1>2. \A i \in 1..Len(s) : s[i] \in ToSet(s)
  BY <1>1 DEF ToSet
<1>3. s \in [1..Len(s) -> ToSet(s)]
  BY <1>1, <1>2
<1>4. s \in Seq(ToSet(s))
  BY <1>1, <1>3
<1>5. \A x \in ToSet(s) : IsQueue(x)
  BY <1>1 DEF ToSet
<1> QED
  BY <1>4, <1>5 DEF AreQueues

\* Sequences with the same elements are the same.
LEMMA SameKeys ==
  ASSUME NEW T1, NEW s \in Seq(T1), NEW T2, NEW t \in Seq(T2), Len(s) = Len(t),
         \A i \in 1..Len(s) : s[i] = t[i]
  PROVE  s = t
OBVIOUS

\* A queue that is pushed adds its key.
LEMMA KeysAppend ==
  ASSUME NEW s, AreQueues(s), NEW x, IsQueue(x)
  PROVE  AreQueues(Append(s, x)) /\ Keys(Append(s, x)) = Append(Keys(s), Key(x))
<1> DEFINE T == ToSet(s) \cup {x}
           w == Append(s, x)
           K == {Key(y) : y \in T}
<1>1. Len(s) \in Nat /\ (\A i \in 1..Len(s) : s[i] \in T /\ IsQueue(s[i])) /\ x \in T
  BY QueuesAre
<1>2. s \in Seq(T)
  <2>1. s \in Seq(ToSet(s)) /\ ToSet(s) \subseteq T
    BY DEF AreQueues
  <2> HIDE DEF T
  <2> QED
    BY <2>1
<1>3. /\ w \in Seq(T) /\ Len(w) = Len(s) + 1 /\ w[Len(s) + 1] = x
      /\ \A i \in 1..Len(s) : w[i] = s[i]
  <2> HIDE DEF T
  <2> QED
    BY <1>1, <1>2, AppendEffect
<1> HIDE DEF w
<1>4. \A i \in 1..Len(w) : IsQueue(w[i])
  <2> SUFFICES ASSUME NEW i \in 1..Len(w) PROVE IsQueue(w[i])
    OBVIOUS
  <2>1. CASE i = Len(s) + 1
    BY <1>3, <2>1
  <2>2. CASE i # Len(s) + 1
    <3>1. i \in 1..Len(s)
      BY <1>1, <1>3, <2>2
    <3> QED
      BY <1>1, <1>3, <3>1
  <2> QED
    BY <2>1, <2>2
<1>5. AreQueues(w)
  <2> HIDE DEF T
  <2> QED
    BY <1>3, <1>4, QueuesMade
<1>6. Keys(w) \in Seq({Key(y) : y \in ToSet(w)}) /\ Len(Keys(w)) = Len(s) + 1
      /\ \A i \in 1..(Len(s) + 1) : Keys(w)[i] = Key(w[i])
  BY <1>3, <1>5, QueuesAre
<1>7. Keys(s) \in Seq(K) /\ Len(Keys(s)) = Len(s) /\ Key(x) \in K
      /\ \A i \in 1..Len(s) : Keys(s)[i] = Key(s[i])
  <2>1. Keys(s) \in Seq({Key(y) : y \in ToSet(s)}) /\ {Key(y) : y \in ToSet(s)} \subseteq K
    BY QueuesAre
  <2>2. Len(Keys(s)) = Len(s) /\ \A i \in 1..Len(s) : Keys(s)[i] = Key(s[i])
    BY QueuesAre
  <2>3. Key(x) \in K
    OBVIOUS
  <2> HIDE DEF K
  <2>4. Keys(s) \in Seq(K)
    BY <2>1
  <2> QED
    BY <2>2, <2>3, <2>4
<1> HIDE DEF K, T
<1>8. /\ Append(Keys(s), Key(x)) \in Seq(K) /\ Len(Append(Keys(s), Key(x))) = Len(s) + 1
      /\ Append(Keys(s), Key(x))[Len(s) + 1] = Key(x)
      /\ \A i \in 1..Len(s) : Append(Keys(s), Key(x))[i] = Key(s[i])
  BY <1>7, AppendEffect
<1>9. \A i \in 1..(Len(s) + 1) : Keys(w)[i] = Append(Keys(s), Key(x))[i]
  <2> SUFFICES ASSUME NEW i \in 1..(Len(s) + 1) PROVE Keys(w)[i] = Append(Keys(s), Key(x))[i]
    OBVIOUS
  <2>1. CASE i = Len(s) + 1
    BY <1>3, <1>6, <1>8, <2>1
  <2>2. CASE i # Len(s) + 1
    <3>1. i \in 1..Len(s)
      BY <1>1, <2>2
    <3> QED
      BY <1>3, <1>6, <1>8, <3>1
  <2> QED
    BY <2>1, <2>2
<1>10. Keys(w) = Append(Keys(s), Key(x))
  BY <1>6, <1>8, <1>9, SameKeys
<1> QED
  BY <1>5, <1>10 DEF w

\* A queue that is popped takes its key along.
LEMMA KeysFront ==
  ASSUME NEW s, AreQueues(s), s # <<>>
  PROVE  /\ AreQueues(Front(s)) /\ IsQueue(Last(s))
         /\ Append(Keys(Front(s)), Key(Last(s))) = Keys(s)
<1> DEFINE T == ToSet(s)
           w == Front(s)
           x == Last(s)
<1>1. s \in Seq(T) /\ Len(s) \in Nat /\ \A i \in 1..Len(s) : s[i] \in T /\ IsQueue(s[i])
  BY QueuesAre DEF AreQueues
<1>2. /\ w \in Seq(T) /\ Len(s) \in Nat \ {0} /\ Len(w) = Len(s) - 1 /\ x = s[Len(s)]
      /\ \A i \in 1..(Len(s) - 1) : w[i] = s[i]
  <2> HIDE DEF T
  <2> QED
    BY <1>1, FrontEffect
<1> HIDE DEF T, w, x
<1>3. IsQueue(x) /\ \A i \in 1..Len(w) : IsQueue(w[i])
  BY <1>1, <1>2
<1>4. AreQueues(w)
  BY <1>2, <1>3, QueuesMade
<1>5. AreQueues(Append(w, x)) /\ Keys(Append(w, x)) = Append(Keys(w), Key(x))
  BY <1>3, <1>4, KeysAppend
<1>6. Append(w, x) = s
  <2>1. x \in T
    BY <1>1, <1>2
  <2>2. /\ Append(w, x) \in Seq(T) /\ Len(Append(w, x)) = Len(s)
        /\ Append(w, x)[Len(s)] = x /\ \A i \in 1..(Len(s) - 1) : Append(w, x)[i] = s[i]
    BY <1>2, <2>1, AppendEffect
  <2>3. \A i \in 1..Len(s) : Append(w, x)[i] = s[i]
    BY <1>2, <2>2
  <2> QED
    BY <1>1, <2>2, <2>3, SameKeys
<1> QED
  BY <1>3, <1>4, <1>5, <1>6 DEF w, x

\* What is written to a queue is not its project, and only advance changes its versions.
Failed(x) == [x EXCEPT !.failed = TRUE]
Advanced(x, pi, a, f) == [x EXCEPT !.pi = pi, !.allLoaded = a, !.failed = f]

\* Marking a queue leaves its project and its versions.
LEMMA QueueFailed ==
  ASSUME NEW x, IsQueue(x)
  PROVE  IsQueue(Failed(x)) /\ Key(Failed(x)) = Key(x)
<1>1. Failed(x) \in [p : {x.p}, lockv : {x.lockv}, prefv : {x.prefv}, failed : {TRUE},
                     pi : {x.pi}, allLoaded : {x.allLoaded}]
  BY DEF IsQueue, Failed
<1>2. x.p \in Proj
  BY DEF IsQueue
<1> QED
  BY <1>1, <1>2 DEF IsQueue, Key

\* Advancing a queue leaves its project.
LEMMA QueueAdvanced ==
  ASSUME NEW x, IsQueue(x), NEW pi, NEW a, NEW f
  PROVE  IsQueue(Advanced(x, pi, a, f)) /\ Advanced(x, pi, a, f).p = x.p
<1>1. Advanced(x, pi, a, f) \in [p : {x.p}, lockv : {x.lockv}, prefv : {x.prefv}, failed : {f},
                                 pi : {pi}, allLoaded : {a}]
  BY DEF IsQueue, Advanced
<1>2. x.p \in Proj
  BY DEF IsQueue
<1> QED
  BY <1>1, <1>2 DEF IsQueue

\* A failed queue keeps its place and its version.
LEMMA KeysFail ==
  ASSUME NEW s, AreQueues(s), NEW marks
  PROVE  AreQueues(Fail(s, marks)) /\ Keys(Fail(s, marks)) = Keys(s)
<1> DEFINE w == Fail(s, marks)
<1>1. s \in Seq(ToSet(s)) /\ Len(s) \in Nat /\ DOMAIN s = 1..Len(s)
      /\ \A i \in 1..Len(s) : IsQueue(s[i])
  BY QueuesAre DEF AreQueues
<1>2. w = [i \in 1..Len(s) |-> IF s[i].p \in marks THEN Failed(s[i]) ELSE s[i]]
  BY <1>1 DEF Fail, Failed
<1> HIDE DEF w
<1>3. ASSUME NEW x, IsQueue(x) PROVE IsQueue(Failed(x)) /\ Key(Failed(x)) = Key(x)
  BY <1>3, QueueFailed
<1>4. w \in Seq({w[i] : i \in 1..Len(s)}) /\ Len(w) = Len(s)
  <2> DEFINE W == {w[i] : i \in 1..Len(s)}
  <2>1. w \in [1..Len(s) -> W]
    BY <1>2
  <2> HIDE DEF W
  <2>2. w \in Seq(W) /\ Len(w) = Len(s)
    BY <1>1, <2>1
  <2> QED
    BY <2>2 DEF W
<1>5. \A i \in 1..Len(s) : IsQueue(w[i]) /\ Key(w[i]) = Key(s[i])
  BY <1>1, <1>2, <1>3
<1>6. AreQueues(w)
  BY <1>4, <1>5, QueuesMade
<1>7. Keys(w) = Keys(s)
  <2>1. Keys(w) \in Seq({Key(y) : y \in ToSet(w)}) /\ Len(Keys(w)) = Len(s)
        /\ \A i \in 1..Len(s) : Keys(w)[i] = Key(w[i])
    BY <1>4, <1>6, QueuesAre
  <2>2. Keys(s) \in Seq({Key(y) : y \in ToSet(s)}) /\ Len(Keys(s)) = Len(s)
        /\ \A i \in 1..Len(s) : Keys(s)[i] = Key(s[i])
    BY QueuesAre
  <2> QED
    BY <1>5, <2>1, <2>2, SameKeys
<1> QED
  BY <1>6, <1>7 DEF w

\* The same, for Advance.
LEMMA AdvanceIs ==
  ASSUME NEW x, IsQueue(x)
  PROVE  IsQueue(Advance(x)) /\ Advance(x).p = x.p
<1>1. PICK pi, a, f : Advance(x) = Advanced(x, pi, a, f)
  BY Zenon DEF Advance, Advanced
<1> QED
  BY <1>1, QueueAdvanced

-----------------------------------------------------------------------------
(* Solver: the actions.                                                     *)

\* A step that leaves the selections, the dependencies and the heap alone.
LEMMA StacksUntouched ==
  ASSUME SvInv, UNCHANGED <<u, projects, deps, unsel>>, AreQueues(vqs'),
         phase' \in {"search", "discard", "revisit"} => IsQueue(q'),
         goal' \in SUBSET Pkg, phase' \in Busy \cup Final, phase # "start", phase' # "start",
         PickedKeys' = PickedKeys, phase' = "solved" => unsel = <<>>,
         phase' = "search" => \A i \in DOMAIN projects : projects[i].p # q'.p
  PROVE  SvInv'
<1>1. SvTypes'
  BY DEF SvInv, SvTypes
<1>2. Rooted'
  BY DEF SvInv, Rooted
<1>3. DepsFollow'
  BY DEF SvInv, DepsFollow
<1>4. QueuesFollow'
  BY DEF SvInv, QueuesFollow
<1>5. SelectedOnce'
  BY DEF SvInv, SelectedOnce
<1>6. RulesKept' /\ Analysed'
  BY DEF SvInv, RulesKept, Analysed
<1>7. Accounted'
  BY DEF SvInv, Accounted
<1>8. Done'
  BY DEF Done
<1> QED
  BY <1>1, <1>2, <1>3, <1>4, <1>5, <1>6, <1>7, <1>8 DEF SvInv

\* The version at which a project is selected is that of one of its selections.
LEMMA SelectedIs ==
  ASSUME NEW T, NEW s \in Seq(T), NEW p, IsSelected(s, p)
  PROVE  \E i \in DOMAIN s : s[i].p = p /\ Selected(s, p) = s[i].v
<1> DEFINE N == {i \in DOMAIN s : s[i].p = p}
<1>1. N \subseteq Nat /\ N # {} /\ DOMAIN s = 1..Len(s) /\ Len(s) \in Nat
  BY DEF IsSelected
<1>2. PICK k \in N : \A j \in N : k <= j
  <2> HIDE DEF N
  <2> QED
    BY <1>1, LeastNumber
<1>3. k \in DOMAIN s /\ s[k].p = p /\ \A j \in 1..(k - 1) : s[j].p # p
  BY <1>1, <1>2
<1> QED
  BY <1>3 DEF Selected


\* What it means that an atom is acceptable.
LEMMA Acceptable ==
  ASSUME NEW p, NEW v, NEW pl, NEW pkgonly \in BOOLEAN, Failures(p, v, pl, pkgonly) = {}
  PROVE  /\ ~pkgonly => v \in Constraint(p)
         /\ pl \subseteq Reachable(p, v)
         /\ \A d \in DepsOf(p, v, pl) :
              IsSelected(projects, d.on) => Selected(projects, d.on) \in d.c
<1>1. \A a, b : OrElse(a, b) = {} => a = {} /\ b = {}
  BY DEF OrElse
<1> DEFINE first == IF pkgonly THEN {} ELSE CheckAtomAllowable(p, v)
           rest == IF Analyzable(p, v, pl) THEN UNION {DepFailure(d) : d \in DepsOf(p, v, pl)} ELSE {{}}
<1>2. first = {} /\ rest = {}
  <2>1. OrElse(first, OrElse(CheckRequiredPackagesExist(p, v), rest)) = {}
    BY DEF Failures
  <2> HIDE DEF first, rest
  <2> QED
    BY <1>1, <2>1
<1>3. ~pkgonly => v \in Constraint(p)
  BY <1>2 DEF CheckAtomAllowable
<1>4. Analyzable(p, v, pl)
  BY <1>2
<1>5. ASSUME NEW d \in DepsOf(p, v, pl), IsSelected(projects, d.on)
      PROVE  Selected(projects, d.on) \in d.c
  <2>1. DepFailure(d) = {}
    BY <1>2, <1>4
  <2>2. CheckDepsDisallowsSelected(d) = {}
    BY <1>1, <2>1 DEF DepFailure
  <2> QED
    BY <1>5, <2>2 DEF CheckDepsDisallowsSelected
<1> QED
  BY <1>3, <1>4, <1>5 DEF Analyzable

\* Selecting an acceptable atom keeps the stacks right.
LEMMA SelectAtomKeeps ==
  ASSUME SvInv, u' = u, projects # <<>>,
         NEW p \in Proj, NEW v \in Ver, NEW pl \in SUBSET Pkg, NEW pkgonly \in BOOLEAN,
         SelectAtom(p, v, pl, pkgonly),
         \A d \in DepsOf(p, v, pl) : IsSelected(projects, d.on) => Selected(projects, d.on) \in d.c,
         \A j \in DOMAIN deps[p] : v \in deps[p][j].c,
         pl \subseteq Reachable(p, v),
         \A i \in DOMAIN projects : IF pkgonly THEN projects[i].p = p => projects[i].v = v
                                    ELSE projects[i].p # p,
         pkgonly => \E i \in DOMAIN projects : projects[i].p = p
  PROVE  /\ projects' \in Seq(Atom) /\ unsel' \in Seq(Entry) /\ deps' \in [Proj -> Seq(Dependency)]
         /\ projects' = Append(projects, [p |-> p, v |-> v, pl |-> WithInternal(p, v, pl),
                                          first |-> ~pkgonly])
         /\ DepsFollow' /\ RulesKept' /\ Analysed' /\ Accounted'
         /\ (phase' # "search" => SelectedOnce')
<1> DEFINE a == [p |-> p, v |-> v, pl |-> WithInternal(p, v, pl), first |-> ~pkgonly]
           n == Len(projects)
           ds == DepsOf(p, v, pl)
           h == Removed(unsel, p, pl)
           new == NewEntries(FALSE, ds)
<1>0. SvTypes /\ Rooted /\ DepsFollow /\ SelectedOnce /\ RulesKept /\ Analysed /\ Accounted
  BY DEF SvInv
<1>1. u \in Universe /\ deps \in [Proj -> Seq(Dependency)] /\ projects \in Seq(Atom)
      /\ unsel \in Seq(Entry)
  BY <1>0 DEF SvTypes
<1>2. /\ WithInternal(p, v, pl) \in SUBSET Pkg /\ pl \subseteq WithInternal(p, v, pl)
      /\ DepsOf(p, v, WithInternal(p, v, pl)) = ds
      /\ \A k \in WithInternal(p, v, pl) : Internal(u, p, v, k) \subseteq WithInternal(p, v, pl)
      /\ WithInternal(p, v, pl) \subseteq Reachable(p, v)
  BY <1>1, InternalImportsNothing
<1>3. a \in Atom /\ a.p = p /\ a.v = v /\ a.pl = WithInternal(p, v, pl) /\ a.first = ~pkgonly
  BY <1>2 DEF Atom
<1>4. AreDependencies(ds, p, v) /\ \A d \in ds : d.on # p
  BY <1>1, PackagesImport
<1>5. h \in Seq(Entry) /\ ToSet(unsel) \ {b \in Entry : b.p = p /\ b.pl = pl} \subseteq ToSet(h)
  <2>1. Spares(Removed(unsel, p, pl), unsel, {b \in Entry : b.p = p /\ b.pl = pl}, Entry)
    BY <1>1, RemovedEffect
  <2> QED
    BY <2>1 DEF Spares
<1>6. projects' = Append(projects, a) /\ PushDeps(projects', FALSE, h, ds)
  BY DEF SelectAtom
<1> HIDE DEF a, ds, h, new, n
<1>7. Pushed(a, ds, h, new)
  <2>1. PICK sel : sel = projects'
    OBVIOUS
  <2>2. PushDeps(sel, FALSE, h, ds)
    BY <1>6, <2>1
  <2> QED
    BY <1>1, <1>4, <1>5, <1>6, <2>2, PushDepsEffect DEF new
<1>8. /\ n \in Nat /\ n # 0 /\ DOMAIN projects = 1..n /\ DOMAIN projects' = 1..(n + 1)
      /\ projects'[n + 1] = a /\ projects' \in Seq(Atom)
      /\ \A i \in 1..n : projects'[i] = projects[i]
  BY <1>1, <1>3, <1>6, AppendEffect DEF n
<1>9. ds = ImportedAt(u, Append(projects, a), n + 1)
  <2>1. ImportedAt(u, Append(projects, a), n + 1) = DepsOf(a.p, a.v, a.pl)
    <3>1. \A s, i : i # 1 => ImportedAt(u, s, i) = DepsOf(s[i].p, s[i].v, s[i].pl)
      BY ImportedAtIs
    <3>2. Append(projects, a)[n + 1] = a /\ n + 1 # 1
      BY <1>6, <1>8
    <3> QED
      BY <3>1, <3>2
  <2> QED
    BY <1>2, <1>3, <2>1
<1>10. DepsFollow'
  <2>1. AreDependencies(ds, a.p, v)
    BY <1>3, <1>4
  <2> QED
    BY <1>0, <1>3, <1>7, <1>9, <2>1, DepsFollowPushed DEF n
<1>11. RulesKept'
  <2>1. ASSUME NEW d \in ds, NEW i \in DOMAIN projects, projects[i].p = d.on
        PROVE  projects[i].v \in d.c
    <3>1. IsSelected(projects, d.on)
      BY <2>1 DEF IsSelected
    <3>2. PICK k \in DOMAIN projects : projects[k].p = d.on /\ Selected(projects, d.on) = projects[k].v
      BY <1>1, <3>1, SelectedIs
    <3>3. Selected(projects, d.on) \in d.c
      BY <3>1 DEF ds
    <3> QED
      BY <1>0, <2>1, <3>2, <3>3 DEF SelectedOnce
  <2>2. AreDependencies(ds, a.p, v) /\ \A d \in ds : d.on # a.p
    BY <1>3, <1>4
  <2>3. a # RootAtom
    BY <1>3, SolverConstants DEF RootAtom
  <2>4. a.p \in Proj /\ \A j \in DOMAIN deps[a.p] : a.v \in deps[a.p][j].c
    BY <1>3
  <2> QED
    BY <1>0, <1>3, <1>7, <2>1, <2>2, <2>3, <2>4, RulesKeptPushed
<1>12. Accounted'
  <2>1. AreDependencies(ds, a.p, v)
    BY <1>3, <1>4
  <2>2. pl \in SUBSET a.pl /\ ToSet(unsel) \ {b \in Entry : b.p = a.p /\ b.pl = pl} \subseteq ToSet(h)
    BY <1>2, <1>3, <1>5
  <2>3. Pushed(a, ds, h, NewEntries(FALSE, ds))
    BY <1>7 DEF new
  <2> QED
    BY <1>0, <1>3, <2>1, <2>2, <2>3, AccountedPushed
<1>13. Analysed'
  <2>1. ASSUME NEW i \in 1..(n + 1), i # 1, NEW k \in projects'[i].pl
        PROVE  /\ k \in Tree(u, projects'[i].p, projects'[i].v)
               /\ Internal(u, projects'[i].p, projects'[i].v, k)
                    \subseteq Tree(u, projects'[i].p, projects'[i].v) \cap projects'[i].pl
    <3>1. CASE i = n + 1
      <4>1. k \in WithInternal(p, v, pl) /\ projects'[i].p = p /\ projects'[i].v = v
            /\ projects'[i].pl = WithInternal(p, v, pl)
        BY <1>3, <1>8, <2>1, <3>1
      <4> QED
        BY <1>2, <4>1 DEF Reachable
    <3>2. CASE i # n + 1
      <4>1. i \in 1..n /\ projects'[i] = projects[i]
        BY <1>8, <2>1, <3>2
      <4> QED
        BY <1>0, <1>8, <2>1, <4>1 DEF Analysed
    <3> QED
      BY <3>1, <3>2
  <2> QED
    BY <1>8, <2>1 DEF Analysed
<1>14. ASSUME phase' # "search" PROVE SelectedOnce'
  <2>1. ASSUME NEW i \in 1..(n + 1), NEW j \in 1..(n + 1), projects'[i].p = projects'[j].p
        PROVE  projects'[i].v = projects'[j].v
    <3>1. ASSUME NEW k \in 1..(n + 1), projects'[k].p = p PROVE projects'[k].v = v
      <4>1. CASE k = n + 1
        BY <1>3, <1>8, <4>1
      <4>2. CASE k # n + 1
        <5>1. k \in 1..n /\ projects'[k] = projects[k]
          BY <1>8, <4>2
        <5> QED
          BY <1>8, <3>1, <5>1
      <4> QED
        BY <4>1, <4>2
    <3>2. CASE i = n + 1 \/ j = n + 1
      <4>1. projects'[i].p = p /\ projects'[j].p = p
        BY <1>3, <1>8, <2>1, <3>2
      <4> QED
        BY <3>1, <4>1
    <3>3. CASE i # n + 1 /\ j # n + 1
      <4>1. i \in 1..n /\ j \in 1..n /\ projects'[i] = projects[i] /\ projects'[j] = projects[j]
        BY <1>8, <3>3
      <4> QED
        BY <1>0, <1>8, <2>1, <4>1 DEF SelectedOnce
    <3> QED
      BY <3>2, <3>3
  <2>2. ASSUME NEW i \in 1..(n + 1)
        PROVE  projects'[i].first <=> \A j \in 1..(i - 1) : projects'[j].p # projects'[i].p
    <3>1. CASE i = n + 1
      <4>1. projects'[i].first = ~pkgonly /\ projects'[i].p = p /\ i - 1 = n
        BY <1>3, <1>8, <3>1
      <4> QED
        BY <1>8, <4>1
    <3>2. CASE i # n + 1
      <4>1. i \in 1..n /\ projects'[i] = projects[i] /\ \A j \in 1..(i - 1) : projects'[j] = projects[j]
        BY <1>8, <3>2
      <4> QED
        BY <1>0, <1>8, <4>1 DEF SelectedOnce
    <3> QED
      BY <3>1, <3>2
  <2> QED
    BY <1>8, <1>14, <2>1, <2>2 DEF SelectedOnce
<1>15. deps' \in [Proj -> Seq(Dependency)] /\ unsel' \in Seq(Entry)
  BY <1>7 DEF Pushed
<1> QED
  BY <1>6, <1>8, <1>10, <1>11, <1>12, <1>13, <1>14, <1>15 DEF a


\* The same, for packages of a selected project.
Selectable(p, v, pl, pkgonly) ==
  /\ SvInv /\ u' = u /\ projects # <<>> /\ p \in Proj /\ v \in Ver /\ pl \in SUBSET Pkg
  /\ SelectAtom(p, v, pl, pkgonly)
  /\ \A d \in DepsOf(p, v, pl) : IsSelected(projects, d.on) => Selected(projects, d.on) \in d.c
  /\ \A j \in DOMAIN deps[p] : v \in deps[p][j].c
  /\ pl \subseteq Reachable(p, v)
  /\ \A i \in DOMAIN projects : projects[i].p = p => projects[i].v = v
  /\ \E i \in DOMAIN projects : projects[i].p = p
AfterSelecting(a) ==
  /\ projects' \in Seq(Atom) /\ unsel' \in Seq(Entry) /\ deps' \in [Proj -> Seq(Dependency)]
  /\ projects' = Append(projects, a)
  /\ DepsFollow' /\ RulesKept' /\ Analysed' /\ Accounted'
  /\ (phase' # "search" => SelectedOnce')

\* SelectAtomKeeps for packages of a selected project.
LEMMA SelectMoreKeeps ==
  ASSUME NEW p, NEW v, NEW pl, NEW pkgonly \in BOOLEAN, pkgonly, Selectable(p, v, pl, pkgonly)
  PROVE  AfterSelecting([p |-> p, v |-> v, pl |-> WithInternal(p, v, pl), first |-> ~pkgonly])
<1>1. p \in Proj /\ v \in Ver /\ pl \in SUBSET Pkg
  BY DEF Selectable
<1> QED
  BY <1>1, SelectAtomKeeps DEF Selectable, AfterSelecting

\* A first selection adds one place to the first ones.
LEMMA FirstsPushed ==
  ASSUME NEW s \in Seq(Atom), NEW a \in Atom
  PROVE  /\ FirstsOf(s) \subseteq 1..Len(s)
         /\ a.first /\ a.p # Root => FirstsOf(Append(s, a)) = FirstsOf(s) \cup {Len(s) + 1}
                                      /\ KeysOn(Append(s, a))[Len(s) + 1] = {<<a.p, a.v>>}
         /\ ~(a.first /\ a.p # Root) => FirstsOf(Append(s, a)) = FirstsOf(s)
         /\ \A k \in FirstsOf(s) : KeysOn(Append(s, a))[k] = KeysOn(s)[k]
<1> DEFINE n == Len(s)
           w == Append(s, a)
<1>1. /\ n \in Nat /\ DOMAIN s = 1..n /\ DOMAIN w = 1..(n + 1) /\ w[n + 1] = a
      /\ \A i \in 1..n : w[i] = s[i]
  BY AppendEffect
<1> HIDE DEF n, w
<1>2. \A k \in DOMAIN w : k = n + 1 \/ k \in 1..n
  BY <1>1
<1>3. a.first /\ a.p # Root => FirstsOf(w) = FirstsOf(s) \cup {n + 1}
  BY <1>1, <1>2 DEF FirstsOf
<1>4. a.first /\ a.p # Root => KeysOn(w)[n + 1] = {<<a.p, a.v>>}
  BY <1>1, <1>3 DEF KeysOn
<1>5. ~(a.first /\ a.p # Root) => FirstsOf(w) = FirstsOf(s)
  BY <1>1, <1>2 DEF FirstsOf
<1>6. ASSUME NEW k \in FirstsOf(s) PROVE KeysOn(w)[k] = KeysOn(s)[k]
  <2>1. k \in 1..n /\ w[k] = s[k] /\ k \in FirstsOf(w)
    BY <1>1 DEF FirstsOf
  <2> QED
    BY <2>1 DEF KeysOn
<1>7. FirstsOf(s) \subseteq 1..n
  BY <1>1 DEF FirstsOf
<1> QED
  BY <1>3, <1>4, <1>5, <1>6, <1>7 DEF n, w

\* findValidVersion succeeds.
LEMMA TryGoodInv ==
  ASSUME SvInv, TryGood
  PROVE  SvInv'
<1> DEFINE p == q.p
           v == Head(q.pi)
           n == Len(projects)
           a == [p |-> p, v |-> v, pl |-> WithInternal(p, v, goal), first |-> ~FALSE]
<1>1. /\ SvTypes /\ Rooted /\ QueuesFollow /\ SelectedOnce
      /\ phase = "search" /\ phase' = "loop" /\ u' = u /\ vqs' = Append(vqs, q) /\ goal' = goal
      /\ Failures(p, v, goal, FALSE) = {} /\ SelectAtom(p, v, goal, FALSE)
  BY DEF SvInv, TryGood
<1>2. /\ projects \in Seq(Atom) /\ goal \in SUBSET Pkg /\ u \in Universe /\ IsQueue(q) /\ AreQueues(vqs)
  BY <1>1 DEF SvTypes
<1>3. projects # <<>> /\ n \in Nat /\ n # 0 /\ DOMAIN projects = 1..n
  BY <1>1, <1>2 DEF Rooted
<1>4. p \in Proj
  BY <1>2 DEF IsQueue
<1> HIDE DEF p, v, n, a
<1>5. /\ v \in Constraint(p) /\ goal \subseteq Reachable(p, v)
      /\ \A d \in DepsOf(p, v, goal) : IsSelected(projects, d.on) => Selected(projects, d.on) \in d.c
  BY <1>1, Acceptable
<1>6. v \in Ver /\ \A j \in DOMAIN deps[p] : v \in deps[p][j].c
  BY <1>5 DEF Constraint
<1>7. \A i \in DOMAIN projects : projects[i].p # p
  BY <1>1 DEF SelectedOnce, p
<1>8. /\ projects' \in Seq(Atom) /\ unsel' \in Seq(Entry) /\ deps' \in [Proj -> Seq(Dependency)]
      /\ projects' = Append(projects, a)
      /\ DepsFollow' /\ RulesKept' /\ Analysed' /\ Accounted'
      /\ (phase' # "search" => SelectedOnce')
  BY <1>1, <1>2, <1>3, <1>4, <1>5, <1>6, <1>7, SelectAtomKeeps DEF a
<1>9. a.first /\ a.p = p /\ a.v = v /\ a.p # Root
  BY <1>4, SolverConstants DEF a
<1>10. a \in Atom /\ projects'[n + 1] = a /\ DOMAIN projects' = 1..(n + 1)
       /\ \A i \in 1..n : projects'[i] = projects[i]
  <2>1. WithInternal(p, v, goal) \in SUBSET Pkg
    BY <1>2, <1>4, <1>6, InternalImportsNothing
  <2>2. a \in Atom
    BY <1>4, <1>6, <2>1 DEF a, Atom
  <2> QED
    BY <1>2, <1>3, <1>8, <2>2, AppendEffect DEF n
<1>11. AreQueues(vqs') /\ Keys(vqs') = Append(Keys(vqs), Key(q))
  BY <1>1, <1>2, KeysAppend
<1>12. SvTypes'
  BY <1>1, <1>2, <1>8, <1>11 DEF SvTypes, Busy
<1>13. Rooted'
  <2>1. projects' # <<>>
    BY <1>3, <1>10
  <2>2. projects'[1] = projects[1] /\ projects[1] = RootAtom
    BY <1>1, <1>3, <1>10 DEF Rooted
  <2>3. \A i \in 1..(n + 1) : i # 1 => projects'[i].p \in Proj /\ projects'[i].v \in Ver
    BY <1>1, <1>3, <1>4, <1>6, <1>9, <1>10 DEF Rooted
  <2> QED
    BY <1>1, <1>10, <2>1, <2>2, <2>3 DEF Rooted
<1>14. QueuesFollow'
  <2>1. Follows(Keys(vqs), FirstsOf(projects), KeysOn(projects))
    BY <1>1 DEF QueuesFollow, PickedKeys
  <2>2. /\ FirstsOf(projects) \subseteq 1..n
        /\ FirstsOf(projects') = FirstsOf(projects) \cup {n + 1}
        /\ KeysOn(projects')[n + 1] = {<<p, v>>}
        /\ \A k \in FirstsOf(projects) : KeysOn(projects')[k] = KeysOn(projects)[k]
    BY <1>2, <1>8, <1>9, <1>10, FirstsPushed DEF n
  <2>3. Key(q) = <<p, v>>
    BY DEF Key, p, v
  <2> DEFINE X == {Key(x) : x \in ToSet(vqs)} \cup {Key(q)}
  <2>4. Keys(vqs) \in Seq(X) /\ Key(q) \in X
    <3>1. Keys(vqs) \in Seq({Key(x) : x \in ToSet(vqs)}) /\ {Key(x) : x \in ToSet(vqs)} \subseteq X
      BY <1>2, QueuesAre
    <3>2. Key(q) \in X
      OBVIOUS
    <3> HIDE DEF X
    <3> QED
      BY <3>1, <3>2
  <2> HIDE DEF X
  <2>5. Key(q) \in KeysOn(projects')[n + 1]
    BY <2>2, <2>3
  <2>6. PICK M2 : M2 = KeysOn(projects')
    OBVIOUS
  <2>7. Follows(Append(Keys(vqs), Key(q)), FirstsOf(projects) \cup {n + 1}, M2)
    BY <1>3, <2>1, <2>2, <2>4, <2>5, <2>6, FollowsPush
  <2>8. PickedKeys' = Keys(vqs')
    BY <1>1 DEF PickedKeys
  <2> QED
    BY <1>11, <2>2, <2>6, <2>7, <2>8 DEF QueuesFollow
<1>15. SelectedOnce' /\ Done'
  BY <1>1, <1>8 DEF Done
<1> QED
  BY <1>8, <1>12, <1>13, <1>14, <1>15 DEF SvInv


\* selectRoot.
LEMMA SelectRootInv ==
  ASSUME SvInv, SelectRoot
  PROVE  SvInv'
<1> DEFINE ds == DependenciesOf(Root, None, Imports(u))
           new == NewEntries(TRUE, ds)
           a == RootAtom
<1>1. /\ SvTypes /\ Rooted /\ DepsFollow /\ QueuesFollow /\ Accounted
      /\ phase = "start" /\ phase' = "loop" /\ u' = u /\ vqs' = vqs /\ q' = q /\ goal' = goal
      /\ PushDeps(projects', TRUE, unsel, ds)
  BY DEF SvInv, SelectRoot
<1>2. /\ projects = <<>> /\ unsel = <<>> /\ vqs = <<>>
      /\ (\A p \in Proj : deps[p] = <<>>) /\ u \in Universe /\ unsel \in Seq(Entry)
      /\ deps \in [Proj -> Seq(Dependency)] /\ projects \in Seq(Atom)
  BY <1>1 DEF Rooted, SvTypes
<1>3. projects' = Append(projects, a)
  BY <1>2 DEF SelectRoot, RootAtom
<1>4. a \in Atom /\ a.p = Root /\ a.v = None /\ a.pl = {} /\ a.first = TRUE
  BY DEF Atom, RootAtom
<1>5. AreDependencies(ds, Root, None)
  BY <1>2, RootImports
<1> HIDE DEF ds, new, a
<1>6. Pushed(a, ds, unsel, new)
  <2>1. PICK sel : sel = projects'
    OBVIOUS
  <2>2. PushDeps(sel, TRUE, unsel, ds)
    BY <1>1, <2>1, Zenon
  <2> QED
    BY <1>2, <1>3, <1>5, <2>2, PushDepsEffect DEF new
<1>7. Len(projects) = 0 /\ projects' \in Seq(Atom) /\ DOMAIN projects' = 1..1 /\ projects'[1] = a
  BY <1>2, <1>3, <1>4, AppendEffect
<1>8. ds = ImportedAt(u, Append(projects, a), Len(projects) + 1)
  <2>1. \A s : ImportedAt(u, s, 1) = ds
    BY ImportedAtIs DEF ds
  <2> QED
    BY <1>7, <2>1
<1>9. AreDependencies(ds, a.p, None)
  BY <1>4, <1>5
<1>10. DepsFollow'
  BY <1>1, <1>4, <1>6, <1>8, <1>9, DepsFollowPushed
<1>11. Accounted'
  <2>1. {} \in SUBSET a.pl /\ ToSet(unsel) \ {b \in Entry : b.p = a.p /\ b.pl = {}} \subseteq ToSet(unsel)
    OBVIOUS
  <2>2. Pushed(a, ds, unsel, NewEntries(TRUE, ds))
    BY <1>6, Zenon DEF new
  <2> QED
    BY <1>1, <1>4, <1>9, <2>1, <2>2, AccountedPushed
<1>12. SvTypes'
  BY <1>1, <1>2, <1>6, <1>7 DEF SvTypes, Pushed, Busy
<1>13. projects' # <<>>
  BY <1>7
<1>14. Rooted'
  BY <1>1, <1>7, <1>13 DEF Rooted, a
<1>15. RulesKept' /\ Analysed'
  BY <1>7 DEF RulesKept, Analysed
<1>16. SelectedOnce' /\ Done'
  BY <1>1, <1>4, <1>7 DEF SelectedOnce, Done
<1>17. QueuesFollow'
  <2>1. FirstsOf(projects') = {}
    BY <1>4, <1>7 DEF FirstsOf
  <2>2. Keys(vqs') = <<>>
    BY <1>1, <1>2 DEF Keys
  <2>3. PickedKeys' = <<>>
    BY <1>1, <2>2 DEF PickedKeys
  <2>4. Follows(<<>>, {}, KeysOn(projects'))
    <3>1. PICK M : M = KeysOn(projects')
      OBVIOUS
    <3> QED
      BY <3>1, FollowsNone
  <2> QED
    BY <2>1, <2>3, <2>4 DEF QueuesFollow
<1> QED
  BY <1>10, <1>11, <1>12, <1>14, <1>15, <1>16, <1>17 DEF SvInv

\* More packages of a selected project: they are selected, or the solver goes back.
LEMMA AddPackagesInv ==
  ASSUME SvInv, AddPackages
  PROVE  SvInv'
<1> DEFINE p == unsel[1].p
           pl == unsel[1].pl
           v == Selected(projects, p)
           n == Len(projects)
           a == [p |-> p, v |-> v, pl |-> WithInternal(p, v, pl), first |-> ~TRUE]
<1>1. /\ SvTypes /\ Rooted /\ QueuesFollow /\ SelectedOnce /\ RulesKept
      /\ phase = "loop" /\ u' = u /\ q' = q /\ goal' = goal /\ unsel # <<>>
      /\ IsSelected(projects, p)
  BY DEF SvInv, AddPackages
<1>2. /\ projects \in Seq(Atom) /\ goal \in SUBSET Pkg /\ u \in Universe /\ AreQueues(vqs)
      /\ unsel \in Seq(Entry)
  BY <1>1 DEF SvTypes
<1>3. projects # <<>> /\ n \in Nat /\ n # 0 /\ DOMAIN projects = 1..n
  BY <1>1, <1>2 DEF Rooted
<1>4. p \in Proj /\ pl \in SUBSET Pkg
  <2>1. unsel[1] \in Entry
    BY <1>1, <1>2
  <2> QED
    BY <2>1 DEF Entry
<1>5. \/ /\ Failures(p, v, pl, TRUE) = {} /\ SelectAtom(p, v, pl, TRUE)
         /\ vqs' = vqs /\ phase' = phase
      \/ \E marks : /\ vqs' = Fail(vqs, marks) /\ phase' = "backtrack"
                    /\ UNCHANGED <<projects, deps, unsel>>
  BY DEF AddPackages
<1> HIDE DEF p, v, n, a, pl
<1>6. PICK k \in DOMAIN projects : projects[k].p = p /\ v = projects[k].v
  BY <1>1, <1>2, SelectedIs DEF v
<1>7. v \in Ver /\ k # 1
  <2>1. projects[1].p = Root /\ Root \notin Proj
    BY <1>1, <1>3, SolverConstants DEF Rooted, RootAtom
  <2> QED
    BY <1>1, <1>4, <1>6, <2>1 DEF Rooted
<1>8. CASE Failures(p, v, pl, TRUE) = {} /\ SelectAtom(p, v, pl, TRUE) /\ vqs' = vqs /\ phase' = phase
  <2>1. /\ pl \subseteq Reachable(p, v)
        /\ \A d \in DepsOf(p, v, pl) : IsSelected(projects, d.on) => Selected(projects, d.on) \in d.c
    BY <1>8, Acceptable
  <2>2. \A j \in DOMAIN deps[p] : v \in deps[p][j].c
    BY <1>1, <1>6, <1>7 DEF RulesKept
  <2>3. \A i \in DOMAIN projects : projects[i].p = p => projects[i].v = v
    BY <1>1, <1>6 DEF SelectedOnce
  <2>4. Selectable(p, v, pl, TRUE)
    BY <1>1, <1>2, <1>3, <1>4, <1>6, <1>7, <1>8, <2>1, <2>2, <2>3 DEF Selectable
  <2>5. AfterSelecting(a)
    <3>1. TRUE \in BOOLEAN
      OBVIOUS
    <3> QED
      BY <2>4, <3>1, SelectMoreKeeps, Zenon DEF a
  <2>6. ~a.first /\ a.p = p /\ a.v = v
    BY DEF a
  <2>7. a \in Atom /\ projects'[n + 1] = a /\ DOMAIN projects' = 1..(n + 1)
        /\ \A i \in 1..n : projects'[i] = projects[i]
    <3>1. WithInternal(p, v, pl) \in SUBSET Pkg
      BY <1>2, <1>4, <1>7, InternalImportsNothing
    <3>2. a \in Atom
      BY <1>4, <1>7, <3>1 DEF a, Atom
    <3> QED
      BY <1>2, <1>3, <2>5, <3>2, AppendEffect DEF n, AfterSelecting
  <2>8. SvTypes'
    BY <1>1, <1>2, <1>8, <2>5 DEF SvTypes, Busy, AfterSelecting
  <2>9. Rooted'
    <3>1. projects' # <<>>
      BY <1>3, <2>7
    <3>2. projects'[1] = projects[1] /\ projects[1] = RootAtom
      BY <1>1, <1>3, <2>7 DEF Rooted
    <3>3. \A i \in 1..(n + 1) : i # 1 => projects'[i].p \in Proj /\ projects'[i].v \in Ver
      BY <1>1, <1>3, <1>4, <1>7, <2>6, <2>7 DEF Rooted
    <3> QED
      BY <1>1, <1>8, <2>7, <3>1, <3>2, <3>3 DEF Rooted
  <2>10. QueuesFollow'
    <3>1. Follows(Keys(vqs), FirstsOf(projects), KeysOn(projects))
      BY <1>1 DEF QueuesFollow, PickedKeys
    <3>2. /\ FirstsOf(projects') = FirstsOf(projects)
          /\ \A i \in FirstsOf(projects) : KeysOn(projects')[i] = KeysOn(projects)[i]
      BY <1>2, <2>5, <2>6, <2>7, FirstsPushed DEF AfterSelecting
    <3>3. PICK M2 : M2 = KeysOn(projects')
      OBVIOUS
    <3>4. Follows(Keys(vqs), FirstsOf(projects), M2)
      BY <3>1, <3>2, <3>3, FollowsSame
    <3>5. PickedKeys' = Keys(vqs)
      BY <1>1, <1>8 DEF PickedKeys
    <3> QED
      BY <3>2, <3>3, <3>4, <3>5 DEF QueuesFollow
  <2>11. SelectedOnce' /\ Done'
    BY <1>1, <1>8, <2>5 DEF Done, AfterSelecting
  <2> QED
    BY <2>5, <2>8, <2>9, <2>10, <2>11 DEF SvInv, AfterSelecting
<1>9. ASSUME NEW marks, vqs' = Fail(vqs, marks), phase' = "backtrack", UNCHANGED <<projects, deps, unsel>>
      PROVE  SvInv'
  <2>1. AreQueues(vqs') /\ Keys(vqs') = Keys(vqs)
    BY <1>2, <1>9, KeysFail
  <2>2. PickedKeys' = PickedKeys
    BY <1>1, <1>9, <2>1 DEF PickedKeys
  <2>3. goal' \in SUBSET Pkg /\ phase' \in Busy \cup Final
    BY <1>1, <1>2, <1>9 DEF Busy
  <2> QED
    BY <1>1, <1>9, <2>1, <2>2, <2>3, StacksUntouched
<1> QED
  BY <1>5, <1>8, <1>9

\* The heap is empty.
LEMMA SolvedInv ==
  ASSUME SvInv, Solved
  PROVE  SvInv'
<1>1. /\ SvTypes /\ phase = "loop" /\ unsel = <<>> /\ phase' = "solved"
      /\ UNCHANGED <<u, projects, deps, unsel, vqs, q, goal>>
  BY DEF SvInv, Solved
<1>2. PickedKeys' = PickedKeys
  BY <1>1 DEF PickedKeys, Keys
<1>3. AreQueues(vqs') /\ goal' \in SUBSET Pkg /\ phase' \in Busy \cup Final
  BY <1>1 DEF SvTypes, Final
<1> QED
  BY <1>1, <1>2, <1>3, StacksUntouched

\* The context is cancelled.
LEMMA CancelInv ==
  ASSUME SvInv, Cancel
  PROVE  SvInv'
<1>1. /\ SvTypes /\ phase \in {"loop", "backtrack"} /\ phase' = "cancelled"
      /\ UNCHANGED <<u, projects, deps, unsel, vqs, q, goal>>
  BY DEF SvInv, Cancel
<1>2. PickedKeys' = PickedKeys
  BY <1>1 DEF PickedKeys, Keys
<1>3. AreQueues(vqs') /\ goal' \in SUBSET Pkg /\ phase' \in Busy \cup Final
  BY <1>1 DEF SvTypes, Final
<1> QED
  BY <1>1, <1>2, <1>3, StacksUntouched

\* A queue is made.
LEMMA CreateVersionQueueInv ==
  ASSUME SvInv, CreateVersionQueue
  PROVE  SvInv'
<1> DEFINE bmi == unsel[1]
           made == NewVersionQueue(bmi.p, LockVersion(bmi.p), PreferredVersion(bmi))
<1>1. /\ SvTypes /\ phase = "loop" /\ unsel # <<>> /\ ~IsSelected(projects, bmi.p)
      /\ UNCHANGED <<u, projects, deps, unsel, vqs>>
      /\ \/ phase' = "backtrack" /\ UNCHANGED <<q, goal>>
         \/ q' = made /\ goal' = bmi.pl /\ phase' = "search"
  BY DEF SvInv, CreateVersionQueue
<1>2. bmi \in Entry /\ AreQueues(vqs') /\ phase' \in Busy \cup Final
  BY <1>1 DEF SvTypes, Busy
<1>3. bmi.p \in Proj /\ bmi.pl \in SUBSET Pkg
  BY <1>2 DEF Entry
<1>4. IsQueue(made) /\ made.p = bmi.p
  BY <1>3 DEF NewVersionQueue, IsQueue
<1> HIDE DEF made, bmi
<1>5. PickedKeys' = PickedKeys
  BY <1>1 DEF PickedKeys, Keys
<1>6. goal' \in SUBSET Pkg
  BY <1>1, <1>3 DEF SvTypes
<1>7. phase' = "search" => \A i \in DOMAIN projects : projects[i].p # q'.p
  BY <1>1, <1>4 DEF IsSelected
<1>8. phase' \in {"search", "discard", "revisit"} => IsQueue(q')
  BY <1>1, <1>4
<1> QED
  BY <1>1, <1>2, <1>5, <1>6, <1>7, <1>8, StacksUntouched

\* findValidVersion goes on, or gives up.
LEMMA TryBadInv ==
  ASSUME SvInv, TryBad
  PROVE  SvInv'
<1>1. /\ SvTypes /\ SelectedOnce /\ phase = "search"
      /\ UNCHANGED <<u, projects, deps, unsel, goal>>
  BY DEF SvInv, TryBad
<1>2. PICK marks : /\ vqs' = Fail(vqs, marks)
                   /\ \/ q' = Advance(q) /\ phase' = phase
                      \/ phase' \in {"panic", "backtrack"}
  BY DEF TryBad
<1>3. AreQueues(vqs) /\ IsQueue(q) /\ goal' \in SUBSET Pkg /\ phase' \in Busy \cup Final
  BY <1>1, <1>2 DEF SvTypes, Final, Busy
<1>4. AreQueues(vqs') /\ Keys(vqs') = Keys(vqs)
  BY <1>2, <1>3, KeysFail
<1>5. IsQueue(Advance(q)) /\ Advance(q).p = q.p
  BY <1>3, AdvanceIs
<1>6. PickedKeys' = PickedKeys
  BY <1>1, <1>2, <1>4 DEF PickedKeys
<1>7. phase' = "search" => \A i \in DOMAIN projects : projects[i].p # q'.p
  BY <1>1, <1>2, <1>5 DEF SelectedOnce
<1> QED
  BY <1>1, <1>2, <1>3, <1>4, <1>5, <1>6, <1>7, StacksUntouched

\* A queue is taken off the stack, or there is none.
LEMMA BacktrackInv ==
  ASSUME SvInv, Backtrack
  PROVE  SvInv'
<1>1. /\ SvTypes /\ phase = "backtrack"
      /\ UNCHANGED <<u, projects, deps, unsel, goal>>
  BY DEF SvInv, Backtrack
<1>2. AreQueues(vqs) /\ goal' \in SUBSET Pkg
  BY <1>1 DEF SvTypes
<1>3. CASE vqs = <<>>
  <2>1. phase' = "unsolvable" /\ vqs' = vqs
    BY <1>3 DEF Backtrack
  <2>2. PickedKeys' = PickedKeys
    BY <1>1, <2>1 DEF PickedKeys, Keys
  <2>3. phase' \in Busy \cup Final
    BY <2>1 DEF Final
  <2> QED
    BY <1>1, <1>2, <2>1, <2>2, <2>3, StacksUntouched
<1>4. CASE vqs # <<>>
  <2>1. vqs' = Front(vqs) /\ q' = Last(vqs) /\ phase' \in {"discard", "revisit"}
    BY <1>4 DEF Backtrack
  <2>2. AreQueues(vqs') /\ IsQueue(q') /\ Append(Keys(vqs'), Key(q')) = Keys(vqs)
    <3>1. /\ AreQueues(Front(vqs)) /\ IsQueue(Last(vqs))
          /\ Append(Keys(Front(vqs)), Key(Last(vqs))) = Keys(vqs)
      BY <1>2, <1>4, KeysFront
    <3> QED
      BY <2>1, <3>1
  <2>3. PickedKeys' = PickedKeys
    BY <1>1, <2>1, <2>2 DEF PickedKeys
  <2>4. phase' \in Busy \cup Final
    BY <2>1 DEF Busy
  <2> QED
    BY <1>1, <1>2, <2>1, <2>2, <2>3, <2>4, StacksUntouched
<1> QED
  BY <1>3, <1>4


\* Front and Last undo Append.
LEMMA FrontOfAppend ==
  ASSUME NEW T, NEW s \in Seq(T), NEW x \in T
  PROVE  Front(Append(s, x)) = s /\ Last(Append(s, x)) = x /\ Append(s, x) # <<>>
<1>1. /\ Append(s, x) \in Seq(T) /\ Len(s) \in Nat /\ Len(Append(s, x)) = Len(s) + 1
      /\ Append(s, x)[Len(s) + 1] = x
      /\ \A i \in 1..Len(s) : Append(s, x)[i] = s[i]
  BY AppendEffect
<1> DEFINE w == Append(s, x)
<1> HIDE DEF w
<1>2. w \in Seq(T) /\ w # <<>> /\ Len(w) = Len(s) + 1
  BY <1>1 DEF w
<1>3. Front(w) \in Seq(T) /\ Len(Front(w)) = Len(s) /\ \A i \in 1..Len(s) : Front(w)[i] = w[i]
  BY <1>1, <1>2, FrontEffect
<1>4. Last(w) = w[Len(s) + 1]
  BY <1>2 DEF Last
<1>5. Front(w) = s
  <2>1. \A i \in 1..Len(Front(w)) : Front(w)[i] = s[i]
    BY <1>1, <1>3 DEF w
  <2> QED
    BY <1>3, <2>1, SameKeys
<1> QED
  BY <1>1, <1>2, <1>4, <1>5 DEF w

\* What the stacks are like when the last selection s is taken back.
LastSelection(s, n) ==
  /\ n = Len(projects) /\ n \in Nat /\ n > 1 /\ DOMAIN projects = 1..n
  /\ s = projects[n] /\ s \in Atom /\ s.p \in Proj /\ s.v \in Ver /\ s.pl \in SUBSET Pkg
  /\ Front(projects) \in Seq(Atom) /\ DOMAIN Front(projects) = 1..(n - 1)
  /\ Len(Front(projects)) = n - 1
  /\ \A i \in 1..(n - 1) : Front(projects)[i] = projects[i]
  /\ projects = Append(Front(projects), s)

\* The last selection: it is a project's, and what was below it is the stack before it.
LEMMA LastSelectionIs ==
  ASSUME SvTypes, Rooted, QueuesFollow, phase \in {"discard", "revisit"}
  PROVE  LastSelection(Last(projects), Len(projects))
<1> DEFINE n == Len(projects)
           s == Last(projects)
<1>1. /\ projects \in Seq(Atom) /\ n \in Nat /\ DOMAIN projects = 1..n
      /\ AreQueues(vqs) /\ IsQueue(q)
  BY DEF SvTypes
<1>2. Follows(Append(Keys(vqs), Key(q)), FirstsOf(projects), KeysOn(projects))
  BY DEF QueuesFollow, PickedKeys
<1>3. Len(Append(Keys(vqs), Key(q))) = Len(vqs) + 1 /\ Len(vqs) \in Nat
  <2>1. Keys(Append(vqs, q)) = Append(Keys(vqs), Key(q)) /\ AreQueues(Append(vqs, q))
    BY <1>1, KeysAppend
  <2>2. Len(Keys(Append(vqs, q))) = Len(Append(vqs, q))
    BY <2>1, QueuesAre
  <2>3. vqs \in Seq(ToSet(vqs)) /\ Len(vqs) \in Nat
    BY <1>1, QueuesAre DEF AreQueues
  <2>4. Len(Append(vqs, q)) = Len(vqs) + 1
    <3> DEFINE T == ToSet(vqs) \cup {q}
    <3>1. ToSet(vqs) \subseteq T /\ q \in T
      OBVIOUS
    <3> HIDE DEF T
    <3>2. vqs \in Seq(T)
      BY <2>3, <3>1
    <3> QED
      BY <3>1, <3>2, AppendEffect
  <2> QED
    BY <2>1, <2>2, <2>3, <2>4
<1>4. FirstsOf(projects) # {}
  BY <1>2, <1>3 DEF Follows
<1>5. n > 1
  <2>1. PICK k \in DOMAIN projects : projects[k].p # Root
    BY <1>4 DEF FirstsOf
  <2>2. projects # <<>>
    BY <1>1, <2>1
  <2>3. k # 1
    BY <2>1, <2>2 DEF Rooted, RootAtom
  <2> QED
    BY <1>1, <2>1, <2>3
<1>6. projects # <<>>
  BY <1>1, <1>5
<1>7. /\ Front(projects) \in Seq(Atom) /\ Len(Front(projects)) = n - 1
      /\ \A i \in 1..(n - 1) : Front(projects)[i] = projects[i]
      /\ s = projects[n] /\ s \in Atom
  <2>1. projects \in Seq(Atom) /\ projects # <<>>
    BY <1>1, <1>6
  <2> QED
    BY <2>1, FrontEffect
<1>8. s.p \in Proj /\ s.v \in Ver /\ s.pl \in SUBSET Pkg
  BY <1>1, <1>5, <1>7 DEF Rooted, Atom
<1> HIDE DEF s, n
<1>9. projects = Append(Front(projects), s)
  <2>1. /\ Append(Front(projects), s) \in Seq(Atom) /\ Len(Append(Front(projects), s)) = n
        /\ Append(Front(projects), s)[n] = s
        /\ \A i \in 1..(n - 1) : Append(Front(projects), s)[i] = projects[i]
    BY <1>1, <1>7, AppendEffect
  <2>2. \A i \in 1..n : Append(Front(projects), s)[i] = projects[i]
    BY <1>1, <1>7, <2>1
  <2> QED
    <3>1. Len(projects) = n /\ projects \in Seq(Atom)
      BY <1>1 DEF n
    <3>2. \A i \in 1..Len(projects) : projects[i] = Append(Front(projects), s)[i]
      BY <2>2, <3>1
    <3> QED
      BY <2>1, <3>1, <3>2, SameKeys
<1>10. DOMAIN Front(projects) = 1..(n - 1)
  BY <1>7
<1> QED
  <2>1. n = Len(projects)
    BY DEF n
  <2>2. LastSelection(s, n)
    BY <1>1, <1>5, <1>7, <1>8, <1>9, <1>10, <2>1, Zenon DEF LastSelection
  <2> QED
    BY <2>2 DEF s, n

\* The dependencies that are left.
DepsLeft(ds) ==
  \A p \in Proj :
    /\ deps'[p] \in Seq(Dependency)
    /\ (\A d \in ds : d.on # p) => deps'[p] = deps[p]
    /\ (\E d \in ds : d.on = p) => deps[p] # <<>> /\ deps'[p] = Front(deps[p])
    /\ DOMAIN deps'[p] \subseteq DOMAIN deps[p]
    /\ \A j \in DOMAIN deps'[p] : deps'[p][j] = deps[p][j]

\* The stacks of dependencies follow the selections when the last is taken back.
LEMMA DepsFollowPopped ==
  ASSUME SvTypes, DepsFollow, u' = u, NEW s, NEW n, LastSelection(s, n),
         NEW ds, ds = DepsOf(s.p, s.v, s.pl), projects' = Front(projects), deps' = PopDeps(ds)
  PROVE  DepsFollow' /\ DepsLeft(ds) /\ deps' \in [Proj -> Seq(Dependency)]
<1> DEFINE w == Front(projects)
<1>1. /\ n \in Nat /\ n > 1 /\ DOMAIN projects = 1..n /\ DOMAIN w = 1..(n - 1) /\ s = projects[n]
      /\ w \in Seq(Atom) /\ Len(w) = n - 1 /\ projects = Append(w, s) /\ s \in Atom
  BY DEF LastSelection
<1> HIDE DEF w
<1>2. \A i \in 1..(n - 1) : ImportedAt(u, w, i) = ImportedAt(u, projects, i)
  BY <1>1, ImportedKept
<1>3. ImportedAt(u, projects, n) = ds
  <2>1. n # 1
    BY <1>1
  <2> QED
    BY <1>1, <2>1, ImportedAtIs
<1>4. ASSUME NEW p \in Proj
      PROVE  /\ Follows(deps'[p], On(u, w, p), EdgesOn(u, w, p))
             /\ deps'[p] \in Seq(Dependency)
             /\ (\A d \in ds : d.on # p) => deps'[p] = deps[p]
             /\ (\E d \in ds : d.on = p) => deps[p] # <<>> /\ deps'[p] = Front(deps[p])
             /\ DOMAIN deps'[p] \subseteq DOMAIN deps[p]
             /\ \A j \in DOMAIN deps'[p] : deps'[p][j] = deps[p][j]
  <2>1. Follows(deps[p], On(u, projects, p), EdgesOn(u, projects, p)) /\ deps[p] \in Seq(Dependency)
    BY DEF DepsFollow, SvTypes
  <2>2. On(u, projects, p) \subseteq 1..n
    BY <1>1 DEF On
  <2>3. ASSUME NEW k \in On(u, w, p)
        PROVE  k \in On(u, projects, p) /\ k # n /\ EdgesOn(u, w, p)[k] = EdgesOn(u, projects, p)[k]
    <3>1. k \in 1..(n - 1) /\ ImportedAt(u, w, k) = ImportedAt(u, projects, k) /\ k \in DOMAIN projects
      BY <1>1, <1>2 DEF On
    <3>2. k \in On(u, projects, p)
      BY <3>1 DEF On
    <3>3. /\ EdgesOn(u, w, p)[k] = {Edge(d) : d \in {e \in ImportedAt(u, w, k) : e.on = p}}
          /\ EdgesOn(u, projects, p)[k] = {Edge(d) : d \in {e \in ImportedAt(u, projects, k) : e.on = p}}
      BY <3>2 DEF EdgesOn
    <3> QED
      BY <1>1, <3>1, <3>2, <3>3
  <2>4. ASSUME NEW k \in On(u, projects, p), k # n PROVE k \in On(u, w, p)
    BY <1>1, <1>2, <2>2, <2>4 DEF On
  <2>5. CASE \A d \in ds : d.on # p
    <3>1. deps'[p] = deps[p]
      BY <2>5 DEF PopDeps
    <3>2. n \notin On(u, projects, p)
      BY <1>3, <2>5 DEF On
    <3>3. On(u, w, p) = On(u, projects, p)
      BY <2>3, <2>4, <3>2
    <3>4. Follows(deps[p], On(u, w, p), EdgesOn(u, w, p))
      BY <2>1, <2>3, <3>3, FollowsSame
    <3> QED
      BY <2>1, <2>5, <3>1, <3>4
  <2>6. CASE \E d \in ds : d.on = p
    <3>1. deps'[p] = Front(deps[p])
      BY <2>6 DEF PopDeps
    <3>2. n \in On(u, projects, p)
      BY <1>1, <1>3, <2>6 DEF On
    <3>3. On(u, w, p) = On(u, projects, p) \ {n}
      BY <2>3, <2>4
    <3>4. /\ deps[p] # <<>>
          /\ Follows(Front(deps[p]), On(u, projects, p) \ {n}, EdgesOn(u, w, p))
      <4>1. /\ On(u, projects, p) \subseteq Nat /\ \A k \in On(u, projects, p) : k <= n
            /\ \A k \in On(u, projects, p) \ {n} : EdgesOn(u, w, p)[k] = EdgesOn(u, projects, p)[k]
        BY <1>1, <2>2, <2>3, <3>3
      <4> QED
        BY <2>1, <3>2, <4>1, FollowsPop
    <3>5. /\ Front(deps[p]) \in Seq(Dependency) /\ Len(deps[p]) \in Nat \ {0}
          /\ Len(Front(deps[p])) = Len(deps[p]) - 1
          /\ \A j \in 1..(Len(deps[p]) - 1) : Front(deps[p])[j] = deps[p][j]
      BY <2>1, <3>4, FrontEffect
    <3>6. DOMAIN Front(deps[p]) = 1..(Len(deps[p]) - 1) /\ DOMAIN deps[p] = 1..Len(deps[p])
      BY <2>1, <3>5
    <3> QED
      BY <2>6, <3>1, <3>3, <3>4, <3>5, <3>6
  <2> QED
    BY <2>5, <2>6
<1>5. DepsFollow'
  BY <1>4 DEF DepsFollow, w
<1>6. DepsLeft(ds)
  BY <1>4 DEF DepsLeft
<1>7. deps' \in [Proj -> Seq(Dependency)]
  BY <1>4 DEF PopDeps
<1> QED
  BY <1>5, <1>6, <1>7


\* What is taken back is pushed to the heap, and what only it depended on leaves it.
LEMMA AccountedPopped ==
  ASSUME SvTypes, Accounted, NEW s, NEW n, LastSelection(s, n),
         NEW ds, AreDependencies(ds, s.p, s.v), \A d \in ds : d.on # s.p, DepsLeft(ds),
         projects' = Front(projects),
         NEW sel, NEW order \in SetToSeqs({d \in ds : Len(deps[d.on]) = 1}),
         unsel' = RemovedAll(HeapPush(sel, unsel, [p |-> s.p, pl |-> s.pl, fromRoot |-> FALSE,
                                                   prefv |-> None]), order)
  PROVE  Accounted' /\ unsel' \in Seq(Entry)
<1> DEFINE w == Front(projects)
           x == [p |-> s.p, pl |-> s.pl, fromRoot |-> FALSE, prefv |-> None]
           pushed == HeapPush(sel, unsel, x)
           unneeded == {d \in ds : Len(deps[d.on]) = 1}
           gone == {b \in Entry : \E d \in unneeded : b.p = d.on}
<1>1. /\ n \in Nat /\ n > 1 /\ DOMAIN projects = 1..n /\ DOMAIN w = 1..(n - 1) /\ s = projects[n]
      /\ s.p \in Proj /\ s.pl \in SUBSET Pkg /\ \A i \in 1..(n - 1) : w[i] = projects[i]
  BY DEF LastSelection
<1>2. unsel \in Seq(Entry)
  BY DEF SvTypes
<1>3. x \in Entry /\ x.p = s.p /\ x.pl = s.pl
  BY <1>1 DEF Entry
<1>4. IsFiniteSet(unneeded) /\ unneeded \subseteq ds
  <2>1. unneeded \in SUBSET ds
    OBVIOUS
  <2> HIDE DEF unneeded
  <2> QED
    BY <2>1, FS_Subset DEF AreDependencies
<1>5. order \in SetToSeqs(unneeded) /\ unsel' = RemovedAll(pushed, order)
  OBVIOUS
<1> HIDE DEF w, x, pushed, unneeded
<1>6. pushed \in Seq(Entry) /\ ToSet(pushed) = ToSet(unsel) \cup {x}
  <2>1. Holds(HeapPush(sel, unsel, x), unsel, {x}, Entry)
    BY <1>2, <1>3, HeapPushEffect
  <2> QED
    BY <2>1 DEF Holds, pushed
<1>7. order \in Seq(unneeded) /\ ToSet(order) = unneeded
  BY <1>4, <1>5, OrderEffect
<1>8. unsel' \in Seq(Entry) /\ ToSet(pushed) \ gone \subseteq ToSet(unsel')
  <2>1. Spares(RemovedAll(pushed, order), pushed, {b \in Entry : \E d \in ToSet(order) : b.p = d.on}, Entry)
    BY <1>6, <1>7, RemovedAllEffect
  <2> QED
    BY <1>5, <1>7, <2>1 DEF Spares
<1>9. ASSUME NEW p \in Proj, NEW j \in DOMAIN deps'[p], NEW k \in deps'[p][j].pl
      PROVE  IsChosen(projects', p, k) \/ IsAwaited(unsel', p, k)
  <2>1. j \in DOMAIN deps[p] /\ k \in deps[p][j].pl
    BY <1>9 DEF DepsLeft
  <2>2. \A d \in unneeded : d.on # p
    <3> SUFFICES ASSUME NEW d \in unneeded, d.on = p PROVE FALSE
      OBVIOUS
    <3>1. d \in ds /\ Len(deps[p]) = 1
      BY DEF unneeded
    <3>2. deps'[p] = Front(deps[p]) /\ deps[p] # <<>> /\ deps[p] \in Seq(Dependency)
      BY <3>1 DEF DepsLeft, SvTypes
    <3>3. Len(deps'[p]) = 0 /\ deps'[p] \in Seq(Dependency)
      BY <3>1, <3>2, FrontEffect
    <3> QED
      BY <1>9, <3>3
  <2>3. ASSUME NEW b \in ToSet(pushed), b.p = p, k \in b.pl PROVE IsAwaited(unsel', p, k)
    <3>1. b \notin gone
      BY <2>2, <2>3
    <3> QED
      BY <1>8, <2>3, <3>1 DEF IsAwaited
  <2>4. CASE IsChosen(projects, p, k)
    <3>1. PICK i \in 1..n : projects[i].p = p /\ k \in projects[i].pl
      BY <1>1, <2>4 DEF IsChosen
    <3>2. CASE i = n
      <4>1. x \in ToSet(pushed) /\ x.p = p /\ k \in x.pl
        BY <1>1, <1>3, <1>6, <3>1, <3>2
      <4> QED
        BY <2>3, <4>1
    <3>3. CASE i # n
      <4>1. i \in DOMAIN w /\ w[i] = projects[i]
        BY <1>1, <3>1, <3>3
      <4> QED
        BY <3>1, <4>1 DEF IsChosen, w
    <3> QED
      BY <3>2, <3>3
  <2>5. CASE IsAwaited(unsel, p, k)
    BY <1>6, <2>3, <2>5 DEF IsAwaited
  <2> QED
    BY <2>1, <2>4, <2>5 DEF Accounted
<1> QED
  BY <1>8, <1>9 DEF Accounted

\* The queue of the project that is taken back is the one in hand.
LEMMA QueueInHand ==
  ASSUME SvTypes, QueuesFollow, phase \in {"discard", "revisit"}, NEW s, NEW n, LastSelection(s, n)
  PROVE  /\ s.first => q.p = s.p /\ Follows(Keys(vqs), FirstsOf(Front(projects)), KeysOn(Front(projects)))
         /\ ~s.first => Follows(PickedKeys, FirstsOf(Front(projects)), KeysOn(Front(projects)))
<1> DEFINE w == Front(projects)
           X == {Key(y) : y \in ToSet(vqs)} \cup {Key(q)}
<1>1. /\ n \in Nat /\ n > 1 /\ w \in Seq(Atom) /\ Len(w) = n - 1 /\ projects = Append(w, s)
      /\ s \in Atom /\ s.p \in Proj
  BY DEF LastSelection
<1>2. AreQueues(vqs) /\ IsQueue(q)
  BY DEF SvTypes
<1>3. /\ PickedKeys = Append(Keys(vqs), Key(q))
      /\ Follows(PickedKeys, FirstsOf(projects), KeysOn(projects))
  BY DEF QueuesFollow, PickedKeys
<1> HIDE DEF w
<1>4. Keys(vqs) \in Seq(X) /\ Key(q) \in X
  <2>1. Keys(vqs) \in Seq({Key(y) : y \in ToSet(vqs)}) /\ {Key(y) : y \in ToSet(vqs)} \subseteq X
    BY <1>2, QueuesAre
  <2>2. Key(q) \in X
    OBVIOUS
  <2> HIDE DEF X
  <2> QED
    BY <2>1, <2>2
<1>5. s.p # Root /\ Len(w) + 1 = n
  BY <1>1, SolverConstants
<1>6. /\ FirstsOf(w) \subseteq 1..(n - 1)
      /\ s.first => FirstsOf(projects) = FirstsOf(w) \cup {n} /\ KeysOn(projects)[n] = {<<s.p, s.v>>}
      /\ ~s.first => FirstsOf(projects) = FirstsOf(w)
      /\ \A k \in FirstsOf(w) : KeysOn(projects)[k] = KeysOn(w)[k]
  BY <1>1, <1>5, FirstsPushed
<1> HIDE DEF X
<1>7. PickedKeys \in Seq(X) /\ Front(PickedKeys) = Keys(vqs) /\ Last(PickedKeys) = Key(q)
  BY <1>3, <1>4, AppendEffect, FrontOfAppend
<1>8. CASE s.first
  <2>1. FirstsOf(projects) \ {n} = FirstsOf(w)
    BY <1>1, <1>6, <1>8
  <2>2. /\ FirstsOf(projects) \subseteq Nat /\ n \in FirstsOf(projects)
        /\ \A k \in FirstsOf(projects) : k <= n
        /\ \A k \in FirstsOf(projects) \ {n} : KeysOn(w)[k] = KeysOn(projects)[k]
    BY <1>1, <1>6, <1>8, <2>1
  <2>3. /\ Last(PickedKeys) \in KeysOn(projects)[n]
        /\ Follows(Front(PickedKeys), FirstsOf(projects) \ {n}, KeysOn(w))
    BY <1>3, <1>7, <2>2, FollowsPop
  <2>4. Key(q) = <<s.p, s.v>>
    BY <1>6, <1>7, <1>8, <2>3
  <2>5. q.p = s.p
    BY <2>4 DEF Key
  <2> QED
    BY <1>7, <1>8, <2>1, <2>3, <2>5 DEF w
<1>9. CASE ~s.first
  <2>1. \A k \in FirstsOf(projects) : KeysOn(w)[k] = KeysOn(projects)[k]
    BY <1>6, <1>9
  <2>2. Follows(PickedKeys, FirstsOf(projects), KeysOn(w))
    BY <1>3, <2>1, FollowsSame
  <2> QED
    BY <1>6, <1>9, <2>2 DEF w
<1>10. s.first \in BOOLEAN
  BY <1>1 DEF Atom
<1> QED
  BY <1>8, <1>9

\* unselectLast.
LEMMA UnselectLastInv ==
  ASSUME SvInv, UnselectLast
  PROVE  SvInv'
<1> DEFINE s == Last(projects)
           n == Len(projects)
           ds == DepsOf(s.p, s.v, s.pl)
           w == Front(projects)
<1>1. /\ SvTypes /\ Rooted /\ DepsFollow /\ QueuesFollow /\ SelectedOnce /\ RulesKept /\ Analysed /\ Accounted
      /\ phase \in {"discard", "revisit"} /\ u' = u /\ vqs' = vqs
      /\ projects' = w /\ deps' = PopDeps(ds) /\ goal' = s.pl
  BY DEF SvInv, UnselectLast
<1>2. PICK order \in SetToSeqs({d \in ds : Len(deps[d.on]) = 1}) :
        unsel' = RemovedAll(HeapPush(w, unsel, [p |-> s.p, pl |-> s.pl, fromRoot |-> FALSE,
                                                prefv |-> None]), order)
  BY DEF UnselectLast
<1>3. \/ ~s.first /\ q' = q /\ phase' = phase
      \/ s.first /\ (phase' = "backtrack" \/ phase' = "panic")
      \/ s.first /\ phase' = "search" /\ q' = Advance(q)
  BY DEF UnselectLast
<1>4. LastSelection(s, n)
  BY <1>1, LastSelectionIs
<1> HIDE DEF s, n, ds, w
<1>5. /\ n \in Nat /\ n > 1 /\ DOMAIN projects = 1..n /\ DOMAIN w = 1..(n - 1) /\ s = projects[n]
      /\ s.p \in Proj /\ s.v \in Ver /\ s.pl \in SUBSET Pkg
      /\ w \in Seq(Atom) /\ \A i \in 1..(n - 1) : w[i] = projects[i]
  BY <1>4 DEF LastSelection, w
<1>6. u \in Universe /\ AreQueues(vqs) /\ IsQueue(q)
  BY <1>1 DEF SvTypes
<1>7. DepsFollow' /\ DepsLeft(ds) /\ deps' \in [Proj -> Seq(Dependency)]
  <2>1. ds = DepsOf(s.p, s.v, s.pl) /\ projects' = Front(projects)
    BY <1>1 DEF ds, w
  <2> QED
    BY <1>1, <1>4, <2>1, DepsFollowPopped
<1>8. Accounted' /\ unsel' \in Seq(Entry)
  <2>1. AreDependencies(ds, s.p, s.v) /\ \A d \in ds : d.on # s.p
    BY <1>5, <1>6, PackagesImport DEF ds
  <2>2. projects' = Front(projects)
    BY <1>1 DEF w
  <2> QED
    BY <1>1, <1>2, <1>4, <1>7, <2>1, <2>2, AccountedPopped
<1>9. /\ s.first => q.p = s.p /\ Follows(Keys(vqs), FirstsOf(w), KeysOn(w))
      /\ ~s.first => Follows(PickedKeys, FirstsOf(w), KeysOn(w))
  BY <1>1, <1>4, QueueInHand DEF w
<1>10. IsQueue(Advance(q)) /\ Advance(q).p = q.p
  BY <1>6, AdvanceIs
<1>11. SvTypes'
  BY <1>1, <1>3, <1>5, <1>6, <1>7, <1>8, <1>10 DEF SvTypes, Busy, Final
<1>12. Rooted'
  <2>1. projects' # <<>> /\ projects'[1] = projects[1] /\ projects # <<>>
    BY <1>1, <1>5
  <2>2. phase' # "start" /\ phase # "start"
    BY <1>1, <1>3
  <2>3. \A i \in DOMAIN projects' : i # 1 => projects'[i].p \in Proj /\ projects'[i].v \in Ver
    BY <1>1, <1>5 DEF Rooted
  <2> QED
    BY <1>1, <2>1, <2>2, <2>3 DEF Rooted
<1>13. QueuesFollow'
  <2>1. PickedKeys' = IF s.first THEN Keys(vqs) ELSE PickedKeys
    BY <1>1, <1>3 DEF PickedKeys
  <2> QED
    BY <1>1, <1>9, <2>1 DEF QueuesFollow
<1>14. SelectedOnce'
  <2>1. \A i \in 1..(n - 1) : i \in DOMAIN projects /\ w[i] = projects[i] /\ 1..(i - 1) \subseteq 1..(n - 1)
    BY <1>5
  <2>2. ASSUME NEW i \in DOMAIN w, NEW j \in DOMAIN w, w[i].p = w[j].p PROVE w[i].v = w[j].v
    <3>1. i \in DOMAIN projects /\ w[i] = projects[i] /\ j \in DOMAIN projects /\ w[j] = projects[j]
      BY <1>5, <2>1
    <3> QED
      BY <1>1, <2>2, <3>1 DEF SelectedOnce
  <2>3. ASSUME NEW i \in DOMAIN w
        PROVE  w[i].first <=> \A j \in 1..(i - 1) : w[j].p # w[i].p
    <3>1. i \in DOMAIN projects /\ w[i] = projects[i] /\ \A j \in 1..(i - 1) : w[j] = projects[j]
      BY <1>5, <2>1
    <3>2. projects[i].first <=> \A j \in 1..(i - 1) : projects[j].p # projects[i].p
      BY <1>1, <3>1 DEF SelectedOnce
    <3> QED
      BY <3>1, <3>2
  <2>4. ASSUME phase' = "search" PROVE \A i \in DOMAIN w : w[i].p # q'.p
    <3>1. s.first /\ q'.p = s.p
      BY <1>1, <1>3, <1>9, <1>10, <2>4
    <3>2. n \in DOMAIN projects /\ \A j \in 1..(n - 1) : projects[j].p # s.p
      BY <1>1, <1>5, <3>1 DEF SelectedOnce
    <3> QED
      BY <1>5, <3>1, <3>2
  <2> QED
    BY <1>1, <2>2, <2>3, <2>4 DEF SelectedOnce
<1>15. RulesKept'
  <2>1. ASSUME NEW i \in DOMAIN w, i # 1, NEW j \in DOMAIN deps'[w[i].p]
        PROVE  w[i].v \in deps'[w[i].p][j].c
    <3>1. i \in DOMAIN projects /\ w[i] = projects[i] /\ w[i].p \in Proj
      BY <1>1, <1>5, <2>1 DEF Rooted
    <3>2. j \in DOMAIN deps[w[i].p] /\ deps'[w[i].p][j] = deps[w[i].p][j]
      BY <1>7, <2>1, <3>1 DEF DepsLeft
    <3> QED
      BY <1>1, <2>1, <3>1, <3>2 DEF RulesKept
  <2> QED
    BY <1>1, <2>1 DEF RulesKept
<1>16. Analysed' /\ Done'
  BY <1>1, <1>3, <1>5 DEF Analysed, Done
<1> QED
  BY <1>7, <1>8, <1>11, <1>12, <1>13, <1>14, <1>15, <1>16 DEF SvInv


\* The invariant holds initially.
LEMMA SolverInitInv ==
  ASSUME SolverInit
  PROVE  SvInv
<1>1. /\ u \in Universe /\ projects = <<>> /\ deps = [p \in Proj |-> <<>>] /\ unsel = <<>>
      /\ vqs = <<>> /\ goal = {} /\ phase = "start"
  BY DEF SolverInit
<1>2. AreQueues(vqs)
  <2>1. ToSet(<<>>) = {}
    BY DEF ToSet
  <2>2. <<>> \in Seq({})
    OBVIOUS
  <2> QED
    BY <1>1, <2>1, <2>2 DEF AreQueues
<1>3. SvTypes
  BY <1>1, <1>2 DEF SvTypes, Busy
<1>4. Rooted
  BY <1>1 DEF Rooted
<1>5. DepsFollow
  <2> SUFFICES ASSUME NEW p \in Proj PROVE Follows(deps[p], On(u, projects, p), EdgesOn(u, projects, p))
    BY DEF DepsFollow
  <2>1. deps[p] = <<>> /\ On(u, projects, p) = {}
    BY <1>1 DEF On
  <2>2. PICK M : M = EdgesOn(u, projects, p)
    OBVIOUS
  <2> QED
    BY <2>1, <2>2, FollowsNone
<1>6. QueuesFollow
  <2>1. PickedKeys = <<>> /\ FirstsOf(projects) = {}
    BY <1>1 DEF PickedKeys, Keys, FirstsOf
  <2>2. PICK M : M = KeysOn(projects)
    OBVIOUS
  <2> QED
    BY <2>1, <2>2, FollowsNone DEF QueuesFollow
<1>7. SelectedOnce /\ RulesKept /\ Analysed /\ Accounted /\ Done
  BY <1>1 DEF SelectedOnce, RulesKept, Analysed, Accounted, Done
<1> QED
  BY <1>3, <1>4, <1>5, <1>6, <1>7 DEF SvInv

\* It is about the variables of the solver only.
LEMMA SolverStutters ==
  ASSUME SvInv, UNCHANGED sVars
  PROVE  SvInv'
<1>1. UNCHANGED <<u, projects, deps, unsel, vqs, q, goal, phase>>
  BY DEF sVars
<1>2. SvTypes' /\ Rooted' /\ DepsFollow'
  BY <1>1 DEF SvInv, SvTypes, Rooted, DepsFollow
<1>3. QueuesFollow'
  BY <1>1 DEF SvInv, QueuesFollow, PickedKeys, Keys
<1>4. SelectedOnce' /\ RulesKept' /\ Analysed' /\ Accounted' /\ Done'
  BY <1>1 DEF SvInv, SelectedOnce, RulesKept, Analysed, Accounted, Done
<1> QED
  BY <1>2, <1>3, <1>4 DEF SvInv

\* SvInv is an invariant of the solver: through every selection, failure, backtrack and
\* cancellation the stack of selections, the stacks of dependencies, the stack of queues and
\* the heap tell the same story (solver.go: solve, selectAtom, unselectLast, backtrack).
THEOREM SolverInvariant == SolverSpec => []SvInv
<1>1. SolverInit => SvInv
  BY SolverInitInv
<1>2. SvInv /\ [SolverNext]_sVars => SvInv'
  <2> SUFFICES ASSUME SvInv, [SolverNext]_sVars PROVE SvInv'
    OBVIOUS
  <2>1. CASE SelectRoot
    BY <2>1, SelectRootInv
  <2>2. CASE Solved
    BY <2>2, SolvedInv
  <2>3. CASE CreateVersionQueue
    BY <2>3, CreateVersionQueueInv
  <2>4. CASE TryGood
    BY <2>4, TryGoodInv
  <2>5. CASE TryBad
    BY <2>5, TryBadInv
  <2>6. CASE AddPackages
    BY <2>6, AddPackagesInv
  <2>7. CASE Backtrack
    BY <2>7, BacktrackInv
  <2>8. CASE UnselectLast
    BY <2>8, UnselectLastInv
  <2>9. CASE Cancel
    BY <2>9, CancelInv
  <2>10. CASE UNCHANGED sVars
    BY <2>10, SolverStutters
  <2> QED
    BY <2>1, <2>2, <2>3, <2>4, <2>5, <2>6, <2>7, <2>8, <2>9, <2>10 DEF SolverNext
<1> QED
  BY <1>1, <1>2, PTL DEF SolverSpec

-----------------------------------------------------------------------------
(* Solver: StacksAgree.                                                     *)

\* The queues are those of the first selections.
LEMMA StacksAlignedHolds ==
  ASSUME SvInv
  PROVE  StacksAligned
<1> SUFFICES ASSUME phase = "loop" PROVE StacksAligned
  BY DEF StacksAligned
<1>1. SvTypes /\ QueuesFollow
  BY DEF SvInv
<1>2. AreQueues(vqs) /\ DOMAIN vqs = 1..Len(vqs) /\ Len(Keys(vqs)) = Len(vqs)
      /\ \A i \in 1..Len(vqs) : Keys(vqs)[i] = Key(vqs[i])
  BY <1>1, QueuesAre DEF SvTypes
<1>3. Firsts = FirstsOf(projects)
  BY DEF Firsts, FirstsOf
<1>4. Follows(Keys(vqs), Firsts, KeysOn(projects))
  BY <1>1, <1>3 DEF QueuesFollow, PickedKeys
<1>5. PICK at \in [1..Len(vqs) -> Firsts] :
        /\ InOrder(at, Len(vqs), Firsts)
        /\ \A i \in 1..Len(vqs) : Keys(vqs)[i] \in KeysOn(projects)[at[i]]
  BY <1>2, <1>4 DEF Follows
<1>6. ASSUME NEW i \in DOMAIN vqs
      PROVE  vqs[i].p = projects[at[i]].p /\ Head(vqs[i].pi) = projects[at[i]].v
  <2>1. i \in 1..Len(vqs) /\ at[i] \in FirstsOf(projects)
    BY <1>2, <1>3, <1>5
  <2>2. Key(vqs[i]) \in {<<projects[at[i]].p, projects[at[i]].v>>}
    BY <1>2, <1>5, <2>1 DEF KeysOn
  <2> QED
    BY <2>2 DEF Key
<1>7. at \in [DOMAIN vqs -> Firsts]
  BY <1>2, <1>5
<1>8. /\ \A i, j \in DOMAIN vqs : i < j => at[i] < at[j]
      /\ \A k \in Firsts : \E i \in DOMAIN vqs : at[i] = k
  BY <1>2, <1>5 DEF InOrder
<1> QED
  BY <1>6, <1>7, <1>8 DEF StacksAligned

\* An atom has one dependency on a project.
LEMMA ImportedOnce ==
  ASSUME NEW x, NEW p, NEW v, NEW imports,
         NEW a \in ImportedBy(x, p, v, imports), NEW b \in ImportedBy(x, p, v, imports), a.on = b.on
  PROVE  a = b
<1> DEFINE D(p2) == [on |-> p2, by |-> p, v |-> v,
                     c |-> IF p = Root THEN RootRule(x, p2) ELSE Rule(x, p, v, p2),
                     pl |-> {k \in Pkg : <<p2, k>> \in imports}]
<1>1. PICK p1 : a = D(p1)
  BY DEF ImportedBy
<1>2. PICK p2 : b = D(p2)
  BY DEF ImportedBy
<1>3. p1 = p2
  <2>1. a.on = p1 /\ b.on = p2
    BY <1>1, <1>2
  <2> QED
    BY <2>1
<1> QED
  BY <1>1, <1>2, <1>3

\* The edges on p, whatever pushed them.
LEMMA EdgesAre ==
  ASSUME SvInv, NEW p \in Proj
  PROVE  /\ \A j \in DOMAIN deps[p] : \E i \in DOMAIN projects : \E d \in ImportedAt(u, projects, i) :
              d.on = p /\ deps[p][j] = Edge(d)
         /\ \A i \in DOMAIN projects : \A d \in ImportedAt(u, projects, i) :
              d.on = p => Edge(d) \in ToSet(deps[p])
<1>1. Follows(deps[p], On(u, projects, p), EdgesOn(u, projects, p)) /\ deps[p] \in Seq(Dependency)
  BY DEF SvInv, DepsFollow, SvTypes
<1>2. DOMAIN deps[p] = 1..Len(deps[p])
  BY <1>1
<1>3. PICK at \in [1..Len(deps[p]) -> On(u, projects, p)] :
        /\ InOrder(at, Len(deps[p]), On(u, projects, p))
        /\ \A j \in 1..Len(deps[p]) : deps[p][j] \in EdgesOn(u, projects, p)[at[j]]
  BY <1>1 DEF Follows
<1>4. ASSUME NEW j \in DOMAIN deps[p]
      PROVE  \E i \in DOMAIN projects : \E d \in ImportedAt(u, projects, i) :
               d.on = p /\ deps[p][j] = Edge(d)
  <2>1. at[j] \in On(u, projects, p) /\ deps[p][j] \in EdgesOn(u, projects, p)[at[j]]
    BY <1>2, <1>3
  <2>2. deps[p][j] \in {Edge(d) : d \in {e \in ImportedAt(u, projects, at[j]) : e.on = p}}
    BY <2>1 DEF EdgesOn
  <2>3. at[j] \in DOMAIN projects
    BY <2>1 DEF On
  <2> QED
    BY <2>2, <2>3
<1>5. ASSUME NEW i \in DOMAIN projects, NEW d \in ImportedAt(u, projects, i), d.on = p
      PROVE  Edge(d) \in ToSet(deps[p])
  <2>1. i \in On(u, projects, p)
    BY <1>5 DEF On
  <2>2. PICK j \in 1..Len(deps[p]) : at[j] = i
    BY <1>3, <2>1 DEF InOrder
  <2>3. PICK e \in ImportedAt(u, projects, i) : e.on = p /\ deps[p][j] = Edge(e)
    <3>1. deps[p][j] \in {Edge(e) : e \in {x \in ImportedAt(u, projects, i) : x.on = p}}
      BY <1>3, <2>1, <2>2 DEF EdgesOn
    <3> QED
      BY <3>1
  <2>4. e = d
    <3>1. \A x, y \in ImportedAt(u, projects, i) : x.on = y.on => x = y
      BY ImportedOnce DEF ImportedAt
    <3> QED
      BY <1>5, <2>3, <3>1
  <2> QED
    BY <1>2, <2>3, <2>4 DEF ToSet
<1> QED
  BY <1>4, <1>5

\* The elements of a tail are those at other places than the first.
LEMMA TailIs ==
  ASSUME NEW T, NEW s \in Seq(T), s # <<>>
  PROVE  ToSet(Tail(s)) = {s[i] : i \in {k \in DOMAIN s : k # 1}}
<1>1. Len(s) \in Nat /\ Len(s) > 0 /\ DOMAIN s = 1..Len(s)
  OBVIOUS
<1>2. Tail(s) \in Seq(T) /\ Len(Tail(s)) = Len(s) - 1 /\ \A i \in 1..(Len(s) - 1) : Tail(s)[i] = s[i + 1]
  BY <1>1
<1>3. DOMAIN Tail(s) = 1..(Len(s) - 1)
  BY <1>2
<1>4. ASSUME NEW k \in DOMAIN s, k # 1 PROVE \E i \in 1..(Len(s) - 1) : Tail(s)[i] = s[k]
  <2>1. k - 1 \in 1..(Len(s) - 1) /\ k - 1 + 1 = k
    BY <1>1, <1>4
  <2>2. Tail(s)[k - 1] = s[k]
    BY <1>2, <2>1
  <2> QED
    BY <2>1, <2>2
<1>5. ASSUME NEW i \in 1..(Len(s) - 1) PROVE \E k \in DOMAIN s : k # 1 /\ Tail(s)[i] = s[k]
  <2>1. i + 1 \in DOMAIN s /\ i + 1 # 1
    BY <1>1
  <2> QED
    BY <1>2, <2>1
<1>6. ToSet(Tail(s)) = {Tail(s)[i] : i \in 1..(Len(s) - 1)}
  BY <1>3 DEF ToSet
<1>7. {Tail(s)[i] : i \in 1..(Len(s) - 1)} \subseteq {s[i] : i \in {k \in DOMAIN s : k # 1}}
  BY <1>5
<1>8. {s[i] : i \in {k \in DOMAIN s : k # 1}} \subseteq {Tail(s)[i] : i \in 1..(Len(s) - 1)}
  BY <1>4
<1> QED
  BY <1>6, <1>7, <1>8

\* The edges are those of the selections.
LEMMA DepsOfSelectedHolds ==
  ASSUME SvInv
  PROVE  DepsOfSelected
<1> SUFFICES ASSUME phase \in {"loop", "backtrack"}, NEW p \in Proj
             PROVE  ToSet(deps[p]) =
                      {Edge(d) : d \in {x \in DependenciesOf(Root, None, Imports(u))
                                          \cup UNION {DepsOf(s.p, s.v, s.pl) : s \in ToSet(Tail(projects))}
                                        : x.on = p}}
  BY DEF DepsOfSelected
<1> DEFINE all == DependenciesOf(Root, None, Imports(u))
                    \cup UNION {DepsOf(s.p, s.v, s.pl) : s \in ToSet(Tail(projects))}
<1>1. projects \in Seq(Atom) /\ projects # <<>> /\ deps[p] \in Seq(Dependency)
  BY DEF SvInv, SvTypes, Rooted
<1>2. ToSet(Tail(projects)) = {projects[i] : i \in {k \in DOMAIN projects : k # 1}}
  BY <1>1, TailIs
<1>3. 1 \in DOMAIN projects
  BY <1>1
<1>4. \A i \in DOMAIN projects :
        ImportedAt(u, projects, i) = IF i = 1 THEN DependenciesOf(Root, None, Imports(u))
                                     ELSE DepsOf(projects[i].p, projects[i].v, projects[i].pl)
  BY ImportedAtIs
<1>5. \A d : d \in all <=> \E i \in DOMAIN projects : d \in ImportedAt(u, projects, i)
  BY <1>2, <1>3, <1>4
<1> HIDE DEF all
<1>6. ASSUME NEW e \in ToSet(deps[p]) PROVE e \in {Edge(d) : d \in {x \in all : x.on = p}}
  <2>1. PICK j \in DOMAIN deps[p] : e = deps[p][j]
    BY DEF ToSet
  <2> QED
    BY <1>5, <2>1, EdgesAre
<1>7. ASSUME NEW d \in all, d.on = p PROVE Edge(d) \in ToSet(deps[p])
  BY <1>5, <1>7, EdgesAre
<1>8. ToSet(deps[p]) = {Edge(d) : d \in {x \in all : x.on = p}}
  BY <1>6, <1>7
<1> QED
  BY <1>8 DEF all

\* Nothing that is imported is forgotten.
LEMMA ImportsPendingHolds ==
  ASSUME SvInv
  PROVE  ImportsPending
<1> SUFFICES ASSUME NEW p \in Proj, NEW d \in Deppers(p), NEW k \in d.pl
             PROVE  k \in Packages(p) \cup UNION {b.pl : b \in {x \in ToSet(unsel) : x.p = p}}
  BY DEF ImportsPending
<1>1. PICK j \in DOMAIN deps[p] : d = deps[p][j]
  BY DEF Deppers
<1>2. IsChosen(projects, p, k) \/ IsAwaited(unsel, p, k)
  BY <1>1 DEF SvInv, Accounted
<1> QED
  BY <1>2 DEF IsChosen, IsAwaited, Packages, ToSet

\* The stacks of projects, queues and dependencies and the heap agree through
\* every selection and every backtrack (solver.go: selectAtom, unselectLast, backtrack).
THEOREM StacksAgreeAlways == SolverSpec => []StacksAgree
<1>1. SvInv => StacksAgree
  BY StacksAlignedHolds, DepsOfSelectedHolds, ImportsPendingHolds DEF StacksAgree
<1> QED
  BY <1>1, SolverInvariant, PTL


-----------------------------------------------------------------------------
(* Solver: SolutionSound.                                                   *)

\* What the packages of a selection import is among its dependencies.
LEMMA SelectionImports ==
  ASSUME SvInv, NEW j \in DOMAIN projects, j # 1, NEW k \in projects[j].pl,
         NEW i \in External(u, projects[j].p, projects[j].v, k)
  PROVE  \E d \in ImportedAt(u, projects, j) :
           /\ d.on = i[1] /\ i[2] \in d.pl /\ d.on \in Proj
           /\ d.c = Rule(u, projects[j].p, projects[j].v, d.on)
<1> DEFINE p == projects[j].p
           v == projects[j].v
           pl == projects[j].pl
<1>1. u \in Universe /\ p \in Proj /\ v \in Ver /\ pl \in SUBSET Pkg
  <2>1. projects \in Seq(Atom)
    BY DEF SvInv, SvTypes
  <2>2. projects[j] \in Atom
    BY <2>1
  <2> QED
    BY <2>2 DEF SvInv, SvTypes, Rooted, Atom
<1>2. ImportedAt(u, projects, j) = DepsOf(p, v, pl)
  BY ImportedAtIs
<1> HIDE DEF p, v, pl
<1>3. /\ AreDependencies(DepsOf(p, v, pl), p, v)
      /\ ImportAll(DepsOf(p, v, pl), UNION {External(u, p, v, l) : l \in pl})
  BY <1>1, PackagesImport
<1>4. i \in UNION {External(u, p, v, l) : l \in pl}
  BY DEF p, v, pl
<1>5. PICK d \in DepsOf(p, v, pl) : d.on = i[1] /\ i[2] \in d.pl
  BY <1>3, <1>4 DEF ImportAll
<1>6. d.on \in Proj /\ d.c = Rule(u, p, v, d.on)
  BY <1>1, <1>3, SolverConstants DEF AreDependencies, RuleOf
<1> QED
  BY <1>2, <1>5, <1>6 DEF p, v

\* So is what the root imports.
LEMMA RootSelectionImports ==
  ASSUME SvInv, NEW i \in Imports(u)
  PROVE  \E d \in ImportedAt(u, projects, 1) :
           d.on = i[1] /\ i[2] \in d.pl /\ d.on \in Proj /\ d.c = RootRule(u, d.on)
<1>1. u \in Universe
  BY DEF SvInv, SvTypes
<1>2. ImportedAt(u, projects, 1) = DependenciesOf(Root, None, Imports(u))
  BY ImportedAtIs
<1>3. /\ AreDependencies(DependenciesOf(Root, None, Imports(u)), Root, None)
      /\ ImportAll(DependenciesOf(Root, None, Imports(u)), Imports(u))
  BY <1>1, RootImports
<1>4. PICK d \in DependenciesOf(Root, None, Imports(u)) : d.on = i[1] /\ i[2] \in d.pl
  BY <1>3 DEF ImportAll
<1>5. d.on \in Proj /\ d.c = RootRule(u, d.on)
  BY <1>3 DEF AreDependencies, RuleOf
<1> QED
  BY <1>2, <1>4, <1>5

\* In a solution a dependency is met by the version chosen, with the packages it wants.
LEMMA DependencyMet ==
  ASSUME SvInv, phase = "solved", NEW j \in DOMAIN projects, NEW d \in ImportedAt(u, projects, j),
         d.on \in Proj, NEW k \in d.pl
  PROVE  /\ IsChosen(projects, d.on, k)
         /\ \A i \in DOMAIN projects : projects[i].p = d.on => projects[i].v \in d.c
<1>1. Edge(d) \in ToSet(deps[d.on])
  BY EdgesAre
<1>2. PICK l \in DOMAIN deps[d.on] : deps[d.on][l] = Edge(d)
  BY <1>1 DEF ToSet
<1>3. Edge(d).pl = d.pl /\ Edge(d).c = d.c
  BY DEF Edge
<1>4. IsChosen(projects, d.on, k) \/ IsAwaited(unsel, d.on, k)
  BY <1>2, <1>3 DEF SvInv, Accounted
<1>5. ~IsAwaited(unsel, d.on, k)
  BY DEF SvInv, Done, IsAwaited, ToSet
<1>6. ASSUME NEW i \in DOMAIN projects, projects[i].p = d.on PROVE projects[i].v \in d.c
  <2>1. i # 1
    <3>1. projects \in Seq(Atom) /\ projects # <<>>
      BY DEF SvInv, SvTypes, Rooted
    <3> QED
      BY <1>6, <3>1, SolverConstants DEF SvInv, Rooted, RootAtom
  <2> QED
    BY <1>2, <1>3, <1>6, <2>1 DEF SvInv, RulesKept
<1> QED
  BY <1>4, <1>5, <1>6

\* Chosen, Version and Packages, by the places of the stack.
LEMMA ChosenAre ==
  ASSUME SvInv, projects # <<>>
  PROVE  /\ \A p \in Chosen : p \in Proj /\ \E i \in DOMAIN projects : i # 1 /\ projects[i].p = p
         /\ \A i \in DOMAIN projects : i # 1 => projects[i].p \in Chosen
                                         /\ Version(projects[i].p) = projects[i].v
         /\ \A p, k : k \in Packages(p) <=> IsChosen(projects, p, k)
<1>1. /\ projects \in Seq(Atom) /\ projects[1].p = Root /\ 1 \in DOMAIN projects
      /\ \A i \in DOMAIN projects : i # 1 => projects[i].p \in Proj
  BY DEF SvInv, SvTypes, Rooted, RootAtom
<1>2. \A p : p \in Chosen <=> p # Root /\ \E i \in DOMAIN projects : projects[i].p = p
  BY DEF Chosen, ToSet
<1>3. ASSUME NEW p \in Chosen PROVE p \in Proj /\ \E i \in DOMAIN projects : i # 1 /\ projects[i].p = p
  BY <1>1, <1>2
<1>4. ASSUME NEW i \in DOMAIN projects, i # 1
      PROVE  projects[i].p \in Chosen /\ Version(projects[i].p) = projects[i].v
  <2>1. projects[i].p \in Proj /\ IsSelected(projects, projects[i].p)
    BY <1>1, <1>4 DEF IsSelected
  <2>2. projects[i].p \in Chosen
    BY <1>2, <2>1, SolverConstants
  <2>3. PICK l \in DOMAIN projects : projects[l].p = projects[i].p /\ Selected(projects, projects[i].p) = projects[l].v
    BY <1>1, <2>1, SelectedIs
  <2> QED
    BY <2>2, <2>3 DEF Version, SvInv, SelectedOnce
<1>5. \A p, k : k \in Packages(p) <=> IsChosen(projects, p, k)
  BY DEF Packages, IsChosen, ToSet
<1> QED
  BY <1>3, <1>4, <1>5

\* What is selected when the heap is empty is a solution.
LEMMA SolutionSoundHolds ==
  ASSUME SvInv
  PROVE  SolutionSound
<1> SUFFICES ASSUME phase = "solved"
             PROVE  IsSolution([p \in Chosen |-> Version(p)], [p \in Chosen |-> Packages(p)])
  BY DEF SolutionSound
<1> DEFINE version == [p \in Chosen |-> Version(p)]
           packages == [p \in Chosen |-> Packages(p)]
           imports == Imports(u) \cup UNION {Needs(version, packages, p) : p \in Chosen}
<1>1. projects # <<>> /\ projects \in Seq(Atom) /\ 1 \in DOMAIN projects
  BY DEF SvInv, SvTypes, Rooted
<1>2. /\ \A p \in Chosen : p \in Proj /\ \E i \in DOMAIN projects : i # 1 /\ projects[i].p = p
      /\ \A i \in DOMAIN projects : i # 1 => projects[i].p \in Chosen
                                      /\ Version(projects[i].p) = projects[i].v
      /\ \A p, k : k \in Packages(p) <=> IsChosen(projects, p, k)
  BY <1>1, ChosenAre
<1>3. /\ DOMAIN version = Chosen /\ DOMAIN packages = Chosen
      /\ \A i \in DOMAIN projects : i # 1 => version[projects[i].p] = projects[i].v
      /\ \A p \in Chosen : \A k : k \in packages[p] <=> IsChosen(projects, p, k)
  BY <1>2
<1> HIDE DEF version, packages
<1>4. ASSUME NEW p \in Chosen, NEW k \in packages[p]
      PROVE  \E i \in DOMAIN projects : i # 1 /\ projects[i].p = p /\ k \in projects[i].pl
                                          /\ projects[i].v = version[p]
  <2>1. PICK i \in DOMAIN projects : projects[i].p = p /\ k \in projects[i].pl
    BY <1>3 DEF IsChosen
  <2>2. i # 1
    BY <1>1, <2>1 DEF SvInv, Rooted, RootAtom
  <2> QED
    BY <1>3, <2>1, <2>2
<1>5. ASSUME NEW p \in Chosen, NEW i \in Needs(version, packages, p)
      PROVE  \E j \in DOMAIN projects : \E d \in ImportedAt(u, projects, j) :
               /\ d.on = i[1] /\ i[2] \in d.pl /\ d.on \in Proj
               /\ d.c = Rule(u, p, version[p], d.on)
  <2>1. PICK k \in packages[p] : i \in External(u, p, version[p], k)
    BY DEF Needs
  <2>2. PICK j \in DOMAIN projects : j # 1 /\ projects[j].p = p /\ k \in projects[j].pl
                                      /\ projects[j].v = version[p]
    BY <1>4
  <2> QED
    BY <2>1, <2>2, SelectionImports
<1>6. ASSUME NEW p \in Proj, NEW k, IsChosen(projects, p, k) PROVE p \in Chosen /\ k \in packages[p]
  <2>1. PICK i \in DOMAIN projects : projects[i].p = p /\ k \in projects[i].pl
    BY <1>6 DEF IsChosen
  <2>2. i # 1
    BY <1>1, <2>1, SolverConstants DEF SvInv, Rooted, RootAtom
  <2>3. p \in Chosen
    BY <1>2, <2>1, <2>2
  <2> QED
    BY <1>3, <1>6, <2>3
<1>7. ASSUME NEW i \in imports PROVE i[1] \in Chosen /\ i[2] \in packages[i[1]]
  <2>1. \E j \in DOMAIN projects : \E d \in ImportedAt(u, projects, j) :
          d.on = i[1] /\ i[2] \in d.pl /\ d.on \in Proj
    <3>1. CASE i \in Imports(u)
      BY <1>1, <3>1, RootSelectionImports
    <3>2. CASE i \notin Imports(u)
      <4>1. PICK p \in Chosen : i \in Needs(version, packages, p)
        BY <3>2
      <4> QED
        BY <1>5, <4>1
    <3> QED
      BY <3>1, <3>2
  <2>a. PICK j \in DOMAIN projects : \E d \in ImportedAt(u, projects, j) :
          d.on = i[1] /\ i[2] \in d.pl /\ d.on \in Proj
    BY <2>1
  <2>2. PICK d \in ImportedAt(u, projects, j) : d.on = i[1] /\ i[2] \in d.pl /\ d.on \in Proj
    BY <2>a
  <2>3. IsChosen(projects, d.on, i[2])
    BY <2>2, DependencyMet
  <2> QED
    BY <1>6, <2>2, <2>3
<1>8. ASSUME NEW p \in Chosen, NEW k \in packages[p]
      PROVE  k \in Reachable(p, version[p]) /\ Internal(u, p, version[p], k) \subseteq packages[p]
  <2>1. PICK i \in DOMAIN projects : i # 1 /\ projects[i].p = p /\ k \in projects[i].pl
                                      /\ projects[i].v = version[p]
    BY <1>4
  <2>2. k \in Tree(u, p, version[p])
        /\ Internal(u, p, version[p], k) \subseteq Tree(u, p, version[p]) \cap projects[i].pl
    BY <2>1 DEF SvInv, Analysed
  <2>3. \A l \in projects[i].pl : l \in packages[p]
    BY <1>3, <2>1 DEF IsChosen
  <2> QED
    BY <2>2, <2>3 DEF Reachable
<1>9. ASSUME NEW p \in Chosen, NEW j \in DOMAIN projects, NEW d \in ImportedAt(u, projects, j),
             d.on = p, NEW k \in d.pl
      PROVE  version[p] \in d.c
  <2>1. PICK i \in DOMAIN projects : i # 1 /\ projects[i].p = p
    BY <1>2
  <2>2. p \in Proj
    BY <1>2
  <2> QED
    BY <1>3, <1>9, <2>1, <2>2, DependencyMet
<1>10. ASSUME NEW p \in Chosen, NEW i \in Imports(u), i[1] = p PROVE version[p] \in RootRule(u, p)
  <2>1. PICK d \in ImportedAt(u, projects, 1) : d.on = i[1] /\ i[2] \in d.pl /\ d.c = RootRule(u, d.on)
    BY RootSelectionImports
  <2> QED
    BY <1>1, <1>9, <1>10, <2>1
<1>11. ASSUME NEW p \in Chosen, NEW p2 \in Chosen, NEW i \in Needs(version, packages, p2), i[1] = p
       PROVE  version[p] \in Rule(u, p2, version[p2], p)
  <2>a. PICK j \in DOMAIN projects : \E d \in ImportedAt(u, projects, j) :
          d.on = i[1] /\ i[2] \in d.pl /\ d.c = Rule(u, p2, version[p2], d.on)
    BY <1>5
  <2>1. PICK d \in ImportedAt(u, projects, j) :
          d.on = i[1] /\ i[2] \in d.pl /\ d.c = Rule(u, p2, version[p2], d.on)
    BY <2>a
  <2> QED
    BY <1>9, <1>11, <2>1
<1>12. IsSolution(version, packages)
  BY <1>3, <1>7, <1>8, <1>10, <1>11 DEF IsSolution
<1> QED
  BY <1>12 DEF version, packages

-----------------------------------------------------------------------------
(* Solver: LockKept.                                                        *)

Plans == UNION {[chosen -> SUBSET Pkg] : chosen \in SUBSET Proj}

\* The lock of the universe x is a solution with these packages, and nothing is to change.
Locks(x, packages) ==
  /\ Changing(x) = {} /\ Gone(x) = {}
  /\ \A i \in Imports(x) :
       i[1] \in DOMAIN packages /\ i[2] \in packages[i[1]] /\ Lock(x, i[1]) \in RootRule(x, i[1])
  /\ \A p \in DOMAIN packages :
       /\ Lock(x, p) # None
       /\ \A k \in packages[p] :
            /\ k \in Tree(x, p, Lock(x, p))
            /\ Internal(x, p, Lock(x, p), k) \subseteq Tree(x, p, Lock(x, p)) \cap packages[p]
            /\ \A i \in External(x, p, Lock(x, p), k) :
                 /\ i[1] \in DOMAIN packages /\ i[2] \in packages[i[1]]
                 /\ Lock(x, i[1]) \in Rule(x, p, Lock(x, p), i[1])

\* All that is selected, awaited or tried is of that solution.
Planned(packages, p, pl) == p \in DOMAIN packages /\ pl \subseteq packages[p]
Within(packages) ==
  /\ phase \in {"start", "loop", "search", "solved", "cancelled"}
  /\ \A i \in DOMAIN projects : i # 1 =>
       Planned(packages, projects[i].p, projects[i].pl) /\ projects[i].v = Lock(u, projects[i].p)
  /\ \A b \in ToSet(unsel) : Planned(packages, b.p, b.pl)
  /\ phase = "search" => Planned(packages, q.p, goal) /\ Head(q.pi) = Lock(u, q.p)

LockFollowed == \A packages \in Plans : Locks(u, packages) => Within(packages)

\* A dependency on a project of the solution, with what it wants of it.
Admitted(x, packages, d) ==
  Planned(packages, d.on, d.pl) /\ d.on \in Proj /\ Lock(x, d.on) \in d.c /\ Lock(x, d.on) \in Ver

\* The packages of a plan.
LEMMA PlansAre ==
  ASSUME NEW packages \in Plans
  PROVE  DOMAIN packages \subseteq Proj /\ \A p \in DOMAIN packages : packages[p] \subseteq Pkg
BY DEF Plans

\* Its projects are locked at a version.
LEMMA LockedVersions ==
  ASSUME NEW x \in Universe, NEW packages \in Plans, Locks(x, packages), NEW p \in DOMAIN packages
  PROVE  p \in Proj /\ Lock(x, p) \in Ver
BY PlansAre, UniverseAssumption DEF Locks

\* The lock meets what the root imports.
LEMMA RootAdmitted ==
  ASSUME u \in Universe, NEW packages \in Plans, Locks(u, packages),
         NEW d \in DependenciesOf(Root, None, Imports(u))
  PROVE  Admitted(u, packages, d)
<1>1. PICK i \in Imports(u) :
        d = [on |-> i[1], by |-> Root, v |-> None, c |-> RuleOf(Root, None, i[1]),
             pl |-> {k \in Pkg : <<i[1], k>> \in Imports(u)}]
  BY DEF DependenciesOf
<1>2. d.on = i[1] /\ d.c = RootRule(u, i[1]) /\ d.pl = {k \in Pkg : <<i[1], k>> \in Imports(u)}
  BY <1>1 DEF RuleOf
<1>3. \A k \in d.pl : k \in packages[d.on]
  <2>1. ASSUME NEW k \in d.pl PROVE k \in packages[d.on]
    <3>1. <<d.on, k>> \in Imports(u)
      BY <1>2
    <3> QED
      BY <3>1 DEF Locks
  <2> QED
    BY <2>1
<1>4. d.on \in DOMAIN packages /\ Lock(u, d.on) \in d.c
  BY <1>2 DEF Locks
<1> QED
  BY <1>3, <1>4, LockedVersions DEF Admitted, Planned

\* It meets what its own projects import.
LEMMA SelectionAdmitted ==
  ASSUME u \in Universe, NEW packages \in Plans, Locks(u, packages),
         NEW p, NEW pl, Planned(packages, p, pl), NEW d \in DepsOf(p, Lock(u, p), pl)
  PROVE  Admitted(u, packages, d)
<1> DEFINE imports == UNION {External(u, p, Lock(u, p), k) : k \in pl}
<1>1. PICK i \in imports :
        d = [on |-> i[1], by |-> p, v |-> Lock(u, p), c |-> RuleOf(p, Lock(u, p), i[1]),
             pl |-> {k \in Pkg : <<i[1], k>> \in imports}]
  BY DEF DependenciesOf, DepsOf
<1>2. p \in DOMAIN packages /\ pl \subseteq packages[p] /\ p \in Proj /\ p # Root
  BY LockedVersions, SolverConstants DEF Planned
<1>3. d.on = i[1] /\ d.c = Rule(u, p, Lock(u, p), i[1]) /\ d.pl = {k \in Pkg : <<i[1], k>> \in imports}
  BY <1>1, <1>2 DEF RuleOf
<1>4. \A j \in imports : /\ j[1] \in DOMAIN packages /\ j[2] \in packages[j[1]]
                         /\ Lock(u, j[1]) \in Rule(u, p, Lock(u, p), j[1])
  BY <1>2 DEF Locks
<1> HIDE DEF imports
<1>5. \A k \in d.pl : k \in packages[d.on]
  <2>1. ASSUME NEW k \in d.pl PROVE k \in packages[d.on]
    <3>1. <<d.on, k>> \in imports
      BY <1>3
    <3> QED
      BY <1>4, <3>1
  <2> QED
    BY <2>1
<1>6. d.on \in DOMAIN packages /\ Lock(u, d.on) \in d.c
  BY <1>3, <1>4
<1> QED
  BY <1>5, <1>6, LockedVersions DEF Admitted, Planned

\* So every edge on a project admits its locked version and wants packages of the solution.
LEMMA EdgesAdmitted ==
  ASSUME SvInv, NEW packages \in Plans, Locks(u, packages), Within(packages),
         NEW p \in Proj, NEW j \in DOMAIN deps[p]
  PROVE  Planned(packages, p, deps[p][j].pl) /\ Lock(u, p) \in deps[p][j].c /\ Lock(u, p) \in Ver
<1>1. u \in Universe
  BY DEF SvInv, SvTypes
<1>2. PICK i \in DOMAIN projects : \E d \in ImportedAt(u, projects, i) : d.on = p /\ deps[p][j] = Edge(d)
  BY EdgesAre
<1>3. PICK d \in ImportedAt(u, projects, i) : d.on = p /\ deps[p][j] = Edge(d)
  BY <1>2
<1>4. Edge(d).pl = d.pl /\ Edge(d).c = d.c
  BY DEF Edge
<1>5. ImportedAt(u, projects, i) = IF i = 1 THEN DependenciesOf(Root, None, Imports(u))
                                   ELSE DepsOf(projects[i].p, projects[i].v, projects[i].pl)
  BY ImportedAtIs
<1>6. CASE i = 1
  BY <1>1, <1>3, <1>4, <1>5, <1>6, RootAdmitted DEF Admitted
<1>7. CASE i # 1
  <2>1. Planned(packages, projects[i].p, projects[i].pl) /\ projects[i].v = Lock(u, projects[i].p)
    BY <1>7 DEF Within
  <2>2. d \in DepsOf(projects[i].p, Lock(u, projects[i].p), projects[i].pl)
    BY <1>5, <1>7, <2>1
  <2>3. Admitted(u, packages, d)
    BY <1>1, <2>1, <2>2, SelectionAdmitted
  <2> QED
    BY <1>3, <1>4, <2>3 DEF Admitted
<1> QED
  BY <1>6, <1>7

\* So the locked version of a project of the solution is acceptable.
LEMMA LockAcceptable ==
  ASSUME SvInv, NEW packages \in Plans, Locks(u, packages), Within(packages),
         NEW p, NEW pl, Planned(packages, p, pl), NEW pkgonly \in BOOLEAN
  PROVE  Failures(p, Lock(u, p), pl, pkgonly) = {}
<1> DEFINE v == Lock(u, p)
<1>1. u \in Universe /\ projects \in Seq(Atom)
  BY DEF SvInv, SvTypes
<1>2. p \in Proj /\ v \in Ver /\ p \in DOMAIN packages /\ pl \subseteq packages[p]
  BY <1>1, LockedVersions DEF Planned
<1>3. \A o \in DOMAIN packages : packages[o] \subseteq Tree(u, o, Lock(u, o))
  BY DEF Locks
<1>4. pl \subseteq Reachable(p, v)
  BY <1>2 DEF Locks, Reachable
<1>5. \A d \in DepsOf(p, v, pl) : Admitted(u, packages, d)
  BY <1>1, SelectionAdmitted
<1> HIDE DEF v
<1>6. CheckAtomAllowable(p, v) = {}
  <2>1. v \in Constraint(p)
    BY <1>2, EdgesAdmitted DEF Constraint, v
  <2> QED
    BY <2>1 DEF CheckAtomAllowable
<1>7. CheckRequiredPackagesExist(p, v) = {}
  <2>1. ASSUME NEW d \in Deppers(p) PROVE d.pl \subseteq Tree(u, p, v)
    <3>1. PICK j \in DOMAIN deps[p] : d = deps[p][j]
      BY DEF Deppers
    <3>2. d.pl \subseteq packages[p]
      BY <1>2, <3>1, EdgesAdmitted DEF Planned
    <3> QED
      BY <1>2, <1>3, <3>2 DEF v
  <2> QED
    BY <2>1 DEF CheckRequiredPackagesExist
<1>8. ASSUME NEW d \in DepsOf(p, v, pl) PROVE DepFailure(d) = {}
  <2>1. d.on \in Proj /\ Lock(u, d.on) \in d.c /\ Lock(u, d.on) \in Ver
        /\ d.on \in DOMAIN packages /\ d.pl \subseteq packages[d.on]
    BY <1>5 DEF Admitted, Planned
  <2>2. CheckDepsConstraintsAllowable(d) = {}
    <3>1. Lock(u, d.on) \in Constraint(d.on)
      BY <2>1, EdgesAdmitted DEF Constraint
    <3> QED
      BY <2>1, <3>1 DEF CheckDepsConstraintsAllowable
  <2>3. IsSelected(projects, d.on) => Selected(projects, d.on) = Lock(u, d.on)
    <3> SUFFICES ASSUME IsSelected(projects, d.on) PROVE Selected(projects, d.on) = Lock(u, d.on)
      OBVIOUS
    <3>1. PICK i \in DOMAIN projects : projects[i].p = d.on /\ Selected(projects, d.on) = projects[i].v
      BY <1>1, SelectedIs
    <3>2. i # 1
      <4>1. projects # <<>>
        BY <1>1, <3>1
      <4> QED
        BY <2>1, <3>1, <4>1, SolverConstants DEF SvInv, Rooted, RootAtom
    <3> QED
      BY <3>1, <3>2 DEF Within
  <2>4. CheckDepsDisallowsSelected(d) = {}
    BY <2>1, <2>3 DEF CheckDepsDisallowsSelected
  <2>5. CheckPackageImportsFromDepExist(d) = {}
    BY <1>3, <2>1, <2>3 DEF CheckPackageImportsFromDepExist
  <2> QED
    BY <2>2, <2>4, <2>5 DEF DepFailure, OrElse
<1>9. UNION {DepFailure(d) : d \in DepsOf(p, v, pl)} = {}
  BY <1>8
<1>10. Analyzable(p, v, pl)
  BY <1>4 DEF Analyzable
<1>11. Failures(p, v, pl, pkgonly) = {}
  BY <1>6, <1>7, <1>9, <1>10 DEF Failures, OrElse
<1> QED
  BY <1>11 DEF v

\* A selection of the solution's lets only packages of the solution into the heap.
LEMMA EntriesPlanned ==
  ASSUME NEW packages \in Plans, NEW fromRoot \in BOOLEAN, NEW ds,
         \A d \in ds : Admitted(u, packages, d), NEW b \in NewEntries(fromRoot, ds)
  PROVE  Planned(packages, b.p, b.pl)
<1>1. PICK d \in ds : b = Unselected(fromRoot, d)
  BY DEF NewEntries
<1>2. b.p = d.on /\ b.pl \subseteq d.pl
  BY <1>1 DEF Unselected, Introduced
<1> QED
  BY <1>2 DEF Admitted, Planned

\* selectRoot stays within the solution.
LEMMA SelectRootWithin ==
  ASSUME SvInv, SelectRoot, NEW packages \in Plans, Locks(u, packages), Within(packages)
  PROVE  Within(packages)'
<1> DEFINE ds == DependenciesOf(Root, None, Imports(u))
<1>1. /\ u \in Universe /\ deps \in [Proj -> Seq(Dependency)]
      /\ projects = <<>> /\ unsel = <<>> /\ unsel \in Seq(Entry)
  BY DEF SvInv, SvTypes, Rooted, SelectRoot
<1>2. /\ phase' = "loop" /\ u' = u /\ projects' = Append(projects, RootAtom)
      /\ PushDeps(projects', TRUE, unsel, ds)
  <2>1. projects' = Append(projects, RootAtom)
    BY <1>1 DEF SelectRoot, RootAtom
  <2> QED
    BY <2>1 DEF SelectRoot
<1>3. AreDependencies(ds, Root, None) /\ \A d \in ds : Admitted(u, packages, d)
  BY <1>1, RootImports, RootAdmitted
<1> HIDE DEF ds
<1>4. Pushed(RootAtom, ds, unsel, NewEntries(TRUE, ds))
  <2>1. PICK sel : sel = projects'
    OBVIOUS
  <2>2. PushDeps(sel, TRUE, unsel, ds)
    BY <1>2, <2>1, Zenon
  <2> QED
    BY <1>1, <1>2, <1>3, <2>2, PushDepsEffect
<1>5. \A b \in ToSet(unsel') : b \in NewEntries(TRUE, ds)
  <2>1. ToSet(unsel) = {}
    BY <1>1 DEF ToSet
  <2> QED
    BY <1>4, <2>1 DEF Pushed
<1>6. \A b \in ToSet(unsel') : Planned(packages, b.p, b.pl)
  <2>1. \A b \in NewEntries(TRUE, ds) : Planned(packages, b.p, b.pl)
    <3>1. PICK t \in BOOLEAN : t = TRUE
      OBVIOUS
    <3>2. \A b \in NewEntries(t, ds) : Planned(packages, b.p, b.pl)
      BY <1>3, EntriesPlanned
    <3> QED
      BY <3>1, <3>2, Zenon
  <2> QED
    BY <1>5, <2>1
<1>7. DOMAIN projects' = {1}
  BY <1>1, <1>2
<1> QED
  BY <1>2, <1>6, <1>7 DEF Within

\* The same for an atom with its locked version.
LEMMA SelectAtomWithin ==
  ASSUME SvInv, u' = u, NEW packages \in Plans, Locks(u, packages), Within(packages),
         NEW p, NEW pl, Planned(packages, p, pl), NEW pkgonly \in BOOLEAN,
         SelectAtom(p, Lock(u, p), pl, pkgonly)
  PROVE  /\ \A i \in DOMAIN projects' : i # 1 =>
              Planned(packages, projects'[i].p, projects'[i].pl)
              /\ projects'[i].v = Lock(u, projects'[i].p)
         /\ \A b \in ToSet(unsel') : Planned(packages, b.p, b.pl)
<1> DEFINE v == Lock(u, p)
           ds == DepsOf(p, v, pl)
           h == Removed(unsel, p, pl)
           a == [p |-> p, v |-> v, pl |-> WithInternal(p, v, pl), first |-> ~pkgonly]
           n == Len(projects)
<1>1. /\ u \in Universe /\ deps \in [Proj -> Seq(Dependency)]
      /\ projects \in Seq(Atom) /\ unsel \in Seq(Entry)
  BY DEF SvInv, SvTypes
<1>2. p \in Proj /\ v \in Ver /\ p \in DOMAIN packages /\ pl \in SUBSET Pkg /\ pl \subseteq packages[p]
  BY <1>1, LockedVersions, PlansAre DEF Planned
<1>3. WithInternal(p, v, pl) \subseteq packages[p] /\ WithInternal(p, v, pl) \in SUBSET Pkg
  BY <1>2, PlansAre DEF Locks, WithInternal
<1>4. AreDependencies(ds, p, v) /\ \A d \in ds : Admitted(u, packages, d)
  BY <1>1, <1>2, PackagesImport, SelectionAdmitted
<1>5. h \in Seq(Entry) /\ ToSet(h) \subseteq ToSet(unsel)
  BY <1>1, RemovedEffect DEF Spares
<1>6. projects' = Append(projects, a) /\ PushDeps(projects', FALSE, h, ds)
  BY DEF SelectAtom
<1>7. a \in Atom /\ a.p = p /\ a.v = v /\ a.pl = WithInternal(p, v, pl)
  BY <1>2, <1>3 DEF Atom
<1> HIDE DEF v, ds, h, a, n
<1>8. Pushed(a, ds, h, NewEntries(FALSE, ds))
  <2>1. PICK sel : sel = projects'
    OBVIOUS
  <2>2. PushDeps(sel, FALSE, h, ds)
    BY <1>6, <2>1
  <2> QED
    BY <1>1, <1>2, <1>4, <1>5, <1>6, <2>2, PushDepsEffect
<1>9. \A b \in NewEntries(FALSE, ds) : Planned(packages, b.p, b.pl)
  <2>1. PICK t \in BOOLEAN : t = FALSE
    OBVIOUS
  <2>2. \A b \in NewEntries(t, ds) : Planned(packages, b.p, b.pl)
    BY <1>4, EntriesPlanned
  <2> QED
    BY <2>1, <2>2, Zenon
<1>10. \A b \in ToSet(unsel') : Planned(packages, b.p, b.pl)
  <2>1. ToSet(unsel') \subseteq ToSet(unsel) \cup NewEntries(FALSE, ds)
    BY <1>5, <1>8 DEF Pushed
  <2> QED
    BY <1>9, <2>1 DEF Within
<1>11. n \in Nat /\ DOMAIN projects = 1..n /\ DOMAIN projects' = 1..(n + 1)
       /\ projects'[n + 1] = a /\ \A i \in 1..n : projects'[i] = projects[i]
  BY <1>1, <1>6, <1>7, AppendEffect DEF n
<1>12. ASSUME NEW i \in 1..(n + 1), i # 1
       PROVE  Planned(packages, projects'[i].p, projects'[i].pl)
              /\ projects'[i].v = Lock(u, projects'[i].p)
  <2>1. CASE i = n + 1
    BY <1>2, <1>3, <1>7, <1>11, <2>1 DEF Planned, v
  <2>2. CASE i # n + 1
    <3>1. i \in 1..n /\ projects'[i] = projects[i]
      BY <1>11, <2>2
    <3> QED
      BY <1>11, <1>12, <3>1 DEF Within
  <2> QED
    BY <2>1, <2>2
<1> QED
  BY <1>10, <1>11, <1>12

\* So does a version that is good: it is the locked one.
LEMMA TryGoodWithin ==
  ASSUME SvInv, TryGood, NEW packages \in Plans, Locks(u, packages), Within(packages)
  PROVE  Within(packages)'
<1>1. /\ phase = "search" /\ phase' = "loop" /\ u' = u
      /\ SelectAtom(q.p, Head(q.pi), goal, FALSE)
  BY DEF TryGood
<1>2. Planned(packages, q.p, goal) /\ Head(q.pi) = Lock(u, q.p)
  BY <1>1 DEF Within
<1>3. PICK t \in BOOLEAN : t = FALSE
  OBVIOUS
<1>4. SelectAtom(q.p, Lock(u, q.p), goal, t)
  BY <1>1, <1>2, <1>3, Zenon
<1>5. /\ \A i \in DOMAIN projects' : i # 1 =>
           Planned(packages, projects'[i].p, projects'[i].pl)
           /\ projects'[i].v = Lock(u, projects'[i].p)
      /\ \A b \in ToSet(unsel') : Planned(packages, b.p, b.pl)
  BY <1>1, <1>2, <1>4, SelectAtomWithin
<1> QED
  BY <1>1, <1>5 DEF Within

\* So do more packages of a selected project; they are never refused.
LEMMA AddPackagesWithin ==
  ASSUME SvInv, AddPackages, NEW packages \in Plans, Locks(u, packages), Within(packages)
  PROVE  Within(packages)'
<1> DEFINE p == unsel[1].p
           pl == unsel[1].pl
           v == Selected(projects, p)
<1>1. /\ phase = "loop" /\ u' = u /\ q' = q /\ goal' = goal /\ unsel # <<>> /\ IsSelected(projects, p)
      /\ \/ SelectAtom(p, v, pl, TRUE) /\ phase' = phase
         \/ Failures(p, v, pl, TRUE) # {}
  BY DEF AddPackages
<1>2. projects \in Seq(Atom) /\ unsel \in Seq(Entry) /\ u \in Universe
  BY DEF SvInv, SvTypes
<1>3. unsel[1] \in ToSet(unsel)
  BY <1>1, <1>2 DEF ToSet
<1>4. Planned(packages, p, pl)
  BY <1>3 DEF Within
<1>5. p \in Proj
  BY <1>2, <1>4, LockedVersions DEF Planned
<1> HIDE DEF p, pl
<1>6. v = Lock(u, p)
  <2>1. PICK i \in DOMAIN projects : projects[i].p = p /\ v = projects[i].v
    BY <1>1, <1>2, SelectedIs
  <2>2. i # 1
    <3>1. projects # <<>>
      BY <1>2, <2>1
    <3> QED
      BY <1>5, <2>1, <3>1, SolverConstants DEF SvInv, Rooted, RootAtom
  <2> QED
    BY <2>1, <2>2 DEF Within
<1> HIDE DEF v
<1>7. PICK t \in BOOLEAN : t = TRUE
  OBVIOUS
<1>8. Failures(p, v, pl, t) = {}
  BY <1>4, <1>6, LockAcceptable
<1>9. Failures(p, v, pl, TRUE) = {}
  BY <1>7, <1>8, Zenon
<1>10. SelectAtom(p, v, pl, TRUE) /\ phase' = phase
  BY <1>1, <1>9, Zenon
<1>11. SelectAtom(p, Lock(u, p), pl, t)
  BY <1>6, <1>7, <1>10, Zenon
<1>12. /\ \A i \in DOMAIN projects' : i # 1 =>
            Planned(packages, projects'[i].p, projects'[i].pl)
            /\ projects'[i].v = Lock(u, projects'[i].p)
       /\ \A b \in ToSet(unsel') : Planned(packages, b.p, b.pl)
  BY <1>1, <1>4, <1>11, SelectAtomWithin
<1> QED
  BY <1>1, <1>10, <1>12 DEF Within

\* The locked version is the first of the queue that is made.
LEMMA CreateVersionQueueWithin ==
  ASSUME SvInv, CreateVersionQueue, NEW packages \in Plans, Locks(u, packages), Within(packages)
  PROVE  Within(packages)'
<1> DEFINE bmi == unsel[1]
           prefv == PreferredVersion(bmi)
<1>1. /\ phase = "loop" /\ unsel # <<>> /\ UNCHANGED <<u, projects, unsel>>
      /\ \/ bmi.p \in Gone(u)
         \/ /\ q' = NewVersionQueue(bmi.p, LockVersion(bmi.p), prefv)
            /\ goal' = bmi.pl /\ phase' = "search"
  BY DEF CreateVersionQueue
<1>2. bmi \in ToSet(unsel)
  BY <1>1 DEF SvInv, SvTypes, ToSet
<1>3. Planned(packages, bmi.p, bmi.pl)
  BY <1>2 DEF Within
<1> HIDE DEF bmi, prefv
<1>4. LockVersion(bmi.p) = Lock(u, bmi.p) /\ Lock(u, bmi.p) # None /\ bmi.p \notin Gone(u)
  BY <1>3 DEF LockVersion, Locks, Planned
<1> DEFINE new == NewVersionQueue(bmi.p, Lock(u, bmi.p), prefv)
<1>5. new.p = bmi.p /\ Head(new.pi) = Lock(u, bmi.p)
  <2> DEFINE l == Lock(u, bmi.p)
             rest == IF prefv = None THEN <<>> ELSE <<prefv>>
  <2> HIDE DEF l, rest
  <2>1. rest = <<>> \/ rest = <<prefv>>
    BY DEF rest
  <2>2. <<l>> \o rest # <<>> /\ Head(<<l>> \o rest) = l
    BY <2>1
  <2>3. new.p = bmi.p /\ new.pi = <<l>> \o rest
    BY <1>4, <2>2 DEF NewVersionQueue, l, rest
  <2> QED
    BY <2>2, <2>3 DEF l
<1>6. q' = new /\ goal' = bmi.pl /\ phase' = "search"
  BY <1>1, <1>4
<1> HIDE DEF new
<1> QED
  BY <1>1, <1>3, <1>5, <1>6 DEF Within

\* No version of the solution is bad.
LEMMA TryBadWithin ==
  ASSUME SvInv, TryBad, NEW packages \in Plans, Locks(u, packages), Within(packages)
  PROVE  FALSE
<1>1. phase = "search" /\ Failures(q.p, Head(q.pi), goal, FALSE) # {}
  BY DEF TryBad
<1>2. Planned(packages, q.p, goal) /\ Head(q.pi) = Lock(u, q.p)
  BY <1>1 DEF Within
<1>3. PICK t \in BOOLEAN : t = FALSE
  OBVIOUS
<1>4. Failures(q.p, Lock(u, q.p), goal, t) = {}
  BY <1>2, LockAcceptable
<1> QED
  BY <1>1, <1>2, <1>3, <1>4, Zenon

\* Nothing is selected initially.
LEMMA LockFollowedInit ==
  ASSUME SolverInit
  PROVE  LockFollowed
<1>1. phase = "start" /\ projects = <<>> /\ unsel = <<>>
  BY DEF SolverInit
<1>2. DOMAIN projects = {} /\ ToSet(unsel) = {}
  BY <1>1 DEF ToSet
<1> QED
  BY <1>1, <1>2 DEF LockFollowed, Within

\* Every step stays within every solution the lock is.
LEMMA LockFollowedKept ==
  ASSUME SvInv, LockFollowed, [SolverNext]_sVars
  PROVE  LockFollowed'
<1>1. u' = u
  BY DEF sVars, SolverNext, SelectRoot, Solved, CreateVersionQueue, TryGood, TryBad, AddPackages,
         Backtrack, UnselectLast, Cancel
<1>2. ASSUME NEW packages \in Plans, Locks(u, packages) PROVE Within(packages)'
  <2>1. Within(packages)
    BY <1>2 DEF LockFollowed
  <2>2. phase \in {"start", "loop", "search", "solved", "cancelled"}
    BY <2>1 DEF Within
  <2>3. CASE SelectRoot
    BY <1>2, <2>1, <2>3, SelectRootWithin
  <2>4. CASE Solved
    BY <2>1, <2>4 DEF Solved, Within
  <2>5. CASE CreateVersionQueue
    BY <1>2, <2>1, <2>5, CreateVersionQueueWithin
  <2>6. CASE TryGood
    BY <1>2, <2>1, <2>6, TryGoodWithin
  <2>7. CASE TryBad
    BY <1>2, <2>1, <2>7, TryBadWithin
  <2>8. CASE AddPackages
    BY <1>2, <2>1, <2>8, AddPackagesWithin
  <2>9. CASE Backtrack
    BY <2>2, <2>9 DEF Backtrack
  <2>10. CASE UnselectLast
    BY <2>2, <2>10 DEF UnselectLast
  <2>11. CASE Cancel
    BY <2>1, <2>11 DEF Cancel, Within
  <2>12. CASE UNCHANGED sVars
    BY <2>1, <2>12 DEF sVars, Within
  <2> QED
    BY <2>3, <2>4, <2>5, <2>6, <2>7, <2>8, <2>9, <2>10, <2>11, <2>12 DEF SolverNext
<1> QED
  BY <1>1, <1>2 DEF LockFollowed

\* When the lock is a solution there is a plan of it.
LEMMA LockSolvesIs ==
  ASSUME u \in Universe, Changing(u) = {}, Gone(u) = {}, LockSolves
  PROVE  \E packages \in Plans : Locks(u, packages)
<1>1. PICK chosen \in SUBSET {p \in Proj : Lock(u, p) # None} :
        \E packages \in [chosen -> SUBSET Pkg] : IsSolution([p \in chosen |-> Lock(u, p)], packages)
  BY DEF LockSolves
<1>2. PICK packages \in [chosen -> SUBSET Pkg] : IsSolution([p \in chosen |-> Lock(u, p)], packages)
  BY <1>1
<1>3. packages \in Plans /\ DOMAIN packages = chosen
  BY <1>2 DEF Plans
<1> DEFINE version == [p \in chosen |-> Lock(u, p)]
           imports == Imports(u) \cup UNION {Needs(version, packages, p) : p \in chosen}
<1>4. DOMAIN version = chosen /\ \A p \in chosen : version[p] = Lock(u, p)
  OBVIOUS
<1> HIDE DEF version
<1>5. /\ \A i \in imports : i[1] \in chosen /\ i[2] \in packages[i[1]]
      /\ \A p \in chosen :
           /\ packages[p] \subseteq Reachable(p, version[p])
           /\ \A k \in packages[p] : Internal(u, p, version[p], k) \subseteq packages[p]
           /\ (\E i \in Imports(u) : i[1] = p) => version[p] \in RootRule(u, p)
           /\ \A p2 \in chosen :
                (\E i \in Needs(version, packages, p2) : i[1] = p)
                  => version[p] \in Rule(u, p2, version[p2], p)
  BY <1>2, <1>4 DEF IsSolution, version
<1>6. ASSUME NEW i \in Imports(u)
      PROVE  i[1] \in chosen /\ i[2] \in packages[i[1]] /\ Lock(u, i[1]) \in RootRule(u, i[1])
  <2>1. i \in imports
    OBVIOUS
  <2> HIDE DEF imports
  <2> QED
    BY <1>4, <1>5, <2>1
<1>7. ASSUME NEW p \in chosen, NEW k \in packages[p], NEW i \in External(u, p, Lock(u, p), k)
      PROVE  /\ i[1] \in chosen /\ i[2] \in packages[i[1]]
             /\ Lock(u, i[1]) \in Rule(u, p, Lock(u, p), i[1])
  <2>1. i \in Needs(version, packages, p)
    BY <1>4 DEF Needs
  <2>2. i \in imports
    BY <2>1
  <2> HIDE DEF imports
  <2> QED
    BY <1>4, <1>5, <2>1, <2>2
<1>8. ASSUME NEW p \in chosen, NEW k \in packages[p]
      PROVE  /\ k \in Tree(u, p, Lock(u, p))
             /\ Internal(u, p, Lock(u, p), k) \subseteq Tree(u, p, Lock(u, p)) \cap packages[p]
  <2> HIDE DEF imports
  <2>1. k \in Reachable(p, Lock(u, p)) /\ Internal(u, p, Lock(u, p), k) \subseteq packages[p]
    BY <1>4, <1>5
  <2> QED
    BY <2>1 DEF Reachable
<1>9. Locks(u, packages)
  <2> HIDE DEF imports
  <2> QED
    BY <1>3, <1>6, <1>7, <1>8 DEF Locks
<1> QED
  BY <1>3, <1>9

\* So what is returned is the lock.
LEMMA LockKeptHolds ==
  ASSUME SvInv, LockFollowed
  PROVE  LockKept
<1> SUFFICES ASSUME phase \in {"solved", "unsolvable"}, Changing(u) = {}, Gone(u) = {}, LockSolves
             PROVE  phase = "solved" /\ \A p \in Chosen : Version(p) = Lock(u, p)
  BY DEF LockKept
<1>1. u \in Universe /\ projects # <<>>
  BY DEF SvInv, SvTypes, Rooted
<1>2. PICK packages \in Plans : Locks(u, packages)
  BY <1>1, LockSolvesIs
<1>3. Within(packages)
  BY <1>2 DEF LockFollowed
<1>4. phase = "solved"
  BY <1>3 DEF Within
<1>5. ASSUME NEW p \in Chosen PROVE Version(p) = Lock(u, p)
  <2>1. PICK i \in DOMAIN projects : i # 1 /\ projects[i].p = p /\ Version(p) = projects[i].v
    BY <1>1, ChosenAre
  <2> QED
    BY <1>3, <2>1 DEF Within
<1> QED
  BY <1>4, <1>5

\* What Solve returns is complete, consistent and satisfies every rule; and where the
\* lock is itself a solution, none of its projects is to change and all have a source,
\* Solve succeeds with the versions of the lock (solver.go, satisfy.go, version_queue.go).
THEOREM SolutionRightAlways == SolverSpec => []SolutionRight
<1>1. SolverInit => LockFollowed
  BY LockFollowedInit
<1>2. SvInv /\ LockFollowed /\ [SolverNext]_sVars => LockFollowed'
  BY LockFollowedKept
<1>3. SvInv /\ LockFollowed => SolutionRight
  BY SolutionSoundHolds, LockKeptHolds DEF SolutionRight
<1>4. SolverSpec => []LockFollowed
  BY <1>1, <1>2, SolverInvariant, PTL DEF SolverSpec
<1> QED
  BY <1>3, <1>4, SolverInvariant, PTL

-----------------------------------------------------------------------------
(* DeltaWriter.                                                             *)

Contents == {"none", "locked", "edited", "fresh"}

DwTypes ==
  /\ delta \in [Path -> {"same", "added", "removed", "prune", "solve", "absent"}]
  /\ tree \in [Path -> {"none", "locked", "edited"}]
  /\ behavior \in {"OnChanged", "Never"}
  /\ vendor \in [Path -> Contents]
  /\ scratch \in [Path -> Contents]
  /\ vgit \in {"none", "vendor", "scratch"}
  /\ lock \in {"old", "new", "partial"}
  /\ stage \in {"begin", "export", "never", "move", "stat", "preserve", "remove", "place",
                "ok", "err", "crashed"}

\* The stages that only a Write that may touch vendor reaches.
Swapping == {"move", "stat", "preserve", "remove", "place"}

\* What the trees hold until the swap is done: vendor has lost some of its own,
\* and the scratch directory has what was exported or carried over.
TreesHeld ==
  stage # "ok" =>
    /\ \A p \in Path : vendor[p] \in {"none", tree[p]}
    /\ \A p \in ToWrite : scratch[p] \in {"none", "fresh"}
    /\ \A p \in Path \ ToWrite : scratch[p] \in {"none", tree[p]}
    /\ \A p \in Path : scratch[p] # "none" => p \in ToWrite \cup ToMove \cup Preserved

\* How far the swap has come.
StagesReached ==
  /\ stage \in {"begin", "export"} => lock = "old"
  /\ stage \in {"begin", "export", "never"} =>
       /\ vendor = tree /\ vgit # "scratch"
       /\ \A p \in Path \ ToWrite : scratch[p] = "none"
  /\ stage = "never" => behavior = "Never"
  /\ stage \in Swapping => behavior = "OnChanged" /\ lock = "new"
  /\ stage \in {"stat", "preserve", "remove", "place"} => \A p \in ToMove : scratch[p] # "none"
  /\ stage \in {"remove", "place"} => (\A p \in Preserved : scratch[p] # "none") /\ vgit # "vendor"

\* The lock is written after the exports, which stay where they are.
ExportsFirst ==
  lock = "new" /\ behavior = "OnChanged" /\ stage # "ok" =>
    \A p \in ToWrite : scratch[p] = "fresh"

\* A tree that is kept is where it was or where it was carried to.
Kept == \A p \in ToMove \cup Preserved :
          tree[p] # "none" => tree[p] \in {vendor[p], scratch[p]}

DwInv ==
  /\ DwTypes /\ TreesHeld /\ StagesReached /\ ExportsFirst /\ Kept
  /\ SuccessInSync /\ LockVouches /\ NeverTouchesVendor

\* What Write does with a path depends only on its inputs.
LEMMA SetsFixed ==
  ASSUME UNCHANGED dwInputs
  PROVE  /\ ToWrite' = ToWrite /\ ToMove' = ToMove /\ Preserved' = Preserved
         /\ Dropped' = Dropped
         /\ \A p \in Path : NewLock(p)' = NewLock(p)
BY DEF dwInputs, ToWrite, ToMove, Preserved, Dropped, Changed, Change, StatusChange,
       DiffChange, Status, OldLock, NewLock, BelowNoVerify

\* A path is exported, or moved over, or preserved, or none of these.
LEMMA SetsDisjoint ==
  /\ ToWrite \subseteq Path /\ ToMove \subseteq Path /\ Preserved \subseteq Path
  /\ ToWrite \cap ToMove = {} /\ ToWrite \cap Preserved = {} /\ ToMove \cap Preserved = {}
BY DEF ToWrite, ToMove, Preserved, Changed

\* A path that is moved over is in step with both locks, and one that is left
\* behind is not in the new lock, unless noverify exempts it.
LEMMA LeftAndMoved ==
  ASSUME DwTypes, NEW p \in Path, p \notin noverify
  PROVE  /\ p \notin Preserved
         /\ p \in ToMove => NewLock(p) /\ delta[p] = "same" /\ tree[p] \in {"none", "locked"}
         /\ p \notin ToWrite \cup ToMove => ~ NewLock(p)
<1>1. Change(p) = StatusChange(p)
  BY DEF Change
<1>2. StatusChange(p) # "pathPreserved"
  BY DEF StatusChange, DiffChange
<1>3. ASSUME StatusChange(p) = "none", NewLock(p)
      PROVE  delta[p] = "same" /\ tree[p] \in {"none", "locked"}
  <2>1. delta[p] = "same"
    BY <1>3 DEF StatusChange, DiffChange, NewLock
  <2>2. OldLock(p) /\ DiffChange(p) = "none"
    BY <2>1 DEF OldLock, DiffChange
  <2>3. Status(p) \in {"NotInTree", "NoMismatch", "DigestMismatchInLock",
                       "HashVersionMismatch", "EmptyDigestInLock"}
    BY <2>2 DEF Status
  <2>4. Status(p) \in {"NotInTree", "NoMismatch"}
    BY <1>3, <2>2, <2>3 DEF StatusChange
  <2>5. QED
    BY <2>1, <2>2, <2>4 DEF Status, DwTypes
<1>4. StatusChange(p) = "projectRemoved" => ~ NewLock(p)
  <2>1. CASE DiffChange(p) # "none"
    BY <2>1 DEF StatusChange, DiffChange, NewLock
  <2>2. CASE DiffChange(p) = "none" /\ NewLock(p)
    <3>1. OldLock(p)
      BY <2>2 DEF DiffChange, NewLock, OldLock
    <3>2. Status(p) \notin {"NotInLock"}
      BY <3>1 DEF Status
    <3>3. QED
      BY <2>2, <3>2 DEF StatusChange
  <2>3. QED
    BY <2>1, <2>2
<1>5. QED
  BY <1>1, <1>2, <1>3, <1>4 DEF Preserved, ToMove, ToWrite, Changed, Dropped

\* The steps that change neither tree.
LEMMA DwQuietStep ==
  ASSUME DwInv, Begin \/ WriteLock \/ MoveDone \/ StatDropped \/ KeepGit \/ Killed
  PROVE  DwInv'
<1>1. UNCHANGED <<dwInputs, vendor, scratch>>
  BY DEF Begin, WriteLock, MoveDone, StatDropped, KeepGit, Killed
<1>2. /\ UNCHANGED <<delta, tree, behavior, noverify>>
      /\ ToWrite' = ToWrite /\ ToMove' = ToMove /\ Preserved' = Preserved
  BY <1>1, SetsFixed DEF dwInputs
<1>3. stage # "ok" /\ stage' # "ok"
  BY DEF Begin, WriteLock, MoveDone, StatDropped, KeepGit, Killed, Fails, Goto
<1>4. DwTypes'
  BY <1>1, <1>2 DEF DwInv, DwTypes, Begin, WriteLock, MoveDone, StatDropped, KeepGit, Killed,
                    Fails, Goto
<1>5. TreesHeld' /\ Kept' /\ SuccessInSync'
  BY <1>1, <1>2, <1>3 DEF DwInv, TreesHeld, Kept, SuccessInSync
<1>6. StagesReached'
  BY <1>1, <1>2 DEF DwInv, DwTypes, StagesReached, Swapping, Begin, WriteLock, MoveDone,
                    StatDropped, KeepGit, Killed, Fails, Goto
<1>7. lock' = "new" => \/ lock = "new"
                       \/ stage = "export" /\ \A p \in ToWrite : scratch[p] = "fresh"
  BY DEF Begin, WriteLock, MoveDone, StatDropped, KeepGit, Killed, Fails, Goto
<1>8. ExportsFirst' /\ LockVouches'
  BY <1>1, <1>2, <1>3, <1>7 DEF DwInv, DwTypes, ExportsFirst, LockVouches
<1>9. NeverTouchesVendor'
  BY <1>1, <1>2 DEF DwInv, NeverTouchesVendor, StagesReached, Swapping, Begin, WriteLock,
                    MoveDone, StatDropped, KeepGit, Killed
<1>10. QED
  BY <1>4, <1>5, <1>6, <1>8, <1>9 DEF DwInv

\* A project is exported to the scratch directory.
LEMMA DwExportStep ==
  ASSUME DwInv, NEW p \in Path, Export(p)
  PROVE  DwInv'
<1>1. /\ UNCHANGED <<dwInputs, vgit, vendor, exists, lock>>
      /\ stage = "export" /\ p \in ToWrite /\ lock = "old" /\ stage' \in {"export", "err"}
      /\ scratch' \in {scratch, [scratch EXCEPT ![p] = "fresh"]}
  BY DEF Export, DwInv, StagesReached, Fails, Goto
<1>2. /\ UNCHANGED <<delta, tree, behavior, noverify>>
      /\ ToWrite' = ToWrite /\ ToMove' = ToMove /\ Preserved' = Preserved
  BY <1>1, SetsFixed DEF dwInputs
<1>3. DwTypes'
  BY <1>1, <1>2 DEF DwInv, DwTypes, Contents
<1>4. \A o \in Path : \/ scratch'[o] = scratch[o]
                      \/ o = p /\ scratch'[o] = "fresh"
  BY <1>1 DEF DwInv, DwTypes
<1>5. TreesHeld'
  BY <1>1, <1>2, <1>4, SetsDisjoint DEF DwInv, TreesHeld
<1>6. StagesReached'
  BY <1>1, <1>2, <1>4 DEF DwInv, StagesReached, Swapping
<1>7. ExportsFirst' /\ LockVouches' /\ SuccessInSync'
  BY <1>1, <1>2 DEF ExportsFirst, LockVouches, SuccessInSync
<1>8. Kept'
  BY <1>1, <1>2, <1>4, SetsDisjoint DEF DwInv, Kept
<1>9. NeverTouchesVendor'
  BY <1>1, <1>2 DEF DwInv, NeverTouchesVendor
<1>10. QED
  BY <1>3, <1>5, <1>6, <1>7, <1>8, <1>9 DEF DwInv

\* A tree is carried to the scratch directory.
LEMMA DwCarryStep ==
  ASSUME DwInv, NEW p \in Path, MoveUnchanged(p) \/ Preserve(p)
  PROVE  DwInv'
<1>1. /\ UNCHANGED <<dwInputs, vgit, exists, lock>>
      /\ stage \in {"move", "preserve"} /\ p \in ToMove \cup Preserved /\ scratch[p] = "none"
      /\ \/ /\ vendor[p] # "none" /\ stage' = stage
            /\ scratch' = [scratch EXCEPT ![p] = vendor[p]]
            /\ vendor' = [vendor EXCEPT ![p] = "none"]
         \/ UNCHANGED <<scratch, vendor>> /\ stage' = "err"
  BY DEF MoveUnchanged, Preserve, Carry, Fails
<1>2. /\ UNCHANGED <<delta, tree, behavior, noverify>>
      /\ ToWrite' = ToWrite /\ ToMove' = ToMove /\ Preserved' = Preserved
  BY <1>1, SetsFixed DEF dwInputs
<1>3. behavior = "OnChanged" /\ lock = "new" /\ stage' # "ok" /\ stage' \in {stage, "err"}
  BY <1>1 DEF DwInv, StagesReached, Swapping
<1>4. DwTypes'
  BY <1>1, <1>2, <1>3 DEF DwInv, DwTypes, Contents
<1>5. CASE UNCHANGED <<scratch, vendor>> /\ stage' = "err"
  BY <1>1, <1>2, <1>3, <1>4, <1>5 DEF DwInv, TreesHeld, StagesReached, Swapping,
     ExportsFirst, Kept, SuccessInSync, LockVouches, NeverTouchesVendor
<1>6. CASE /\ vendor[p] # "none" /\ stage' = stage
           /\ scratch' = [scratch EXCEPT ![p] = vendor[p]]
           /\ vendor' = [vendor EXCEPT ![p] = "none"]
  <2>1. /\ \A o \in Path : o # p => scratch'[o] = scratch[o] /\ vendor'[o] = vendor[o]
        /\ scratch'[p] = vendor[p] /\ vendor'[p] = "none"
    BY <1>6 DEF DwInv, DwTypes
  <2>2. vendor[p] = tree[p] /\ p \notin ToWrite
    BY <1>1, <1>6, SetsDisjoint DEF DwInv, TreesHeld
  <2>3. TreesHeld'
    BY <1>1, <1>2, <1>3, <2>1, <2>2, SetsDisjoint DEF DwInv, TreesHeld
  <2>4. StagesReached'
    BY <1>1, <1>2, <1>3, <1>6, <2>1, SetsDisjoint DEF DwInv, StagesReached, Swapping
  <2>5. ExportsFirst'
    BY <1>1, <1>2, <2>1, <2>2, SetsDisjoint DEF DwInv, ExportsFirst
  <2>6. LockVouches'
    BY <1>1, <1>2, <1>3, <2>5, SetsDisjoint DEF ExportsFirst, LockVouches
  <2>7. Kept'
    BY <1>1, <1>2, <2>1, <2>2, SetsDisjoint DEF DwInv, Kept
  <2>8. NeverTouchesVendor' /\ SuccessInSync'
    BY <1>2, <1>3 DEF NeverTouchesVendor, SuccessInSync
  <2>9. QED
    BY <1>4, <2>3, <2>4, <2>5, <2>6, <2>7, <2>8 DEF DwInv
<1>7. QED
  BY <1>1, <1>5, <1>6

\* A writer that may not touch vendor ends.
LEMMA DwNeverStep ==
  ASSUME DwInv, Never
  PROVE  DwInv'
<1>1. /\ UNCHANGED <<dwInputs, vgit, vendor, lock>> /\ stage = "never" /\ stage' \in {"ok", "err"}
      /\ scratch' = [p \in Path |-> "none"] \/ UNCHANGED scratch
      /\ stage' = "err" => UNCHANGED scratch
      /\ behavior = "Never" /\ vendor = tree
  BY DEF Never, DwInv, StagesReached, Fails, Goto
<1>2. /\ UNCHANGED <<delta, tree, behavior, noverify>>
      /\ ToWrite' = ToWrite /\ ToMove' = ToMove /\ Preserved' = Preserved
  BY <1>1, SetsFixed DEF dwInputs
<1>3. DwTypes'
  BY <1>1, <1>2 DEF DwInv, DwTypes, Contents
<1>4. TreesHeld' /\ StagesReached' /\ ExportsFirst'
  BY <1>1, <1>2 DEF DwInv, TreesHeld, StagesReached, ExportsFirst, Swapping
<1>5. Kept' /\ SuccessInSync' /\ LockVouches' /\ NeverTouchesVendor'
  BY <1>1, <1>2, SetsDisjoint DEF DwInv, Kept, SuccessInSync, LockVouches, NeverTouchesVendor
<1>6. QED
  BY <1>3, <1>4, <1>5 DEF DwInv

\* vendor is removed, or part of it.
LEMMA DwRemoveStep ==
  ASSUME DwInv, RemoveVendor
  PROVE  DwInv'
<1>1. /\ UNCHANGED <<dwInputs, scratch, lock>> /\ stage = "remove" /\ stage' \in {"place", "err"}
      /\ behavior = "OnChanged" /\ vgit # "vendor" /\ vgit' = vgit /\ lock = "new"
      /\ \A p \in ToMove \cup Preserved : scratch[p] # "none"
  BY DEF RemoveVendor, DwInv, StagesReached, Swapping, Fails, Goto
<1>2. /\ UNCHANGED <<delta, tree, behavior, noverify>>
      /\ ToWrite' = ToWrite /\ ToMove' = ToMove /\ Preserved' = Preserved
  BY <1>1, SetsFixed DEF dwInputs
<1>3. /\ vendor' \in [Path -> Contents] /\ \A p \in Path : vendor'[p] \in {"none", vendor[p]}
      /\ stage' = "place" => vendor' = [p \in Path |-> "none"]
  BY DEF RemoveVendor, Fails, Goto, DwInv, DwTypes, Contents
<1>4. DwTypes'
  BY <1>1, <1>2, <1>3 DEF DwInv, DwTypes
<1>5. \A p \in ToMove \cup Preserved : scratch[p] = tree[p]
  BY <1>1, SetsDisjoint DEF DwInv, TreesHeld
<1>6. TreesHeld'
  BY <1>1, <1>2, <1>3, SetsDisjoint DEF DwInv, TreesHeld
<1>7. StagesReached' /\ ExportsFirst'
  BY <1>1, <1>2 DEF DwInv, StagesReached, ExportsFirst, Swapping
<1>8. Kept'
  BY <1>1, <1>2, <1>5 DEF Kept
<1>9. LockVouches' /\ SuccessInSync' /\ NeverTouchesVendor'
  BY <1>1, <1>2, SetsDisjoint DEF DwInv, ExportsFirst, LockVouches, SuccessInSync,
                                  NeverTouchesVendor
<1>10. QED
  BY <1>4, <1>6, <1>7, <1>8, <1>9 DEF DwInv

\* The scratch directory is put in its place.
LEMMA DwPlaceStep ==
  ASSUME DwInv, PlaceVendor
  PROVE  DwInv'
<1>1. /\ UNCHANGED <<dwInputs, lock>> /\ stage = "place" /\ behavior = "OnChanged" /\ lock = "new"
      /\ \A p \in ToMove \cup Preserved : scratch[p] # "none"
      /\ \/ /\ stage' = "ok" /\ vendor' = scratch /\ scratch' = [p \in Path |-> "none"]
            /\ vgit' = IF vgit = "scratch" THEN "vendor" ELSE vgit
         \/ stage' = "err" /\ UNCHANGED <<vendor, scratch, vgit>>
  BY DEF PlaceVendor, DwInv, StagesReached, Swapping, Fails, Goto
<1>2. /\ UNCHANGED <<delta, tree, behavior, noverify>>
      /\ ToWrite' = ToWrite /\ ToMove' = ToMove /\ Preserved' = Preserved
      /\ \A p \in Path : NewLock(p)' = NewLock(p)
  BY <1>1, SetsFixed DEF dwInputs
<1>3. DwTypes'
  BY <1>1, <1>2 DEF DwInv, DwTypes, Contents
<1>4. CASE stage' = "err" /\ UNCHANGED <<vendor, scratch, vgit>>
  BY <1>1, <1>2, <1>3, <1>4 DEF DwInv, TreesHeld, StagesReached, Swapping, ExportsFirst, Kept,
                                SuccessInSync, LockVouches, NeverTouchesVendor
<1>5. CASE stage' = "ok" /\ vendor' = scratch /\ scratch' = [p \in Path |-> "none"]
  <2>1. /\ \A p \in ToMove \cup Preserved : scratch[p] = tree[p]
        /\ \A p \in ToWrite : scratch[p] = "fresh"
        /\ \A p \in Path : scratch[p] # "none" => p \in ToWrite \cup ToMove \cup Preserved
    BY <1>1, SetsDisjoint DEF DwInv, TreesHeld, ExportsFirst
  <2>2. TreesHeld' /\ StagesReached' /\ ExportsFirst'
    BY <1>5 DEF TreesHeld, StagesReached, ExportsFirst, Swapping
  <2>3. Kept' /\ LockVouches' /\ NeverTouchesVendor'
    BY <1>1, <1>2, <1>5, <2>1 DEF Kept, LockVouches, NeverTouchesVendor
  <2>4. SuccessInSync'
    <3> SUFFICES ASSUME NEW p \in Path, p \notin noverify
                 PROVE  scratch[p] = "fresh"
                          \/ IF NewLock(p) THEN delta[p] = "same" /\ scratch[p] = "locked"
                                           ELSE scratch[p] = "none"
      BY <1>2, <1>5 DEF SuccessInSync
    <3>1. /\ p \notin Preserved
          /\ p \in ToMove => NewLock(p) /\ delta[p] = "same" /\ tree[p] \in {"none", "locked"}
          /\ p \notin ToWrite \cup ToMove => ~ NewLock(p)
      BY LeftAndMoved DEF DwInv
    <3>2. QED
      BY <1>1, <2>1, <3>1
  <2>5. QED
    BY <1>3, <2>2, <2>3, <2>4 DEF DwInv
<1>6. QED
  BY <1>1, <1>4, <1>5

\* The lock and the vendor tree tell the same story for every set of paths,
\* whatever differs between the locks and whichever disk operation fails.
THEOREM VendorTrueAlways == DwSpec => []VendorTrue
<1>1. DwInit => DwInv
  BY SetsDisjoint DEF DwInit, DwInv, DwTypes, Contents, TreesHeld, StagesReached, Swapping,
                      ExportsFirst, Kept, SuccessInSync, LockVouches, NeverTouchesVendor
<1>2. DwInv /\ [DwNext]_dwVars => DwInv'
  <2> SUFFICES ASSUME DwInv, [DwNext]_dwVars
               PROVE  DwInv'
    OBVIOUS
  <2>1. CASE UNCHANGED dwVars
    <3>1. UNCHANGED <<dwInputs, delta, tree, behavior, noverify, vgit, vendor, scratch, lock, stage>>
      BY <2>1 DEF dwVars, dwInputs
    <3>2. /\ ToWrite' = ToWrite /\ ToMove' = ToMove /\ Preserved' = Preserved
          /\ \A p \in Path : NewLock(p)' = NewLock(p)
      BY <3>1, SetsFixed
    <3>3. QED
      BY <3>1, <3>2 DEF DwInv, DwTypes, TreesHeld, StagesReached, Swapping, ExportsFirst, Kept,
                        SuccessInSync, LockVouches, NeverTouchesVendor
  <2>2. CASE DwNext
    BY <2>2, DwQuietStep, DwExportStep, DwCarryStep, DwNeverStep, DwRemoveStep, DwPlaceStep
       DEF DwNext
  <2>3. QED
    BY <2>1, <2>2
<1>3. DwInv => VendorTrue
  BY DEF DwInv, DwTypes, Kept, VendorTrue, KeptSurvives
<1>4. QED
  BY <1>1, <1>2, <1>3, PTL DEF DwSpec
-----------------------------------------------------------------------------
(* SafeWriter.                                                              *)

Ages == {"none", "old", "new", "partial", "other"}
BakDirs == {"vendor.orig", "td/.vendor.orig"}
Forward == {"new", "write", "git", "mout", "min", "lout", "lin", "vout", "vin",
            "cleanup", "exitok"}

\* For each target: whether it is to be written, where its new content and its
\* original go, and the control states before it is moved out and after the new
\* one is in.
Want(t) == CASE t = "manifest" -> manifest
             [] t = "lock" -> writeLock
             [] t = "vendor" -> writeVendor
Tmp(t) == CASE t = "manifest" -> "td/manifest"
            [] t = "lock" -> "td/lock"
            [] t = "vendor" -> "td/vendor"
Bak(t) == CASE t = "manifest" -> "td/manifest.orig"
            [] t = "lock" -> "td/lock.orig"
            [] t = "vendor" -> vendorbak
Ahead(t) == {"new", "write", "git", "mout"}
            \cup (IF t = "manifest" THEN {} ELSE {"min", "lout"})
            \cup (IF t = "vendor" THEN {"lin", "vout"} ELSE {})
MovingOut(t) == CASE t = "manifest" -> "mout" [] t = "lock" -> "lout" [] t = "vendor" -> "vout"
MovingIn(t) == CASE t = "manifest" -> "min" [] t = "lock" -> "lin" [] t = "vendor" -> "vin"
MovedIn(t) == CASE t = "manifest" -> "lout" [] t = "lock" -> "vout" [] t = "vendor" -> "cleanup"
Behind(t) == Forward \ (Ahead(t) \cup {MovingIn(t)})

\* The moves that the recovery has still to make.
Pending == {restore[i] : i \in DOMAIN restore}
Waits(t) == \E x \in Pending : x[2] = t

SwTypes ==
  /\ device \in {"same", "cross"}
  /\ disk \in [Place -> Ages]
  /\ before \in [Target \cup {"git"} -> {"none", "old", "vendor"}]
  /\ \A t \in Target : before[t] \in {"none", "old"}
  /\ manifest \in BOOLEAN /\ writeLock \in BOOLEAN /\ writeVendor \in BOOLEAN
  /\ restore \in Seq(Place \X Target)
  /\ vendorbak \in BakDirs \cup {"none"}
  /\ undone \in {"ok", "failed"}
  /\ pc \in Forward \cup {"fail", "exiterr", "ok", "err", "refused", "crashed"}

\* One move at most waits for a target, from where its original is, and none
\* has failed while Write goes forward.
RestoreShape ==
  /\ \A i, j \in DOMAIN restore : restore[i][2] = restore[j][2] => i = j
  /\ \A x \in Pending : x[1] = Bak(x[2])
  /\ Waits("vendor") => vendorbak \in BakDirs
  /\ pc \in Ahead("vendor") => vendorbak = "none"
  /\ pc \in Forward => undone = "ok"

\* The original is complete where it was moved to, and will be moved back.
Aside(t) == Waits(t) /\ disk[Bak(t)] = before[t]

\* A vendor tree that is copied between file systems is not safe.
Whole(t) == device = "same" \/ t # "vendor"

TargetInv(t) ==
  /\ pc \in Ahead(t) \/ (pc \in Forward /\ ~ Want(t)) => disk[t] = before[t] /\ ~ Waits(t)
  /\ pc \in (Ahead(t) \ {"new", "write"}) \cup {MovingIn(t)} /\ Want(t) => disk[Tmp(t)] = "new"
  /\ pc = MovingIn(t) => Want(t) /\ (before[t] # "none" => Aside(t))
  /\ pc \in Behind(t) /\ Want(t) =>
       disk[t] = "new" /\ (before[t] # "none" /\ pc # "exitok" => Aside(t))
  /\ pc = "fail" /\ undone = "ok" /\ before[t] # "none" /\ Whole(t) =>
       Aside(t) \/ (~ Waits(t) /\ disk[t] = before[t])
  /\ pc \in {"exiterr", "err"} /\ undone = "ok" /\ before[t] # "none" /\ Whole(t) =>
       disk[t] = before[t]
  /\ pc = "ok" => disk[t] = IF Want(t) THEN "new" ELSE before[t]
  /\ pc = "refused" => disk[t] = before[t]

SwInv ==
  /\ SwTypes /\ RestoreShape
  /\ \A t \in Target : TargetInv(t)
  /\ pc = "crashed" => NeverLost

\* The recovery list as a set.
LEMMA PendingAppend ==
  ASSUME SwTypes, NEW x \in Place \X Target, restore' = Append(restore, x)
  PROVE  Pending' = Pending \cup {x}
<1>1. restore \in Seq(Place \X Target)
  BY DEF SwTypes
<1>2. /\ DOMAIN restore = 1 .. Len(restore) /\ DOMAIN restore' = 1 .. Len(restore) + 1
      /\ \A i \in 1 .. Len(restore) : restore'[i] = restore[i]
      /\ restore'[Len(restore) + 1] = x /\ Len(restore) \in Nat
  BY <1>1
<1>3. QED
  BY <1>2 DEF Pending

\* What is pending after the next restoration.
LEMMA PendingTail ==
  ASSUME SwTypes, \A i, j \in DOMAIN restore : restore[i][2] = restore[j][2] => i = j,
         restore # <<>>, restore' = Tail(restore)
  PROVE  /\ Head(restore) \in Pending
         /\ Pending' = {x \in Pending : x[2] # Head(restore)[2]}
         /\ \A i, j \in DOMAIN restore' : restore'[i][2] = restore'[j][2] => i = j
<1>1. restore \in Seq(Place \X Target)
  BY DEF SwTypes
<1>2. /\ DOMAIN restore = 1 .. Len(restore) /\ DOMAIN restore' = 1 .. Len(restore) - 1
      /\ \A i \in 1 .. Len(restore) - 1 : restore'[i] = restore[i + 1]
      /\ Head(restore) = restore[1] /\ Len(restore) \in Nat \ {0}
  BY <1>1
<1>3. \A i \in 1 .. Len(restore) : i = 1 \/ (i - 1 \in DOMAIN restore' /\ restore[i] = restore'[i - 1])
  BY <1>2
<1>4. Pending' \subseteq {x \in Pending : x[2] # Head(restore)[2]}
  BY <1>2 DEF Pending
<1>5. ASSUME NEW x \in Pending, x[2] # Head(restore)[2] PROVE x \in Pending'
  <2>1. PICK i \in 1 .. Len(restore) : x = restore[i]
    BY <1>2 DEF Pending
  <2>2. i - 1 \in DOMAIN restore' /\ x = restore'[i - 1]
    BY <1>2, <1>3, <1>5, <2>1
  <2>3. QED
    BY <2>2 DEF Pending
<1>6. \A i, j \in DOMAIN restore' : restore'[i][2] = restore'[j][2] => i = j
  BY <1>2
<1>7. Head(restore) \in Pending
  BY <1>2 DEF Pending
<1>8. Pending' = {x \in Pending : x[2] # Head(restore)[2]}
  BY <1>4, <1>5
<1>9. QED
  BY <1>6, <1>7, <1>8

\* A step that leaves what a target and its original are keeps the target's
\* invariant, also when another target's failure turns Write to the recovery.
LEMMA TargetKept ==
  ASSUME NEW s \in Target, TargetInv(s), pc \in Forward => undone = "ok",
         UNCHANGED <<device, before, manifest, writeLock, writeVendor>>,
         disk'[s] = disk[s], disk'[Tmp(s)] = disk[Tmp(s)],
         Waits(s)' = Waits(s), Aside(s) => Aside(s)',
         undone' = "ok" => undone = "ok",
         \/ pc = "fail" /\ pc' = "fail"
         \/ pc \in Forward \ {"exitok"} /\ pc' = "fail"
         \/ pc \in Ahead(s) \ {"new", "write"} /\ pc' \in Ahead(s) \ {"new", "write"}
         \/ pc \in Behind(s) \ {"exitok"} /\ pc' \in Behind(s)
  PROVE  TargetInv(s)'
<1>1. /\ Want(s)' = Want(s) /\ Tmp(s)' = Tmp(s) /\ Whole(s)' = Whole(s)
      /\ Ahead(s)' = Ahead(s) /\ MovingIn(s)' = MovingIn(s) /\ Behind(s)' = Behind(s)
  BY DEF Want, Tmp, Whole, Ahead, MovingIn, Behind
<1>2. /\ MovingIn(s) \in {"min", "lin", "vin"} /\ MovingIn(s) \notin Ahead(s)
      /\ Ahead(s) \subseteq Forward \ {"exitok", "cleanup", "vin", "ok", "refused", "fail", "err", "exiterr"}
      /\ Behind(s) = Forward \ (Ahead(s) \cup {MovingIn(s)})
  BY DEF MovingIn, Ahead, Behind, Forward, Target
<1>3. CASE pc' = "fail"
  BY <1>1, <1>2, <1>3 DEF TargetInv, Forward
<1>4. CASE pc \in Ahead(s) \ {"new", "write"} /\ pc' \in Ahead(s) \ {"new", "write"}
  BY <1>1, <1>2, <1>4 DEF TargetInv, Forward
<1>5. CASE pc \in Behind(s) \ {"exitok"} /\ pc' \in Behind(s)
  BY <1>1, <1>2, <1>5 DEF TargetInv, Forward
<1>6. QED
  BY <1>3, <1>4, <1>5

\* What a move of the swap does to the disk: it is done, or it has failed and
\* Write turns to the recovery.
LEMMA SwapOutcome ==
  ASSUME SwTypes, NEW src \in Place, NEW dst \in Place, src # dst, NEW next,
         next # "fail", Swap(src, dst, next)
  PROVE  /\ disk' \in [Place -> Ages]
         /\ \A p \in Place \ {src, dst} : disk'[p] = disk[p]
         /\ \/ pc' = next /\ disk'[dst] = disk[src]
            \/ /\ pc' = "fail"
               /\ src \notin Dir \/ device = "same" => disk'[src] = disk[src]
<1>1. CASE Renamed(src, dst) /\ pc' = next
  BY <1>1 DEF Renamed, SwTypes, Ages
<1>2. CASE RenameFails(src, dst) /\ pc' = "fail"
  <2>1. device = "same" => disk' = disk
    BY <1>2 DEF RenameFails, Crosses
  <2>2. /\ disk' \in [Place -> Ages]
        /\ \A p \in Place \ {src, dst} : disk'[p] = disk[p]
        /\ src \notin Dir => disk'[src] = disk[src]
    BY <1>2 DEF RenameFails, SwTypes, Ages
  <2>3. QED
    BY <1>2, <2>1, <2>2
<1>3. QED
  BY <1>1, <1>2 DEF Swap

\* What a target's own places are, told one by one.
LEMMA PlacesApart ==
  ASSUME SwTypes, NEW t \in Target
  PROVE  /\ t \in Place /\ Tmp(t) \in Place /\ t # Tmp(t)
         /\ t \in Dir <=> t = "vendor"
         /\ Bak(t) # t /\ Bak(t) # Tmp(t) /\ Bak(t) \notin Target
         /\ \A s \in Target : s # t => Tmp(s) # Tmp(t) /\ s # Tmp(t) /\ Bak(s) # Tmp(t)
         /\ \A s \in Target : s # t => Bak(s) # Bak(t)
         /\ \A s \in Target, b \in BakDirs : s # "vendor" => b # Bak(s)
         /\ \A b \in BakDirs : b # Tmp(t) /\ b \notin Target /\ b \in Place
BY DEF SwTypes, Target, Scratch, Place, Dir, Tmp, Bak, BakDirs

\* The control states around the two moves of a target.
Around(t) == {MovingOut(t), MovingIn(t), MovedIn(t)}

\* How the stages of the transaction lie around the move of a target.
LEMMA Stages ==
  ASSUME NEW t \in Target
  PROVE  /\ MovingOut(t) \in Ahead(t) \ {"new", "write"}
         /\ MovingIn(t) \notin Ahead(t) /\ MovingIn(t) \notin Behind(t)
         /\ MovedIn(t) \in Behind(t) \ {"exitok"}
         /\ Around(t) \subseteq Forward \ {"exitok"}
         /\ Ahead(t) \subseteq Forward
         /\ \A s \in Target : s # t => \/ Around(t) \subseteq Ahead(s) \ {"new", "write"}
                                       \/ Around(t) \subseteq Behind(s) \ {"exitok"}
BY DEF Target, Ahead, MovingOut, MovingIn, MovedIn, Behind, Forward, Around

\* As long as the list stays as it is, all that depends on it does.
LEMMA RestoreKept ==
  ASSUME RestoreShape, UNCHANGED <<restore, vendorbak, undone>>,
         pc' \in Forward => pc \in Forward,
         pc' \in Ahead("vendor") => pc \in Ahead("vendor")
  PROVE  /\ RestoreShape' /\ Pending' = Pending
         /\ \A s \in Target : Bak(s)' = Bak(s) /\ Waits(s)' = Waits(s)
<1>1. /\ Pending' = Pending
      /\ \A s : Bak(s)' = Bak(s) /\ Waits(s)' = Waits(s)
  BY DEF Pending, Waits, Bak
<1>2. Ahead("vendor")' = Ahead("vendor")
  BY DEF Ahead
<1>3. QED
  BY <1>1, <1>2 DEF RestoreShape

\* The original of t is moved aside: only what t is changes.
LEMMA OutStep ==
  ASSUME SwInv, NEW t \in Target, NEW bak \in Place, pc = MovingOut(t), Want(t),
         Swap(t, bak, MovingIn(t)),
         restore' = IF pc' = "fail" THEN restore ELSE Append(restore, <<bak, t>>),
         UNCHANGED <<swArgs, undone>>,
         IF t = "vendor" THEN bak \in BakDirs /\ vendorbak' = bak
                         ELSE bak = Bak(t) /\ UNCHANGED vendorbak
  PROVE  SwInv'
<1>1. /\ UNCHANGED <<device, before, manifest, writeLock, writeVendor, undone>>
      /\ SwTypes /\ RestoreShape /\ undone = "ok"
      /\ \A s \in Target : TargetInv(s)
  BY Stages DEF swArgs, SwInv, RestoreShape, Around
<1>2. /\ bak # t /\ bak # Tmp(t) /\ \A s \in Target : s # t => bak # s /\ bak # Tmp(s) /\ bak # Bak(s)
      /\ Bak(t)' = bak /\ bak \notin Target
      /\ \A s \in Target : s # t => Bak(s)' = Bak(s)
  BY <1>1, PlacesApart DEF Bak, BakDirs, Target
<1>3. /\ disk' \in [Place -> Ages]
      /\ \A p \in Place \ {t, bak} : disk'[p] = disk[p]
      /\ \/ pc' = MovingIn(t) /\ disk'[bak] = disk[t]
         \/ /\ pc' = "fail"
            /\ t \notin Dir \/ device = "same" => disk'[t] = disk[t]
  BY <1>1, <1>2, PlacesApart, SwapOutcome DEF MovingIn, Target
<1>4. disk[t] = before[t] /\ ~ Waits(t) /\ disk[Tmp(t)] = "new"
  BY <1>1, Stages DEF TargetInv
<1>5. SwTypes'
  <2>1. restore' \in Seq(Place \X Target)
    BY <1>1 DEF SwTypes
  <2>2. pc' \in Forward \cup {"fail"}
    BY <1>3, Stages DEF Around
  <2>3. vendorbak' \in BakDirs \cup {"none"}
    BY <1>1 DEF SwTypes
  <2>4. QED
    BY <1>1, <1>3, <2>1, <2>2, <2>3 DEF SwTypes
<1>6. Pending' = IF pc' = "fail" THEN Pending ELSE Pending \cup {<<bak, t>>}
  BY <1>1, PendingAppend DEF Pending
<1>7. \A s \in Target : s # t => Waits(s)' = Waits(s)
  BY <1>6 DEF Waits
<1>8. pc' # "fail" => Waits(t)'
  <2>1. <<bak, t>>[2] = t
    OBVIOUS
  <2>2. QED
    BY <1>6, <2>1 DEF Waits
<1>9. pc' = "fail" => ~ Waits(t)'
  BY <1>4, <1>6 DEF Waits
<1>10. RestoreShape'
  <2>1. \A i, j \in DOMAIN restore' : restore'[i][2] = restore'[j][2] => i = j
    <3>1. CASE pc' = "fail"
      BY <1>1, <3>1 DEF RestoreShape
    <3>2. CASE pc' # "fail"
      <4>1. restore \in Seq(Place \X Target) /\ <<bak, t>> \in Place \X Target
            /\ restore' = Append(restore, <<bak, t>>)
        BY <1>1, <3>2 DEF SwTypes
      <4>2. /\ DOMAIN restore = 1 .. Len(restore) /\ DOMAIN restore' = 1 .. Len(restore) + 1
            /\ \A i \in 1 .. Len(restore) : restore'[i] = restore[i]
            /\ restore'[Len(restore) + 1][2] = t /\ Len(restore) \in Nat
        BY <4>1
      <4>3. \A i \in DOMAIN restore : restore[i][2] # t
        BY <1>4 DEF Waits, Pending
      <4>4. QED
        BY <1>1, <4>2, <4>3 DEF RestoreShape
    <3>3. QED
      BY <3>1, <3>2
  <2>2. \A x \in Pending' : x[1] = Bak(x[2])'
    <3> SUFFICES ASSUME NEW x \in Pending' PROVE x[1] = Bak(x[2])'
      OBVIOUS
    <3>1. CASE x = <<bak, t>>
      BY <1>2, <3>1
    <3>2. CASE x \in Pending
      <4>1. x[2] \in Target /\ x[2] # t
        BY <1>1, <1>4, <3>2 DEF Waits, Pending, SwTypes
      <4>2. QED
        BY <1>1, <1>2, <3>2, <4>1 DEF RestoreShape
    <3>3. QED
      BY <1>6, <3>1, <3>2
  <2>3. Waits("vendor")' => vendorbak' \in BakDirs
    BY <1>1, <1>4, <1>7 DEF RestoreShape, Target
  <2>4. pc' \in Ahead("vendor") => vendorbak' = "none"
    BY <1>1, <1>3, Stages DEF RestoreShape, Around, Ahead, Forward, Target, MovingIn, MovingOut
  <2>5. QED
    BY <1>1, <2>1, <2>2, <2>3, <2>4 DEF RestoreShape
<1>11. ASSUME NEW s \in Target, s # t
       PROVE  TargetInv(s)'
  <2>1. disk'[s] = disk[s] /\ disk'[Tmp(s)] = disk[Tmp(s)]
    BY <1>2, <1>3, <1>11, PlacesApart, <1>1
  <2>2. Aside(s) => Aside(s)'
    <3>1. Bak(s) \in Place => disk'[Bak(s)] = disk[Bak(s)]
      BY <1>1, <1>2, <1>3, <1>11, PlacesApart
    <3>2. Waits(s) => Bak(s) \in Place
      BY <1>1 DEF RestoreShape, Bak, BakDirs, Place, Scratch, Target
    <3>3. QED
      BY <1>1, <1>2, <1>7, <1>11, <3>1, <3>2 DEF Aside
  <2>3. QED
    BY <1>1, <1>3, <1>7, <1>11, <2>1, <2>2, Stages, TargetKept DEF Around
<1>12. TargetInv(t)'
  <2>1. /\ Want(t)' /\ Tmp(t)' = Tmp(t) /\ Whole(t)' = Whole(t)
        /\ Ahead(t)' = Ahead(t) /\ MovingIn(t)' = MovingIn(t) /\ Behind(t)' = Behind(t)
    BY <1>1 DEF Want, Tmp, Whole, Ahead, MovingIn, Behind
  <2>2. CASE pc' = "fail"
    <3>1. Whole(t) => disk'[t] = before[t]
      BY <1>3, <1>4, <2>2, PlacesApart, <1>1 DEF Whole, MovingIn, Target
    <3>2. pc' \notin Forward
      BY <2>2 DEF Forward
    <3>3. pc' \notin Ahead(t) /\ pc' \notin Behind(t) /\ pc' # MovingIn(t)
      BY <3>2, Stages DEF Around, Behind
    <3>4. QED
      BY <1>1, <1>9, <2>1, <2>2, <3>1, <3>2, <3>3 DEF TargetInv
  <2>3. CASE pc' = MovingIn(t) /\ disk'[bak] = disk[t]
    <3>1. disk'[Tmp(t)] = "new"
      BY <1>2, <1>3, <1>4, PlacesApart, <1>1
    <3>2. pc' # "fail" /\ pc' \notin {"exiterr", "err", "ok", "refused"}
      BY <2>3 DEF MovingIn, Target
    <3>3. Aside(t)'
      BY <1>1, <1>2, <1>4, <1>8, <2>3, <3>2 DEF Aside
    <3>4. QED
      BY <2>1, <2>3, <3>1, <3>2, <3>3, Stages DEF TargetInv
  <2>4. QED
    BY <1>3, <2>2, <2>3
<1>13. pc' # "crashed"
  BY <1>3 DEF MovingIn, Target
<1>14. QED
  BY <1>5, <1>10, <1>11, <1>12, <1>13 DEF SwInv

\* The new content of t is moved in.
LEMMA InStep ==
  ASSUME SwInv, NEW t \in Target, pc = MovingIn(t), Swap(Tmp(t), t, MovedIn(t)),
         UNCHANGED <<swArgs, restore, vendorbak, undone>>
  PROVE  SwInv'
<1>1. /\ UNCHANGED <<device, before, manifest, writeLock, writeVendor, undone, restore, vendorbak>>
      /\ SwTypes /\ RestoreShape /\ undone = "ok"
      /\ \A s \in Target : TargetInv(s)
  BY Stages DEF swArgs, SwInv, RestoreShape, Around
<1>2. /\ Pending' = Pending
      /\ \A s \in Target : Bak(s)' = Bak(s) /\ Waits(s)' = Waits(s)
  BY <1>1 DEF Pending, Waits, Bak
<1>3. /\ disk' \in [Place -> Ages]
      /\ \A p \in Place \ {t, Tmp(t)} : disk'[p] = disk[p]
      /\ \/ pc' = MovedIn(t) /\ disk'[t] = disk[Tmp(t)]
         \/ pc' = "fail"
  BY <1>1, PlacesApart, SwapOutcome DEF MovedIn, Target
<1>4. Want(t) /\ disk[Tmp(t)] = "new" /\ (before[t] # "none" => Aside(t))
  BY <1>1 DEF TargetInv
<1>5. SwTypes'
  <2>1. pc' \in Forward \cup {"fail"}
    BY <1>3, Stages DEF Around
  <2>2. QED
    BY <1>1, <1>3, <2>1 DEF SwTypes
<1>6. pc' \in Ahead("vendor") => pc \in Ahead("vendor")
  BY <1>3 DEF Ahead, MovingIn, MovedIn, Target
<1>7. RestoreShape'
  BY <1>1, <1>2, <1>6 DEF RestoreShape, Pending, Waits, Bak
<1>8. ASSUME NEW s \in Target, Aside(s)
      PROVE  Aside(s)'
  <2>1. Bak(s) \in Place /\ Bak(s) \notin {t, Tmp(t)}
    BY <1>1, <1>8, PlacesApart DEF Aside, RestoreShape, Bak, BakDirs, Place, Scratch, Target, Tmp
  <2>2. QED
    BY <1>1, <1>2, <1>3, <1>8, <2>1 DEF Aside
<1>9. ASSUME NEW s \in Target, s # t
      PROVE  TargetInv(s)'
  <2>1. disk'[s] = disk[s] /\ disk'[Tmp(s)] = disk[Tmp(s)]
    BY <1>1, <1>3, <1>9, PlacesApart
  <2>2. QED
    BY <1>1, <1>2, <1>3, <1>8, <1>9, <2>1, Stages, TargetKept DEF Around
<1>10. TargetInv(t)'
  <2>1. /\ Want(t)' /\ Tmp(t)' = Tmp(t) /\ Whole(t)' = Whole(t)
        /\ Ahead(t)' = Ahead(t) /\ MovingIn(t)' = MovingIn(t) /\ Behind(t)' = Behind(t)
    BY <1>1, <1>4 DEF Want, Tmp, Whole, Ahead, MovingIn, Behind
  <2>2. CASE pc' = "fail"
    <3>1. pc' \notin Forward
      BY <2>2 DEF Forward
    <3>2. pc' \notin Ahead(t) /\ pc' \notin Behind(t) /\ pc' # MovingIn(t)
      BY <3>1, Stages DEF Around, Behind
    <3>3. QED
      BY <1>1, <1>4, <1>8, <2>1, <2>2, <3>1, <3>2 DEF TargetInv
  <2>3. CASE pc' = MovedIn(t) /\ disk'[t] = disk[Tmp(t)]
    <3>1. pc' \notin {"fail", "exiterr", "err", "ok", "refused"}
      BY <2>3 DEF MovedIn, Target
    <3>2. pc' \in Behind(t) /\ pc' \notin Ahead(t) /\ pc' # MovingIn(t)
      BY <2>3, Stages DEF Behind
    <3>3. QED
      BY <1>1, <1>4, <1>8, <2>1, <2>3, <3>1, <3>2 DEF TargetInv
  <2>4. QED
    BY <1>3, <2>2, <2>3
<1>11. pc' # "crashed"
  BY <1>3 DEF MovedIn, Target
<1>12. QED
  BY <1>5, <1>7, <1>9, <1>10, <1>11 DEF SwInv

\* A move is skipped: of a target that is not written, or that was not there.
LEMMA SkipStep ==
  ASSUME SwInv, NEW t \in Target, pc = MovingOut(t),
         \/ ~ Want(t) /\ pc' = MovedIn(t)
         \/ Want(t) /\ disk[t] = "none" /\ pc' = MovingIn(t),
         UNCHANGED <<swArgs, disk, git, restore, undone, vendorbak>>
  PROVE  SwInv'
<1>1. /\ UNCHANGED <<device, before, manifest, writeLock, writeVendor, undone, restore, vendorbak>>
      /\ SwTypes /\ RestoreShape /\ undone = "ok"
      /\ \A s \in Target : TargetInv(s)
  BY Stages DEF swArgs, SwInv, RestoreShape, Around
<1>2. /\ Pending' = Pending
      /\ \A s \in Target : Bak(s)' = Bak(s) /\ Waits(s)' = Waits(s) /\ Aside(s)' = Aside(s)
  BY <1>1 DEF Pending, Waits, Bak, Aside
<1>3. SwTypes'
  <2>1. pc' \in Forward
    BY Stages DEF Around
  <2>2. QED
    BY <1>1, <2>1 DEF SwTypes
<1>4. pc' \in Ahead("vendor") => pc \in Ahead("vendor")
  BY DEF Ahead, MovingIn, MovedIn, MovingOut, Target
<1>5. RestoreShape'
  BY <1>1, <1>2, <1>4 DEF RestoreShape, Pending, Waits, Bak
<1>6. ASSUME NEW s \in Target, s # t
      PROVE  TargetInv(s)'
  BY <1>1, <1>2, <1>6, Stages, TargetKept DEF Around
<1>7. TargetInv(t)'
  <2>1. /\ Want(t)' = Want(t) /\ Tmp(t)' = Tmp(t) /\ Whole(t)' = Whole(t)
        /\ Ahead(t)' = Ahead(t) /\ MovingIn(t)' = MovingIn(t) /\ Behind(t)' = Behind(t)
    BY <1>1 DEF Want, Tmp, Whole, Ahead, MovingIn, Behind
  <2>2. pc' \notin {"fail", "exiterr", "err", "ok", "refused"}
    BY DEF MovedIn, MovingIn, Target
  <2>3. disk[t] = before[t] /\ ~ Waits(t) /\ (Want(t) => disk[Tmp(t)] = "new")
    BY <1>1, Stages DEF TargetInv
  <2>4. QED
    BY <1>1, <1>2, <2>1, <2>2, <2>3, Stages DEF TargetInv
<1>8. pc' # "crashed"
  BY DEF MovedIn, MovingIn, Target
<1>9. QED
  BY <1>3, <1>5, <1>6, <1>7, <1>8 DEF SwInv

\* Before the first move only the scratch directory is written.
LEMMA BeginStep ==
  ASSUME SwInv, NewSafeWriter \/ WriteScratch \/ PreserveGit
  PROVE  SwInv'
<1>1. /\ UNCHANGED <<device, before, manifest, undone, restore, vendorbak>>
      /\ SwTypes /\ RestoreShape /\ \A s \in Target : TargetInv(s)
      /\ pc \in {"new", "write", "git"}
  BY DEF NewSafeWriter, WriteScratch, PreserveGit, swArgs, SwInv
<1>2. \A s \in Target : /\ pc \in Ahead(s) /\ disk[s] = before[s] /\ ~ Waits(s)
                        /\ Ahead(s)' = Ahead(s) /\ MovingIn(s)' = MovingIn(s)
                        /\ Behind(s)' = Behind(s) /\ Tmp(s)' = Tmp(s)
  BY <1>1 DEF TargetInv, Ahead, MovingIn, Behind, Tmp
<1>3. /\ Pending' = Pending
      /\ \A s \in Target : Bak(s)' = Bak(s) /\ Waits(s)' = Waits(s)
  BY <1>1 DEF Pending, Waits, Bak
<1>4. CASE NewSafeWriter
  <2>1. /\ UNCHANGED disk /\ pc' \in {"refused", "write"}
        /\ writeLock' \in BOOLEAN /\ writeVendor' \in BOOLEAN
    <3>1. writeLock' \in BOOLEAN
      <4>1. PICK o, n \in BOOLEAN, d \in {"none", "imports", "other"} :
              writeLock' = IF o THEN o /\ n /\ d # "none" ELSE n
        BY <1>4 DEF NewSafeWriter
      <4>2. CASE o
        BY <4>1, <4>2
      <4>3. CASE ~ o
        BY <4>1, <4>3
      <4>4. QED
        BY <4>2, <4>3
    <3>2. writeVendor' \in BOOLEAN
      BY <1>4, SMT DEF NewSafeWriter
    <3>3. UNCHANGED disk /\ pc' \in {"refused", "write"}
      BY <1>4 DEF NewSafeWriter
    <3>4. QED
      BY <3>1, <3>2, <3>3
  <2>2. SwTypes'
    BY <1>1, <2>1 DEF SwTypes, Forward
  <2>3. RestoreShape'
    BY <1>1, <2>1, RestoreKept DEF Ahead, Forward
  <2>4. ASSUME NEW s \in Target PROVE TargetInv(s)'
    <3>1. pc' # MovingIn(s) /\ pc' \notin Behind(s)
      BY <2>1 DEF MovingIn, Behind, Ahead, Forward, Target
    <3>2. pc' \in Ahead(s) => pc' = "write"
      BY <2>1 DEF Ahead
    <3>3. QED
      BY <1>1, <1>2, <1>3, <2>1, <3>1, <3>2 DEF TargetInv
  <2>5. QED
    BY <2>1, <2>2, <2>3, <2>4 DEF SwInv
<1>5. CASE WriteScratch
  <2>1. /\ UNCHANGED <<writeLock, writeVendor>>
        /\ \A s \in Target : Want(s)' = Want(s)
        /\ \/ UNCHANGED disk /\ pc' = "exiterr"
           \/ UNCHANGED disk /\ pc' = "ok" /\ \A s \in Target : ~ Want(s)
           \/ /\ pc' = "git"
              /\ disk' = [disk EXCEPT
                   !["td/manifest"] = IF manifest THEN "new" ELSE @,
                   !["td/lock"] = IF writeLock THEN "new" ELSE @,
                   !["td/vendor"] = IF writeVendor THEN "new" ELSE @]
    BY <1>5 DEF WriteScratch, swArgs, Want, Target
  <2>2. /\ disk' \in [Place -> Ages] /\ \A s \in Target : disk'[s] = disk[s]
        /\ pc' = "git" => \A s \in Target : Want(s) => disk'[Tmp(s)] = "new"
    <3>1. CASE UNCHANGED disk /\ pc' # "git"
      BY <1>1, <3>1 DEF SwTypes
    <3>2. CASE pc' = "git"
      <4>1. {"td/manifest", "td/lock", "td/vendor"} \subseteq Place /\ Target \subseteq Place
        BY DEF Place, Scratch
      <4>2. \A o \in Place : disk'[o] =
              IF \/ o = "td/manifest" /\ manifest
                 \/ o = "td/lock" /\ writeLock
                 \/ o = "td/vendor" /\ writeVendor
                THEN "new" ELSE disk[o]
        BY <1>1, <2>1, <3>2, <4>1 DEF SwTypes
      <4>3. disk' \in [Place -> Ages]
        BY <1>1, <2>1, <3>2, <4>2 DEF SwTypes, Ages
      <4>4. QED
        BY <4>1, <4>2, <4>3 DEF Target, Want, Tmp
    <3>3. QED
      BY <2>1, <3>1, <3>2
  <2>3. SwTypes'
    BY <1>1, <2>1, <2>2 DEF SwTypes, Forward
  <2>4. RestoreShape'
    BY <1>1, <2>1, RestoreKept DEF Ahead, Forward
  <2>5. ASSUME NEW s \in Target PROVE TargetInv(s)'
    <3>1. pc' # MovingIn(s) /\ pc' \notin Behind(s)
      BY <2>1 DEF MovingIn, Behind, Ahead, Forward, Target
    <3>2. pc' \in Ahead(s) => pc' = "git"
      BY <2>1 DEF Ahead
    <3>3. QED
      BY <1>1, <1>2, <1>3, <2>1, <2>2, <3>1, <3>2 DEF TargetInv
  <2>6. QED
    BY <2>1, <2>3, <2>4, <2>5 DEF SwInv
<1>6. CASE PreserveGit
  <2>1. UNCHANGED <<disk, writeLock, writeVendor>> /\ pc' = "mout" /\ pc = "git"
    BY <1>6 DEF PreserveGit, swArgs
  <2>2. SwTypes'
    BY <1>1, <2>1 DEF SwTypes, Forward
  <2>3. RestoreShape'
    BY <1>1, <2>1, RestoreKept DEF Ahead, Forward
  <2>4. ASSUME NEW s \in Target PROVE TargetInv(s)'
    <3>1. "git" \in Ahead(s) \ {"new", "write"} /\ "mout" \in Ahead(s) \ {"new", "write"}
      BY DEF Ahead
    <3>2. QED
      BY <1>1, <1>2, <1>3, <2>1, <3>1, TargetKept DEF Aside, RestoreShape, Bak
  <2>5. QED
    BY <2>1, <2>2, <2>3, <2>4 DEF SwInv
<1>7. QED
  BY <1>4, <1>5, <1>6


\* The backup of vendor is removed once everything is in.
LEMMA CleanupStep ==
  ASSUME SwInv, Cleanup
  PROVE  SwInv'
<1>1. /\ UNCHANGED <<device, before, manifest, writeLock, writeVendor, undone, restore, vendorbak>>
      /\ SwTypes /\ RestoreShape /\ \A s \in Target : TargetInv(s)
      /\ pc = "cleanup" /\ pc' = "exitok"
  BY DEF Cleanup, swArgs, SwInv
<1>2. /\ disk' \in [Place -> Ages] /\ \A s \in Target : disk'[s] = disk[s]
  <2>1. CASE UNCHANGED disk
    BY <1>1, <2>1 DEF SwTypes
  <2>2. ASSUME vendorbak # "none", NEW left \in {"none", "partial", disk[vendorbak]},
               disk' = [disk EXCEPT ![vendorbak] = left]
        PROVE  disk' \in [Place -> Ages] /\ \A s \in Target : disk'[s] = disk[s]
    <3>1. vendorbak \in Place /\ vendorbak \notin Target
      BY <1>1, <2>2 DEF SwTypes, BakDirs, Place, Scratch, Target
    <3>2. left \in Ages
      BY <1>1, <3>1 DEF SwTypes, Ages
    <3>3. QED
      BY <1>1, <2>2, <3>1, <3>2 DEF SwTypes
  <2>3. QED
    BY <2>1, <2>2 DEF Cleanup
<1>3. SwTypes'
  BY <1>1, <1>2 DEF SwTypes, Forward
<1>4. RestoreShape' /\ \A s \in Target : Bak(s)' = Bak(s) /\ Waits(s)' = Waits(s)
  BY <1>1, RestoreKept DEF Ahead, Forward
<1>5. ASSUME NEW s \in Target PROVE TargetInv(s)'
  <2>1. /\ Want(s)' = Want(s) /\ Behind(s)' = Behind(s) /\ Ahead(s)' = Ahead(s)
        /\ MovingIn(s)' = MovingIn(s)
    BY <1>1 DEF Want, Behind, Ahead, MovingIn
  <2>2. /\ {"cleanup", "exitok"} \subseteq Behind(s)
        /\ "exitok" \notin Ahead(s) /\ "exitok" # MovingIn(s) /\ "cleanup" \in Forward
    BY DEF Behind, Ahead, MovingIn, Forward, Target
  <2>3. /\ ~ Want(s) => disk[s] = before[s] /\ ~ Waits(s)
        /\ Want(s) => disk[s] = "new"
    BY <1>1, <2>2 DEF TargetInv
  <2>4. QED
    BY <1>1, <1>2, <1>4, <2>1, <2>2, <2>3 DEF TargetInv
<1>6. QED
  BY <1>1, <1>3, <1>4, <1>5 DEF SwInv

\* The recovery moves an original back, or gives up, or is done.
LEMMA RestoreStep ==
  ASSUME SwInv, Restore
  PROVE  SwInv'
<1>1. /\ UNCHANGED <<device, before, manifest, writeLock, writeVendor, vendorbak>>
      /\ SwTypes /\ RestoreShape /\ \A s \in Target : TargetInv(s) /\ Bak(s)' = Bak(s)
      /\ pc = "fail" /\ pc' \in {"fail", "exiterr"}
  BY DEF Restore, swArgs, SwInv, Bak
<1>2. \A s \in Target : /\ Want(s)' = Want(s) /\ Behind(s)' = Behind(s) /\ Ahead(s)' = Ahead(s)
                        /\ MovingIn(s)' = MovingIn(s) /\ Whole(s)' = Whole(s)
  BY <1>1 DEF Want, Behind, Ahead, MovingIn, Whole
<1>3. \A s \in Target : {"fail", "exiterr"} \cap (Ahead(s) \cup Behind(s) \cup {MovingIn(s)} \cup Forward) = {}
  BY DEF Behind, Ahead, MovingIn, Forward, Target
<1>4. CASE restore = <<>>
  <2>1. UNCHANGED <<disk, restore, undone>> /\ pc' = "exiterr" /\ Pending = {}
    BY <1>4 DEF Restore, Pending
  <2>2. SwTypes'
    BY <1>1, <2>1 DEF SwTypes
  <2>3. RestoreShape'
    BY <1>1, <2>1, RestoreKept DEF Ahead, Forward
  <2>4. ASSUME NEW s \in Target PROVE TargetInv(s)'
    <3>1. ~ Waits(s)
      BY <2>1 DEF Waits
    <3>2. QED
      BY <1>1, <1>2, <1>3, <2>1, <3>1 DEF TargetInv, Aside
  <2>5. QED
    BY <2>1, <2>2, <2>3, <2>4 DEF SwInv
<1>5. CASE restore # <<>>
  <2> DEFINE from == Head(restore)[1]
             to == Head(restore)[2]
  <2>1. /\ pc' = "fail" /\ restore' = Tail(restore)
        /\ \/ Renamed(from, to) /\ undone' = undone
           \/ RenameFails(from, to) /\ undone' = "failed"
    BY <1>5 DEF Restore
  <2>2. /\ Head(restore) \in Pending
        /\ Pending' = {x \in Pending : x[2] # to}
        /\ \A i, j \in DOMAIN restore' : restore'[i][2] = restore'[j][2] => i = j
    BY <1>1, <1>5, <2>1, PendingTail DEF RestoreShape
  <2>3. from = Bak(to) /\ from \in Place /\ to \in Target /\ to \in Place /\ from # to
    <3>1. restore \in Seq(Place \X Target) /\ restore # <<>>
      BY <1>1, <1>5 DEF SwTypes
    <3>2. Head(restore) \in Place \X Target
      BY <3>1
    <3>3. from = Bak(to)
      BY <1>1, <2>2 DEF RestoreShape
    <3>4. QED
      BY <1>1, <3>2, <3>3, PlacesApart
  <2>4. /\ disk' \in [Place -> Ages]
        /\ \A o \in Place \ {from, to} : disk'[o] = disk[o]
        /\ undone' = "ok" => undone = "ok" /\ disk'[to] = disk[from]
        /\ undone' \in {"ok", "failed"}
    <3>1. CASE Renamed(from, to) /\ undone' = undone
      BY <1>1, <2>3, <3>1 DEF Renamed, SwTypes, Ages
    <3>2. CASE RenameFails(from, to) /\ undone' = "failed"
      BY <1>1, <2>3, <3>2 DEF RenameFails, SwTypes, Ages
    <3>3. QED
      BY <2>1, <3>1, <3>2
  <2>5. SwTypes'
    <3>1. restore' \in Seq(Place \X Target)
      BY <1>1, <1>5, <2>1 DEF SwTypes
    <3>2. QED
      BY <1>1, <2>1, <2>4, <3>1 DEF SwTypes
  <2>6. \A s \in Target : IF s = to THEN ~ Waits(s)' ELSE Waits(s)' = Waits(s)
    BY <2>2 DEF Waits
  <2>7. RestoreShape'
    <3>1. \A x \in Pending' : x[1] = Bak(x[2])'
      BY <1>1, <2>2 DEF RestoreShape, Bak
    <3>2. Waits("vendor")' => vendorbak' \in BakDirs
      BY <1>1, <2>6 DEF RestoreShape, Target
    <3>3. QED
      BY <1>3, <2>1, <2>2, <3>1, <3>2 DEF RestoreShape, Ahead, Forward
  <2>8. ASSUME NEW s \in Target PROVE TargetInv(s)'
    <3>1. CASE s = to
      <4>1. undone' = "ok" /\ before[s] # "none" /\ Whole(s) => disk'[s] = before[s]
        BY <1>1, <2>2, <2>3, <2>4, <3>1 DEF TargetInv, Aside, Waits
      <4>2. QED
        BY <1>1, <1>2, <1>3, <2>1, <2>6, <3>1, <4>1 DEF TargetInv
    <3>2. CASE s # to
      <4>1. disk'[s] = disk[s]
        BY <1>1, <2>3, <2>4, <3>2, PlacesApart
      <4>2. Aside(s) => Aside(s)'
        <5>1. Waits(s) => Bak(s) \in Place
          BY <1>1 DEF RestoreShape, Bak, BakDirs, Place, Scratch, Target
        <5>2. Bak(s) # from /\ Bak(s) # to
          BY <1>1, <2>3, <3>2, PlacesApart
        <5>3. QED
          BY <1>1, <2>4, <2>6, <3>2, <5>1, <5>2 DEF Aside
      <4>3. QED
        BY <1>1, <1>2, <1>3, <2>1, <2>4, <2>6, <3>2, <4>1, <4>2 DEF TargetInv
    <3>3. QED
      BY <3>1, <3>2
  <2>9. QED
    BY <2>1, <2>5, <2>7, <2>8 DEF SwInv
<1>6. QED
  BY <1>4, <1>5

\* The scratch directory is removed.
LEMMA RemoveScratchStep ==
  ASSUME SwInv, RemoveScratch
  PROVE  SwInv'
<1>1. /\ UNCHANGED <<device, before, manifest, writeLock, writeVendor, undone, restore, vendorbak>>
      /\ SwTypes /\ RestoreShape /\ \A s \in Target : TargetInv(s)
      /\ \/ pc = "exitok" /\ pc' = "ok"
         \/ pc = "exiterr" /\ pc' = "err"
      /\ disk' = [p \in Place |-> IF p \in Scratch THEN "none" ELSE disk[p]]
  BY DEF RemoveScratch, swArgs, SwInv
<1>2. /\ disk' \in [Place -> Ages] /\ \A s \in Target : disk'[s] = disk[s]
  BY <1>1 DEF SwTypes, Ages, Place, Scratch, Target
<1>3. SwTypes'
  BY <1>1, <1>2 DEF SwTypes
<1>4. RestoreShape' /\ \A s \in Target : Bak(s)' = Bak(s) /\ Waits(s)' = Waits(s)
  BY <1>1, RestoreKept DEF Ahead, Forward
<1>5. ASSUME NEW s \in Target PROVE TargetInv(s)'
  <2>1. /\ Want(s)' = Want(s) /\ Behind(s)' = Behind(s) /\ Ahead(s)' = Ahead(s)
        /\ MovingIn(s)' = MovingIn(s) /\ Whole(s)' = Whole(s)
    BY <1>1 DEF Want, Behind, Ahead, MovingIn, Whole
  <2>2. /\ "exitok" \in Behind(s) /\ "exitok" \in Forward
        /\ {"ok", "err"} \cap (Ahead(s) \cup Behind(s) \cup {MovingIn(s)} \cup Forward) = {}
    BY DEF Behind, Ahead, MovingIn, Forward, Target
  <2>3. pc = "exitok" => disk[s] = IF Want(s) THEN "new" ELSE before[s]
    BY <1>1, <2>2 DEF TargetInv
  <2>4. QED
    BY <1>1, <1>2, <1>4, <2>1, <2>2, <2>3 DEF TargetInv
<1>6. QED
  BY <1>1, <1>3, <1>4, <1>5 DEF SwInv

\* In every control state each target that was there is complete somewhere.
LEMMA NothingLost ==
  ASSUME SwInv
  PROVE  NeverLost
<1> SUFFICES ASSUME undone = "ok", pc # "crashed", NEW t \in Target,
                    before[t] = "old", Whole(t)
             PROVE  \E p \in Places(t) : disk[p] \in {"old", "new"}
  BY DEF SwInv, NeverLost, Whole
<1>1. TargetInv(t) /\ SwTypes /\ RestoreShape
  BY DEF SwInv
<1>2. t \in Places(t) /\ (Waits(t) => Bak(t) \in Places(t))
  BY <1>1 DEF Places, Target, Bak, RestoreShape, BakDirs, Dir
<1>3. pc \in Forward => pc \in Ahead(t) \/ pc = MovingIn(t) \/ pc \in Behind(t)
  BY DEF Behind
<1>4. disk[t] \in {"old", "new"} \/ Aside(t)
  BY <1>1, <1>3 DEF TargetInv, SwTypes
<1>5. QED
  BY <1>2, <1>4 DEF Aside

\* However Write ends or is interrupted, manifest, lock and vendor are the old
\* or the new ones, and complete somewhere: for both kinds of device.
THEOREM TargetsSafeAlways == SwSpec => []TargetsSafe
<1>1. SwInit => SwInv
  <2> SUFFICES ASSUME SwInit PROVE SwInv
    OBVIOUS
  <2>1. PICK m, l, v \in {"none", "old"}, b \in {"none", "other"} :
          disk = [p \in Place |-> CASE p = "manifest" -> m
                                    [] p = "lock" -> l
                                    [] p = "vendor" -> v
                                    [] p = "vendor.orig" -> b
                                    [] OTHER -> "none"]
    BY DEF SwInit
  <2>2. /\ disk \in [Place -> Ages]
        /\ \A t \in Target : disk[t] \in {"none", "old"} /\ before[t] = disk[t]
    BY <2>1 DEF SwInit, Ages, Place, Target
  <2>3. before \in [Target \cup {"git"} -> {"none", "old", "vendor"}]
    BY <2>2 DEF SwInit, Target
  <2>4. restore \in Seq(Place \X Target) /\ restore = <<>> /\ DOMAIN restore = {}
    BY DEF SwInit
  <2>5. Pending = {} /\ \A t : ~ Waits(t)
    BY <2>4 DEF Pending, Waits
  <2>6. /\ device \in {"same", "cross"} /\ manifest \in BOOLEAN
        /\ writeLock = FALSE /\ writeVendor = FALSE /\ vendorbak = "none"
        /\ undone = "ok" /\ pc = "new"
    BY DevicesAre DEF SwInit
  <2>7. SwTypes
    BY <2>2, <2>3, <2>4, <2>6 DEF SwTypes, Forward
  <2>8. RestoreShape
    BY <2>4, <2>5, <2>6 DEF RestoreShape
  <2>9. ASSUME NEW t \in Target PROVE TargetInv(t)
    <3>1. "new" # MovingIn(t) /\ "new" \notin Behind(t)
      BY DEF MovingIn, Behind, Ahead, Target
    <3>2. QED
      BY <2>2, <2>5, <2>6, <3>1 DEF TargetInv
  <2>10. QED
    BY <2>6, <2>7, <2>8, <2>9 DEF SwInv
<1>2. SwInv /\ [SwNext]_swVars => SwInv'
  <2> SUFFICES ASSUME SwInv, [SwNext]_swVars PROVE SwInv'
    OBVIOUS
  <2>1. CASE NewSafeWriter \/ WriteScratch \/ PreserveGit
    BY <2>1, BeginStep
  <2>2. CASE ManifestOut
    <3>1. /\ "manifest" \in Target /\ Want("manifest") = manifest
          /\ MovingOut("manifest") = "mout" /\ MovingIn("manifest") = "min"
          /\ MovedIn("manifest") = "lout" /\ Bak("manifest") = "td/manifest.orig"
          /\ "td/manifest.orig" \in Place
      BY DEF Target, Want, MovingOut, MovingIn, MovedIn, Bak, Place, Scratch
    <3>2. CASE Skip("lout") /\ ~ manifest
      BY <2>2, <3>1, <3>2, SkipStep DEF Skip, ManifestOut
    <3>3. CASE Skip("min") /\ manifest /\ disk["manifest"] = "none"
      BY <2>2, <3>1, <3>3, SkipStep DEF Skip, ManifestOut
    <3>4. CASE MoveOut("manifest", "td/manifest.orig", "min") /\ manifest
      BY <2>2, <3>1, <3>4, OutStep DEF MoveOut, ManifestOut
    <3>5. QED
      BY <2>2, <3>2, <3>3, <3>4 DEF ManifestOut
  <2>3. CASE LockOut
    <3>1. /\ "lock" \in Target /\ Want("lock") = writeLock
          /\ MovingOut("lock") = "lout" /\ MovingIn("lock") = "lin"
          /\ MovedIn("lock") = "vout" /\ Bak("lock") = "td/lock.orig"
          /\ "td/lock.orig" \in Place
      BY DEF Target, Want, MovingOut, MovingIn, MovedIn, Bak, Place, Scratch
    <3>2. CASE Skip("vout") /\ ~ writeLock
      BY <2>3, <3>1, <3>2, SkipStep DEF Skip, LockOut
    <3>3. CASE Skip("lin") /\ writeLock /\ disk["lock"] = "none"
      BY <2>3, <3>1, <3>3, SkipStep DEF Skip, LockOut
    <3>4. CASE MoveOut("lock", "td/lock.orig", "lin") /\ writeLock
      BY <2>3, <3>1, <3>4, OutStep DEF MoveOut, LockOut
    <3>5. QED
      BY <2>3, <3>2, <3>3, <3>4 DEF LockOut
  <2>4. CASE VendorOut
    <3>1. /\ "vendor" \in Target /\ Want("vendor") = writeVendor
          /\ MovingOut("vendor") = "vout" /\ MovingIn("vendor") = "vin"
          /\ MovedIn("vendor") = "cleanup"
      BY DEF Target, Want, MovingOut, MovingIn, MovedIn
    <3>2. CASE Skip("cleanup") /\ UNCHANGED vendorbak /\ ~ writeVendor
      BY <2>4, <3>1, <3>2, SkipStep DEF Skip, VendorOut
    <3>3. CASE Skip("vin") /\ UNCHANGED vendorbak /\ writeVendor /\ disk["vendor"] = "none"
      BY <2>4, <3>1, <3>3, SkipStep DEF Skip, VendorOut
    <3>4. CASE /\ vendorbak' = IF disk["vendor.orig"] = "none"
                                 THEN "vendor.orig" ELSE "td/.vendor.orig"
               /\ MoveOut("vendor", vendorbak', "vin") /\ writeVendor
      <4>1. vendorbak' \in BakDirs /\ vendorbak' \in Place
        BY <3>4 DEF BakDirs, Place, Scratch
      <4>2. QED
        BY <2>4, <3>1, <3>4, <4>1, OutStep DEF MoveOut, VendorOut
    <3>5. QED
      BY <2>4, <3>2, <3>3, <3>4 DEF VendorOut
  <2>5. CASE ManifestIn \/ LockIn \/ VendorIn
    BY <2>5, InStep DEF ManifestIn, LockIn, VendorIn, MovingIn, MovedIn, Tmp, Target
  <2>6. CASE Cleanup
    BY <2>6, CleanupStep
  <2>7. CASE Restore
    BY <2>7, RestoreStep
  <2>8. CASE RemoveScratch
    BY <2>8, RemoveScratchStep
  <2>9. CASE Crash
    <3>1. /\ UNCHANGED <<device, before, manifest, writeLock, writeVendor, disk, restore, vendorbak, undone>>
          /\ pc' = "crashed"
      BY <2>9 DEF Crash, swArgs
    <3>2. NeverLost'
      BY <3>1, NothingLost DEF NeverLost, Places
    <3>3. SwTypes'
      BY <3>1 DEF SwInv, SwTypes
    <3>4. RestoreShape'
      BY <3>1, RestoreKept DEF SwInv, Ahead, Forward
    <3>5. ASSUME NEW t \in Target PROVE TargetInv(t)'
      <4>1. "crashed" \notin Ahead(t)' \cup Behind(t)' \cup {MovingIn(t)'} \cup Forward
        BY DEF Ahead, Behind, MovingIn, Forward, Target
      <4>2. QED
        BY <3>1, <4>1 DEF TargetInv
    <3>6. QED
      BY <3>2, <3>3, <3>4, <3>5 DEF SwInv
  <2>10. CASE UNCHANGED swVars
    <3>1. UNCHANGED <<device, before, manifest, writeLock, writeVendor, disk, restore, vendorbak, undone, pc>>
      BY <2>10 DEF swVars
    <3>2. NeverLost' = NeverLost
      BY <3>1 DEF NeverLost, Places
    <3>3. SwTypes' /\ RestoreShape'
      BY <3>1, RestoreKept DEF SwInv, SwTypes, Ahead
    <3>4. ASSUME NEW t \in Target PROVE TargetInv(t)'
      <4>1. /\ Want(t)' = Want(t) /\ Tmp(t)' = Tmp(t) /\ Whole(t)' = Whole(t)
            /\ Ahead(t)' = Ahead(t) /\ Behind(t)' = Behind(t) /\ MovingIn(t)' = MovingIn(t)
        BY <3>1 DEF Want, Tmp, Whole, Ahead, Behind, MovingIn
      <4>2. Waits(t)' = Waits(t) /\ Aside(t)' = Aside(t)
        BY <3>1 DEF Aside, Waits, Pending, Bak
      <4>3. TargetInv(t)
        BY DEF SwInv
      <4>4. QED
        BY <3>1, <4>1, <4>2, <4>3 DEF TargetInv
    <3>5. QED
      BY <3>1, <3>2, <3>3, <3>4 DEF SwInv
  <2>11. QED
    BY <2>1, <2>2, <2>3, <2>4, <2>5, <2>6, <2>7, <2>8, <2>9, <2>10 DEF SwNext
<1>3. SwInv => TargetsSafe
  <2> SUFFICES ASSUME SwInv PROVE TargetsSafe
    OBVIOUS
  <2>1. RollbackRestores
    BY DEF SwInv, TargetInv, RollbackRestores, Whole
  <2>2. SuccessIsComplete
    BY DEF SwInv, TargetInv, SuccessIsComplete, Want, Target
  <2>3. QED
    BY <2>1, <2>2, NothingLost DEF TargetsSafe
<1>4. QED
  BY <1>1, <1>2, <1>3, PTL DEF SwSpec
=============================================================================
