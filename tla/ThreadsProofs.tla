----------------------------- MODULE ThreadsProofs ------------------------------
(***************************************************************************)
(* What the list of eligible threads of a partition goes through.  A lemma   *)
(* for each of thread_set_eligible, thread_set_uneligible, thread_yield and  *)
(* thread_wake_up says that the list stays sorted by priority, which threads *)
(* it then holds, and that no thread passes another one that it should not:  *)
(* the parts of EligibleQueue and PlacesKept that do not depend on which     *)
(* call is made.                                                           *)
(*                                                                         *)
(* The operators on lists are recursive functions.  That such a function     *)
(* exists, and what it returns, is proved from the least number principle    *)
(* (Least): the induction theorems of the library have an operator as a      *)
(* parameter, this one has a set.                                          *)
(***************************************************************************)
EXTENDS Threads, TLAPS, WellFoundedInduction, NaturalsInduction, FiniteSetTheorems

(* Every set of natural numbers that is not empty has a least element.     *)
LEMMA Least ==
  ASSUME NEW S \in SUBSET Nat, S # {}
  PROVE  \E m \in S : \A k \in S : m <= k
<1> DEFINE R == OpToRel(<, Nat)
<1>1. IsWellFoundedOn(R, Nat)
  BY NatLessThanWellFounded
<1> HIDE DEF R
<1>2. \E m \in S : \A k \in S : <<k, m>> \notin R
  BY <1>1, WFMin
<1>3. ASSUME NEW m \in S, NEW k \in S, <<k, m>> \notin R PROVE m <= k
  BY <1>3 DEF R, OpToRel
<1> QED
  BY <1>2, <1>3

(* Induction over 0 .. N: a set that holds 0, and n when it holds n - 1,   *)
(* holds them all.                                                         *)
LEMMA Upwards ==
  ASSUME NEW N \in Nat, NEW S, 0 \in S,
         \A n \in 1 .. N : n - 1 \in S => n \in S
  PROVE  \A n \in 0 .. N : n \in S
<1> DEFINE Out == {n \in 0 .. N : n \notin S}
<1> SUFFICES ASSUME Out # {} PROVE FALSE
  OBVIOUS
<1>a. Out \in SUBSET Nat
  OBVIOUS
<1>b. \A n \in 0 .. N : n \notin Out => n \in S
  OBVIOUS
<1>c. Out \in SUBSET (0 .. N) /\ 0 \notin Out /\ Out \intersect S = {}
  OBVIOUS
<1> HIDE DEF Out
<1>1. PICK m \in Out : \A k \in Out : m <= k
  BY <1>a, Least
<1>2. m \in 1 .. N /\ m - 1 \in 0 .. N /\ ~ (m <= m - 1)
  BY <1>c
<1>3. m - 1 \in S
  BY <1>1, <1>2, <1>b
<1> QED
  BY <1>2, <1>3, <1>c

(* f is computed step by step from a, the step n being the function H[n].  *)
Iterates(f, N, a, H) == f[0] = a /\ \A n \in 1 .. N : f[n] = H[n][f[n - 1]]

(* Such a function exists: it is what a recursive definition of the list   *)
(* operators denotes.                                                      *)
LEMMA Recursion ==
  ASSUME NEW N, NEW X, NEW a, NEW H, N \in Nat, a \in X, H \in [1 .. N -> [X -> X]]
  PROVE  \E f \in [0 .. N -> X] : Iterates(f, N, a, H)
<1> DEFINE Upto(m) == {f \in [0 .. m -> X] :
                         f[0] = a /\ \A n \in 1 .. m : f[n] = H[n][f[n - 1]]}
           S == {m \in 0 .. N : Upto(m) # {}}
<1>1. 0 \in S
  <2>1. [n \in 0 .. 0 |-> a] \in Upto(0)
    OBVIOUS
  <2> QED
    BY <2>1
<1>2. ASSUME NEW m \in 1 .. N, m - 1 \in S PROVE m \in S
  <2>1. PICK f \in [0 .. m - 1 -> X] : f[0] = a /\ \A n \in 1 .. m - 1 : f[n] = H[n][f[n - 1]]
    BY <1>2
  <2> DEFINE g == [n \in 0 .. m |-> IF n = m THEN H[m][f[m - 1]] ELSE f[n]]
  <2>2. H[m][f[m - 1]] \in X
    OBVIOUS
  <2>3. g \in [0 .. m -> X] /\ g[0] = a
    BY <2>1, <2>2
  <2>4. ASSUME NEW n \in 1 .. m PROVE g[n] = H[n][g[n - 1]]
    <3>1. g[n - 1] = f[n - 1]
      OBVIOUS
    <3>2. CASE n = m
      BY <3>1, <3>2
    <3>3. CASE n # m
      BY <3>1, <3>3, <2>1
    <3> QED
      BY <3>2, <3>3
  <2>5. g \in Upto(m)
    BY <2>3, <2>4
  <2> QED
    BY <2>5
<1>3. \A m \in 1 .. N : m - 1 \in S => m \in S
  BY <1>2
<1> HIDE DEF S
<1>4. \A m \in 0 .. N : m \in S
  BY <1>1, <1>3, Upwards
<1> QED
  BY <1>4 DEF S, Iterates

(* Whatever satisfies such an equation takes its values in the set that its*)
(* steps keep.                                                             *)
LEMMA RecursionTyped ==
  ASSUME NEW N \in Nat, NEW X, NEW f, f[0] \in X,
         \A n \in 1 .. N : f[n - 1] \in X => f[n] \in X
  PROVE  \A n \in 0 .. N : f[n] \in X
<1> DEFINE S == {n \in 0 .. N : f[n] \in X}
<1>1. 0 \in S /\ \A n \in 1 .. N : n - 1 \in S => n \in S
  OBVIOUS
<1> HIDE DEF S
<1>2. \A n \in 0 .. N : n \in S
  BY <1>1, Upwards
<1> QED
  BY <1>2 DEF S

(* kept[n] is what the first n threads of q leave when those of S are taken*)
(* out.                                                                    *)
Drops(kept, q, S) ==
  /\ Without(q, S) = kept[Len(q)] /\ kept[0] = <<>>
  /\ \A n \in 1 .. Len(q) :
       kept[n] = IF q[n] \in S THEN kept[n - 1] ELSE Append(kept[n - 1], q[n])

(* The recursive definition of Without (thread_set_uneligible, list_del) can*)
(* be unfolded.                                                            *)
LEMMA DropsExist ==
  ASSUME NEW X, NEW q, NEW S, Len(q) \in Nat, \A n \in 1 .. Len(q) : q[n] \in S \union X
  PROVE  \E kept \in [0 .. Len(q) -> Seq(X)] : Drops(kept, q, S)
<1> DEFINE N == Len(q)
           Y == Seq(X)
           Step(n, p) == IF q[n] \in S THEN p ELSE Append(p, q[n])
           Is(f) == f = [n \in 0 .. N |-> IF n = 0 THEN <<>> ELSE Step(n, f[n - 1])]
           kept == CHOOSE f : Is(f)
           H == [n \in 1 .. N |-> [p \in Y |-> Step(n, p)]]
<1>1. Without(q, S) = kept[N]
  BY DEF Without
<1>2. N \in Nat /\ <<>> \in Y
  OBVIOUS
<1>3. ASSUME NEW n \in 1 .. N, NEW p \in Y PROVE Step(n, p) \in Y
  OBVIOUS
<1> SUFFICES \E f \in [0 .. N -> Y] : kept = f /\ f[0] = <<>>
                                    /\ \A n \in 1 .. N : f[n] = Step(n, f[n - 1])
  BY <1>1 DEF Drops
<1> HIDE DEF N, Y, Step
<1>4. H \in [1 .. N -> [Y -> Y]] /\ \A n \in 1 .. N, p \in Y : H[n][p] = Step(n, p)
  BY <1>3
<1> HIDE DEF H
<1>5. PICK f \in [0 .. N -> Y] : Iterates(f, N, <<>>, H)
  <2>1. N \in Nat /\ <<>> \in Y /\ H \in [1 .. N -> [Y -> Y]]
    BY <1>2, <1>4
  <2> QED
    BY <2>1, Recursion
<1>6. \A n \in 1 .. N : f[n] = Step(n, f[n - 1])
  BY <1>2, <1>4, <1>5 DEF Iterates
<1>7. Is(f)
  BY <1>2, <1>5, <1>6 DEF Iterates
<1>8. Is(kept)
  BY <1>7
<1> HIDE DEF kept
<1>9. kept[0] = <<>> /\ \A n \in 1 .. N : kept[n] = Step(n, kept[n - 1])
  BY <1>2, <1>8
<1>10. kept[0] \in Y /\ \A n \in 1 .. N : kept[n - 1] \in Y => kept[n] \in Y
  BY <1>2, <1>3, <1>9
<1>11. \A n \in 0 .. N : kept[n] \in Y
  BY <1>2, <1>10, RecursionTyped
<1>12. kept \in [0 .. N -> Y]
  BY <1>8, <1>11
<1> QED
  BY <1>9, <1>12

LEMMA WithoutUnfolds ==
  ASSUME NEW q \in Seq(Threads), NEW S
  PROVE  \E kept \in [0 .. Len(q) -> Seq(Threads)] : Drops(kept, q, S)
<1>1. Len(q) \in Nat /\ \A n \in 1 .. Len(q) : q[n] \in S \union Threads
  OBVIOUS
<1> QED
  BY <1>1, DropsExist

(* A list has its threads at the positions 1 .. Len, and nothing else.     *)
LEMMA Members ==
  ASSUME NEW q \in Seq(Threads)
  PROVE  /\ Len(q) \in Nat /\ DOMAIN q = 1 .. Len(q)
         /\ \A i \in 1 .. Len(q) : q[i] \in Threads
         /\ ToSet(q) = {q[i] : i \in 1 .. Len(q)} /\ ToSet(q) \subseteq Threads
BY DEF ToSet

(* t is one of the first n threads of q and not in S.                      *)
From(q, n, S, t) == t \notin S /\ \E k \in 1 .. n : q[k] = t
(* t is in front of u among the first n threads of q.                      *)
Ordered(q, n, t, u) == \E k, l \in 1 .. n : k < l /\ q[k] = t /\ q[l] = u

(* p is what is left of the first n threads of q without those of S, in    *)
(* their order.                                                            *)
Left(p, q, n, S) ==
  /\ \A i \in 1 .. Len(p) : From(q, n, S, p[i])
  /\ \A t : From(q, n, S, t) => \E i \in 1 .. Len(p) : p[i] = t
  /\ \A i, j \in 1 .. Len(p) : i < j => Ordered(q, n, p[i], p[j])

(* One more thread of q is looked at: it is taken out or goes to the end.  *)
LEMMA LeftStep ==
  ASSUME NEW q \in Seq(Threads), NEW S, NEW n \in 1 .. Len(q),
         NEW p \in Seq(Threads), Left(p, q, n - 1, S)
  PROVE  Left(IF q[n] \in S THEN p ELSE Append(p, q[n]), q, n, S)
<1>1. n \in Nat /\ Len(p) \in Nat /\ q[n] \in Threads
  OBVIOUS
<1>2. ASSUME NEW t, NEW u, Ordered(q, n - 1, t, u) PROVE Ordered(q, n, t, u)
  BY <1>2 DEF Ordered
<1>3. CASE q[n] \in S
  <2>1. ASSUME NEW t PROVE From(q, n, S, t) <=> From(q, n - 1, S, t)
    BY <1>3 DEF From
  <2> QED
    BY <1>2, <1>3, <2>1 DEF Left
<1>4. CASE q[n] \notin S
  <2> DEFINE r == Append(p, q[n])
  <2>1. ASSUME NEW t PROVE From(q, n, S, t) <=> t = q[n] \/ From(q, n - 1, S, t)
    BY <1>4 DEF From
  <2>2. ASSUME NEW t, From(q, n - 1, S, t) PROVE Ordered(q, n, t, q[n])
    BY <2>2 DEF From, Ordered
  <2>3. /\ Len(r) = Len(p) + 1 /\ r[Len(r)] = q[n]
        /\ \A i \in 1 .. Len(p) : r[i] = p[i]
    BY <1>1
  <2> HIDE DEF r
  <2>4. ASSUME NEW i \in 1 .. Len(r) PROVE From(q, n, S, r[i])
    <3>1. CASE i = Len(r)
      BY <2>1, <2>3, <3>1
    <3>2. CASE i # Len(r)
      <4>1. i \in 1 .. Len(p) /\ r[i] = p[i]
        BY <1>1, <2>3, <3>2
      <4> QED
        BY <2>1, <4>1 DEF Left
    <3> QED
      BY <3>1, <3>2
  <2>5. ASSUME NEW t, From(q, n, S, t) PROVE \E i \in 1 .. Len(r) : r[i] = t
    <3>1. CASE t = q[n]
      BY <1>1, <2>3, <3>1
    <3>2. CASE t # q[n]
      <4>1. PICK i \in 1 .. Len(p) : p[i] = t
        BY <2>1, <2>5, <3>2 DEF Left
      <4> QED
        BY <1>1, <2>3, <4>1
    <3> QED
      BY <3>1, <3>2
  <2>6. ASSUME NEW i \in 1 .. Len(r), NEW j \in 1 .. Len(r), i < j
        PROVE  Ordered(q, n, r[i], r[j])
    <3>1. i \in 1 .. Len(p) /\ r[i] = p[i]
      BY <1>1, <2>3, <2>6
    <3>2. CASE j = Len(r)
      BY <2>2, <2>3, <3>1, <3>2 DEF Left
    <3>3. CASE j # Len(r)
      <4>1. j \in 1 .. Len(p) /\ r[j] = p[j]
        BY <1>1, <2>3, <3>3
      <4>2. Ordered(q, n - 1, p[i], p[j])
        BY <2>6, <3>1, <4>1 DEF Left
      <4> QED
        BY <1>2, <3>1, <4>1, <4>2
    <3> QED
      BY <3>2, <3>3
  <2>7. Left(r, q, n, S)
    BY <2>4, <2>5, <2>6 DEF Left
  <2> QED
    BY <1>4, <2>7 DEF r
<1> QED
  BY <1>3, <1>4

(* Taking threads out of a list removes exactly these and keeps the order of*)
(* the others.                                                             *)
LEMMA WithoutOK ==
  ASSUME NEW q \in Seq(Threads), NEW S
  PROVE  /\ Without(q, S) \in Seq(Threads)
         /\ ToSet(Without(q, S)) = ToSet(q) \ S
         /\ \A t, u \in Threads : Before(Without(q, S), t, u) => Before(q, t, u)
<1>1. PICK kept \in [0 .. Len(q) -> Seq(Threads)] : Drops(kept, q, S)
  BY WithoutUnfolds
<1> DEFINE G == {n \in 0 .. Len(q) : Left(kept[n], q, n, S)}
           r == Without(q, S)
<1>2. 0 \in G
  BY <1>1 DEF Left, From, Drops
<1>3. ASSUME NEW n \in 1 .. Len(q), n - 1 \in G PROVE n \in G
  <2>1. /\ Left(kept[n - 1], q, n - 1, S) /\ kept[n - 1] \in Seq(Threads)
        /\ kept[n] = IF q[n] \in S THEN kept[n - 1] ELSE Append(kept[n - 1], q[n])
    BY <1>1, <1>3 DEF Drops
  <2>2. Left(kept[n], q, n, S)
    BY <2>1, LeftStep
  <2> QED
    BY <2>2
<1>4. \A n \in 1 .. Len(q) : n - 1 \in G => n \in G
  BY <1>3
<1>5. Len(q) \in G
  <2> HIDE DEF G
  <2>1. Len(q) \in Nat
    OBVIOUS
  <2>2. \A n \in 0 .. Len(q) : n \in G
    BY <1>2, <1>4, <2>1, Upwards
  <2> QED
    BY <2>1, <2>2
<1>6. r \in Seq(Threads) /\ Left(r, q, Len(q), S)
  BY <1>1, <1>5 DEF Drops
<1> HIDE DEF r, G
<1>7. ToSet(r) = ToSet(q) \ S
  <2>1. ASSUME NEW t PROVE From(q, Len(q), S, t) <=> t \in ToSet(q) \ S
    BY Members DEF From
  <2>2. ASSUME NEW t PROVE t \in ToSet(r) <=> \E i \in 1 .. Len(r) : r[i] = t
    BY <1>6, Members
  <2> QED
    BY <1>6, <2>1, <2>2 DEF Left
<1>8. ASSUME NEW t \in Threads, NEW u \in Threads, Before(r, t, u) PROVE Before(q, t, u)
  <2>1. PICK i \in 1 .. Len(r), j \in 1 .. Len(r) : i < j /\ r[i] = t /\ r[j] = u
    BY <1>6, <1>8, Members DEF Before
  <2>2. Ordered(q, Len(q), t, u)
    BY <1>6, <2>1 DEF Left
  <2> QED
    BY <2>2, Members DEF Ordered, Before
<1> QED
  BY <1>6, <1>7, <1>8 DEF r

(* A list of threads, once each, by decreasing priority.                   *)
Sorted(q, prio) ==
  \A t, u \in Threads : Before(q, t, u) => t # u /\ prio[t] >= prio[u]

(* The same said with positions, as EligibleQueue does.                    *)
LEMMA SortedIndices ==
  ASSUME NEW q \in Seq(Threads), NEW prio
  PROVE  Sorted(q, prio) <=> \A i, j \in DOMAIN q : i < j => q[i] # q[j] /\ prio[q[i]] >= prio[q[j]]
BY Members DEF Sorted, Before

(* thread_set_eligible puts the thread t at the position k: behind those of*)
(* its priority and in front of the first of a lower one.                  *)
Place(q, t, prio, k) ==
  /\ k \in 1 .. Len(q) + 1
  /\ \A i \in 1 .. Len(q) : i < k => prio[q[i]] >= prio[t]
  /\ k \in 1 .. Len(q) => prio[q[k]] < prio[t]

(* The position found by the loop of thread_set_eligible is that one.      *)
LEMMA EnqueuePlace ==
  ASSUME NEW q \in Seq(Threads), NEW t \in Threads, NEW prio \in [Threads -> Nat]
  PROVE  \E k : Place(q, t, prio, k) /\ Enqueue(q, t, prio) = InsertAt(q, k, t)
<1> DEFINE I == {i \in 1 .. Len(q) : prio[q[i]] < prio[t]}
<1>1. Len(q) \in Nat /\ \A i \in 1 .. Len(q) : prio[q[i]] \in Nat
  OBVIOUS
<1>2. SelectInSeq(q, LAMBDA u : prio[u] < prio[t]) = IF I # {} THEN Min(I) ELSE 0
  BY DEF SelectInSeq
<1>3. CASE I = {}
  <2>1. Enqueue(q, t, prio) = InsertAt(q, Len(q) + 1, t)
    BY <1>2, <1>3 DEF Enqueue
  <2>2. Place(q, t, prio, Len(q) + 1)
    BY <1>1, <1>3 DEF Place
  <2> QED
    BY <2>1, <2>2
<1>4. CASE I # {}
  <2>1. I \in SUBSET Nat
    OBVIOUS
  <2>2. \E m \in I : \A i \in I : m <= i
    <3> HIDE DEF I
    <3> QED
      BY <1>4, <2>1, Least
  <2>3. Min(I) \in I /\ \A i \in I : Min(I) <= i
    <3> HIDE DEF I
    <3> QED
      BY <2>2 DEF Min
  <2>4. Enqueue(q, t, prio) = InsertAt(q, Min(I), t)
    BY <1>2, <1>4, <2>3 DEF Enqueue
  <2>5. Place(q, t, prio, Min(I))
    <3> DEFINE m == Min(I)
    <3>1. m \in 1 .. Len(q) /\ prio[q[m]] < prio[t]
      BY <2>3
    <3>2. \A i \in 1 .. Len(q) : i < m => i \notin I
      BY <1>1, <2>3
    <3> HIDE DEF m
    <3>3. \A i \in 1 .. Len(q) : i < m => prio[q[i]] >= prio[t]
      BY <1>1, <3>2
    <3>4. Place(q, t, prio, m)
      BY <1>1, <3>1, <3>3 DEF Place
    <3> QED
      BY <3>4 DEF m
  <2> QED
    BY <2>4, <2>5
<1> QED
  BY <1>3, <1>4

(* r is q with t inserted at the position k.                               *)
Insertion(r, q, k, t) ==
  /\ r \in Seq(Threads) /\ Len(r) = Len(q) + 1
  /\ \A i \in 1 .. Len(q) + 1 :
       r[i] = IF i < k THEN q[i] ELSE IF i = k THEN t ELSE q[i - 1]

(* What list_add_tail in front of an element does to a list.               *)
LEMMA Inserted ==
  ASSUME NEW q \in Seq(Threads), NEW t \in Threads, NEW k \in 1 .. Len(q) + 1
  PROVE  Insertion(InsertAt(q, k, t), q, k, t)
<1> DEFINE a == SubSeq(q, 1, k - 1)
           b == SubSeq(q, k, Len(q))
<1>1. /\ a \in Seq(Threads) /\ Len(a) = k - 1
      /\ \A i \in 1 .. k - 1 : a[i] = q[i]
  OBVIOUS
<1>2. /\ b \in Seq(Threads) /\ Len(b) = Len(q) - k + 1
      /\ \A i \in 1 .. Len(q) - k + 1 : b[i] = q[i + k - 1]
  OBVIOUS
<1>3. InsertAt(q, k, t) = a \o <<t>> \o b
  BY DEF InsertAt
<1> DEFINE c == a \o <<t>>
<1>4. /\ c \in Seq(Threads) /\ Len(c) = k /\ c[k] = t
      /\ \A i \in 1 .. k - 1 : c[i] = q[i]
  <2> HIDE DEF a
  <2> QED
    BY <1>1
<1> HIDE DEF b, c
<1>5. /\ c \o b \in Seq(Threads) /\ Len(c \o b) = Len(q) + 1
      /\ \A i \in 1 .. k : (c \o b)[i] = c[i]
      /\ \A i \in k + 1 .. Len(q) + 1 : (c \o b)[i] = b[i - k]
  BY <1>2, <1>4
<1>6. \A i \in k + 1 .. Len(q) + 1 : b[i - k] = q[i - 1]
  BY <1>2
<1>7. InsertAt(q, k, t) = c \o b
  BY <1>3 DEF c
<1> HIDE DEF a
<1> QED
  BY <1>4, <1>5, <1>6, <1>7 DEF Insertion

(* thread_set_eligible: t is added, the others keep their order, and in a  *)
(* sorted list without t the result is sorted and t is behind all those of *)
(* its priority.                                                           *)
LEMMA EnqueueOK ==
  ASSUME NEW q \in Seq(Threads), NEW t \in Threads, NEW prio \in [Threads -> Nat]
  PROVE  LET r == Enqueue(q, t, prio) IN
         /\ r \in Seq(Threads) /\ ToSet(r) = ToSet(q) \union {t}
         /\ \A u, v \in Threads \ {t} : Before(r, u, v) => Before(q, u, v)
         /\ t \notin ToSet(q) /\ Sorted(q, prio) =>
              /\ Sorted(r, prio)
              /\ \A u \in Threads : Before(r, t, u) => prio[u] < prio[t]
<1> DEFINE r == Enqueue(q, t, prio)
<1>1. PICK k : Place(q, t, prio, k) /\ r = InsertAt(q, k, t)
  BY EnqueuePlace
<1>2. /\ k \in 1 .. Len(q) + 1 /\ r \in Seq(Threads) /\ Len(r) = Len(q) + 1
      /\ \A i \in 1 .. Len(q) + 1 :
           r[i] = IF i < k THEN q[i] ELSE IF i = k THEN t ELSE q[i - 1]
  <2>1. k \in 1 .. Len(q) + 1
    BY <1>1 DEF Place
  <2>2. Insertion(r, q, k, t)
    BY <1>1, <2>1, Inserted
  <2> QED
    BY <2>1, <2>2 DEF Insertion
<1> HIDE DEF r
<1>3. Len(q) \in Nat /\ \A i \in 1 .. Len(q) : q[i] \in Threads /\ prio[q[i]] \in Nat
  OBVIOUS
<1> DEFINE at(i) == IF i < k THEN i ELSE i - 1
<1>a. k \in 1 .. Len(r) /\ r[k] = t
  BY <1>2, <1>3
<1>b. \A i \in 1 .. Len(r) : i < k => i \in 1 .. Len(q) /\ r[i] = q[i]
  BY <1>2, <1>3
<1>c. \A i \in 1 .. Len(r) : k < i => i - 1 \in 1 .. Len(q) /\ ~ (i - 1 < k) /\ r[i] = q[i - 1]
  BY <1>2, <1>3
<1>d. \A i \in 1 .. Len(q) : i < k => i \in 1 .. Len(r) /\ r[i] = q[i]
  BY <1>2, <1>3
<1>e. ASSUME NEW i \in 1 .. Len(q), ~ (i < k) PROVE i + 1 \in 1 .. Len(r) /\ r[i + 1] = q[i]
  <2>1. i + 1 \in 1 .. Len(q) + 1 /\ ~ (i + 1 < k) /\ i + 1 # k /\ i + 1 - 1 = i
    BY <1>2, <1>3, <1>e
  <2> QED
    BY <1>2, <2>1
<1>4. \A i \in 1 .. Len(r) : i # k => at(i) \in 1 .. Len(q) /\ r[i] = q[at(i)]
  BY <1>b, <1>c, <1>2, <1>3
<1>5. ASSUME NEW i \in 1 .. Len(r), NEW j \in 1 .. Len(r), i < j, i # k, j # k
      PROVE  at(i) < at(j)
  <2>1. i \in Int /\ j \in Int /\ k \in Int
    BY <1>2, <1>3
  <2> QED
    BY <1>5, <2>1
<1>6. ToSet(r) = ToSet(q) \union {t}
  <2>1. ASSUME NEW i \in 1 .. Len(q) PROVE \E j \in 1 .. Len(r) : r[j] = q[i]
    BY <1>d, <1>e
  <2>2. \A i \in 1 .. Len(r) : r[i] = t \/ \E j \in 1 .. Len(q) : r[i] = q[j]
    <3> HIDE DEF at
    <3> QED
      BY <1>4, <1>a
  <2>3. ToSet(r) = {r[i] : i \in 1 .. Len(r)} /\ ToSet(q) = {q[i] : i \in 1 .. Len(q)}
    BY <1>2, Members
  <2> QED
    BY <1>a, <2>1, <2>2, <2>3
<1>7. ASSUME NEW u \in Threads, NEW v \in Threads, Before(r, u, v), u # t, v # t
      PROVE  Before(q, u, v)
  <2>1. PICK i \in 1 .. Len(r), j \in 1 .. Len(r) : i < j /\ r[i] = u /\ r[j] = v
    BY <1>2, <1>7, Members DEF Before
  <2>2. i # k /\ j # k
    BY <1>a, <1>7, <2>1
  <2> HIDE DEF at
  <2> QED
    BY <1>4, <1>5, <2>1, <2>2, Members DEF Before
<1>8. ASSUME t \notin ToSet(q), Sorted(q, prio)
      PROVE  Sorted(r, prio) /\ \A u \in Threads : Before(r, t, u) => prio[u] < prio[t]
  <2>1. \A i, j \in 1 .. Len(q) : i < j => q[i] # q[j] /\ prio[q[i]] >= prio[q[j]]
    BY <1>8, SortedIndices, Members
  <2>2. \A i \in 1 .. Len(q) : q[i] # t
    BY <1>8, Members
  <2>3. \A i \in 1 .. Len(q) : i < k => prio[q[i]] >= prio[t]
    BY <1>1 DEF Place
  <2>4. ASSUME NEW i \in 1 .. Len(q), ~ (i < k) PROVE prio[q[i]] < prio[t]
    <3>1. k \in 1 .. Len(q) /\ prio[q[k]] < prio[t]
      BY <1>1, <1>2, <1>3, <2>4 DEF Place
    <3>2. prio[q[k]] >= prio[q[i]]
      BY <1>3, <2>1, <2>4, <3>1
    <3> QED
      BY <1>3, <3>1, <3>2
  <2>5. ASSUME NEW j \in 1 .. Len(r), k < j PROVE r[j] # t /\ prio[r[j]] < prio[t]
    BY <1>c, <2>2, <2>4, <2>5
  <2>6. ASSUME NEW i \in 1 .. Len(r), i < k PROVE r[i] # t /\ prio[r[i]] >= prio[t]
    BY <1>b, <2>2, <2>3, <2>6
  <2>7. ASSUME NEW i \in 1 .. Len(r), NEW j \in 1 .. Len(r), i < j
        PROVE  r[i] # r[j] /\ prio[r[i]] >= prio[r[j]]
    <3>1. CASE i = k
      <4>1. prio[t] \in Nat /\ prio[r[j]] \in Nat
        BY <1>2
      <4> QED
        BY <1>a, <2>5, <2>7, <3>1, <4>1
    <3>2. CASE j = k
      BY <1>a, <2>6, <2>7, <3>2
    <3>3. CASE i # k /\ j # k
      <4> HIDE DEF at
      <4> QED
        BY <1>4, <1>5, <2>1, <2>7, <3>3
    <3> QED
      BY <3>1, <3>2, <3>3
  <2>8. Sorted(r, prio)
    BY <1>2, <2>7, SortedIndices, Members
  <2>9. ASSUME NEW u \in Threads, Before(r, t, u) PROVE prio[u] < prio[t]
    <3>1. PICK i \in 1 .. Len(r), j \in 1 .. Len(r) : i < j /\ r[i] = t /\ r[j] = u
      BY <1>2, <2>9, Members DEF Before
    <3>2. i = k
      BY <1>2, <1>a, <2>5, <2>6, <3>1
    <3> QED
      BY <2>5, <3>1, <3>2
  <2> QED
    BY <2>8, <2>9
<1> QED
  BY <1>2, <1>6, <1>7, <1>8 DEF r

(* A list in which no thread is twice.                                     *)
OnceEach(ts) == \A i, j \in 1 .. Len(ts) : i < j => ts[i] # ts[j]

(* The fields of the threads that the list is sorted and filtered by.      *)
Typed == suspended \in [Threads -> BOOLEAN] /\ priority \in [Threads -> Nat]

(* A thread that is woken up is or is not added: the list is still one of  *)
(* threads.                                                                *)
LEMMA ReadyTyped ==
  ASSUME Typed, NEW q \in Seq(Threads), NEW t \in Threads
  PROVE  Ready(q, t) \in Seq(Threads)
BY EnqueueOK DEF Ready, Typed

(* after[n] is the list once the first n threads of ts have been woken up. *)
Wakes(after, q, ts) ==
  /\ ReadyAll(q, ts) = after[Len(ts)] /\ after[0] = q
  /\ \A n \in 1 .. Len(ts) : after[n] = Ready(after[n - 1], ts[n])

(* The recursive definition of ReadyAll (a loop of thread_wake_up) can be  *)
(* unfolded.                                                               *)
LEMMA ReadyAllUnfolds ==
  ASSUME Typed, NEW q \in Seq(Threads), NEW ts \in Seq(Threads)
  PROVE  \E after \in [0 .. Len(ts) -> Seq(Threads)] : Wakes(after, q, ts)
<1> DEFINE N == Len(ts)
           X == Seq(Threads)
           Step(n, p) == Ready(p, ts[n])
           Is(f) == f = [n \in 0 .. N |-> IF n = 0 THEN q ELSE Step(n, f[n - 1])]
           after == CHOOSE f : Is(f)
           H == [n \in 1 .. N |-> [p \in X |-> Step(n, p)]]
<1>1. ReadyAll(q, ts) = after[N]
  BY DEF ReadyAll
<1>2. N \in Nat /\ q \in X
  OBVIOUS
<1>3. ASSUME NEW n \in 1 .. N, NEW p \in X PROVE Step(n, p) \in X
  BY ReadyTyped
<1> SUFFICES \E f \in [0 .. N -> X] : after = f /\ f[0] = q
                                    /\ \A n \in 1 .. N : f[n] = Step(n, f[n - 1])
  BY <1>1 DEF Wakes
<1> HIDE DEF N, X, Step
<1>4. H \in [1 .. N -> [X -> X]] /\ \A n \in 1 .. N, p \in X : H[n][p] = Step(n, p)
  BY <1>3
<1> HIDE DEF H
<1>5. PICK f \in [0 .. N -> X] : Iterates(f, N, q, H)
  <2>1. N \in Nat /\ q \in X /\ H \in [1 .. N -> [X -> X]]
    BY <1>2, <1>4
  <2> QED
    BY <2>1, Recursion
<1>6. \A n \in 1 .. N : f[n] = Step(n, f[n - 1])
  BY <1>2, <1>4, <1>5 DEF Iterates
<1>7. Is(f)
  BY <1>2, <1>5, <1>6 DEF Iterates
<1>8. Is(after)
  BY <1>7
<1> HIDE DEF after
<1>9. after[0] = q /\ \A n \in 1 .. N : after[n] = Step(n, after[n - 1])
  BY <1>2, <1>8
<1>10. after[0] \in X /\ \A n \in 1 .. N : after[n - 1] \in X => after[n] \in X
  BY <1>2, <1>3, <1>9
<1>11. \A n \in 0 .. N : after[n] \in X
  BY <1>2, <1>10, RecursionTyped
<1>12. after \in [0 .. N -> X]
  BY <1>8, <1>11
<1> QED
  BY <1>9, <1>12

(* A list of the eligible threads of one kind, S, to which threads of S are  *)
(* added, is one still.                                                    *)
LEMMA ReadyAllWithin ==
  ASSUME Typed, NEW q \in Seq(Threads), NEW ts \in Seq(Threads), NEW S,
         ToSet(q) \subseteq S, ToSet(ts) \subseteq S
  PROVE  ReadyAll(q, ts) \in Seq(Threads) /\ ToSet(ReadyAll(q, ts)) \subseteq S
<1> DEFINE X == {p \in Seq(Threads) : ToSet(p) \subseteq S}
<1>1. PICK after \in [0 .. Len(ts) -> Seq(Threads)] : Wakes(after, q, ts)
  BY ReadyAllUnfolds
<1>2. Len(ts) \in Nat /\ \A n \in 1 .. Len(ts) : ts[n] \in Threads /\ ts[n] \in ToSet(ts)
  BY Members
<1>3. after[0] \in X
  BY <1>1 DEF Wakes
<1>4. ASSUME NEW n \in 1 .. Len(ts), after[n - 1] \in X PROVE after[n] \in X
  <2> DEFINE p == after[n - 1]
             t == ts[n]
  <2>1. p \in Seq(Threads) /\ ToSet(p) \subseteq S /\ t \in Threads /\ t \in S /\ after[n] = Ready(p, t)
    BY <1>1, <1>2, <1>4 DEF Wakes
  <2> HIDE DEF p, t
  <2>2. Enqueue(p, t, priority) \in Seq(Threads) /\ ToSet(Enqueue(p, t, priority)) \subseteq S
    BY <2>1, EnqueueOK DEF Typed
  <2>3. Ready(p, t) \in Seq(Threads) /\ ToSet(Ready(p, t)) \subseteq S
    BY <2>1, <2>2 DEF Ready
  <2> QED
    BY <2>1, <2>3
<1> HIDE DEF X
<1>5. \A n \in 0 .. Len(ts) : after[n] \in X
  BY <1>2, <1>3, <1>4, RecursionTyped
<1>6. after[Len(ts)] \in X
  BY <1>2, <1>5
<1> QED
  BY <1>1, <1>6 DEF Wakes, X

(* Those of the first n threads of ts that are not suspended.              *)
NotSuspended(ts, n) == {t \in Threads : ~suspended[t] /\ \E i \in 1 .. n : ts[i] = t}

(* p is q with those of the first n threads of ts that are not suspended,  *)
(* sorted, and the other threads in their order.                           *)
Woken(p, q, ts, n) ==
  /\ p \in Seq(Threads) /\ Sorted(p, priority)
  /\ ToSet(p) = ToSet(q) \union NotSuspended(ts, n)
  /\ \A u, v \in Threads \ ToSet(ts) : Before(p, u, v) => Before(q, u, v)

(* One more thread of ts is woken up.                                      *)
LEMMA WokenStep ==
  ASSUME Typed, NEW q \in Seq(Threads), NEW ts \in Seq(Threads), OnceEach(ts),
         ToSet(q) \intersect ToSet(ts) = {},
         NEW n \in 1 .. Len(ts), NEW p, Woken(p, q, ts, n - 1)
  PROVE  Woken(Ready(p, ts[n]), q, ts, n)
<1> DEFINE t == ts[n]
<1>1. t \in Threads /\ t \in ToSet(ts) /\ n \in Nat /\ Len(ts) \in Nat
  BY Members
<1>2. ASSUME NEW u \in Threads
      PROVE  u \in NotSuspended(ts, n) <=> u \in NotSuspended(ts, n - 1) \/ (u = t /\ ~suspended[t])
  BY DEF NotSuspended
<1>3. CASE suspended[t]
  <2>1. NotSuspended(ts, n) = NotSuspended(ts, n - 1)
    BY <1>2, <1>3 DEF NotSuspended
  <2> QED
    BY <1>3, <2>1 DEF Woken, Ready
<1>4. CASE ~suspended[t]
  <2>1. NotSuspended(ts, n) = NotSuspended(ts, n - 1) \union {t}
    BY <1>1, <1>2, <1>4 DEF NotSuspended
  <2>2. t \notin NotSuspended(ts, n - 1)
    BY <1>1 DEF NotSuspended, OnceEach
  <2>3. t \notin ToSet(p)
    BY <1>1, <2>2 DEF Woken
  <2> DEFINE r == Enqueue(p, t, priority)
  <2>4. /\ r \in Seq(Threads) /\ Sorted(r, priority)
        /\ ToSet(r) = ToSet(p) \union {t}
        /\ \A u, v \in Threads \ {t} : Before(r, u, v) => Before(p, u, v)
    <3> HIDE DEF t
    <3> QED
      BY <1>1, <2>3, EnqueueOK DEF Woken, Typed
  <2>5. Ready(p, t) = r
    BY <1>4 DEF Ready
  <2> HIDE DEF r, t
  <2>6. Woken(r, q, ts, n)
    BY <1>1, <2>1, <2>4 DEF Woken
  <2> QED
    BY <2>5, <2>6 DEF t
<1> QED
  BY <1>3, <1>4

(* Waking up threads that are not in a sorted list adds those that are not *)
(* suspended, and the list is still sorted.                                *)
LEMMA ReadyAllOK ==
  ASSUME Typed, NEW q \in Seq(Threads), NEW ts \in Seq(Threads), OnceEach(ts),
         Sorted(q, priority), ToSet(q) \intersect ToSet(ts) = {}
  PROVE  Woken(ReadyAll(q, ts), q, ts, Len(ts))
<1>1. PICK after \in [0 .. Len(ts) -> Seq(Threads)] : Wakes(after, q, ts)
  BY ReadyAllUnfolds
<1> DEFINE G == {n \in 0 .. Len(ts) : Woken(after[n], q, ts, n)}
<1>2. 0 \in G
  <2>1. after[0] = q /\ NotSuspended(ts, 0) = {}
    BY <1>1 DEF Wakes, NotSuspended
  <2> QED
    BY <2>1 DEF Woken
<1>3. ASSUME NEW n \in 1 .. Len(ts), n - 1 \in G PROVE n \in G
  <2>1. Woken(after[n - 1], q, ts, n - 1) /\ after[n] = Ready(after[n - 1], ts[n])
    BY <1>1, <1>3 DEF Wakes
  <2>2. Woken(after[n], q, ts, n)
    BY <2>1, WokenStep
  <2> QED
    BY <2>2
<1>4. \A n \in 1 .. Len(ts) : n - 1 \in G => n \in G
  BY <1>3
<1>5. Len(ts) \in G
  <2> HIDE DEF G
  <2>1. Len(ts) \in Nat
    OBVIOUS
  <2>2. \A n \in 0 .. Len(ts) : n \in G
    BY <1>2, <1>4, <2>1, Upwards
  <2> QED
    BY <2>1, <2>2
<1> QED
  BY <1>1, <1>5 DEF Wakes

(* An order in which the threads of a set are woken up lists each of them  *)
(* once.                                                                   *)
LEMMA SeqsOK ==
  ASSUME NEW S \in SUBSET Threads, NEW ts \in SetToSeqs(S)
  PROVE  ts \in Seq(Threads) /\ OnceEach(ts) /\ ToSet(ts) = S
<1> DEFINE N == Cardinality(S)
<1>1. IsFiniteSet(S) /\ N \in Nat
  BY ThreadsAssumption, FS_Subset, FS_CardinalityType
<1>2. ts \in [1 .. N -> S] /\ \A i, j \in 1 .. N : i # j => ts[i] # ts[j]
  BY DEF SetToSeqs
<1>3. IsFiniteSet(1 .. N) /\ Cardinality(1 .. N) = N
  BY <1>1, FS_Interval
<1>4. ts \in Injection(1 .. N, S)
  BY <1>2 DEF Injection, IsInjective
<1>5. ts \in Surjection(1 .. N, S)
  BY <1>1, <1>3, <1>4, FS_Injection
<1>6. \A t \in S : \E i \in 1 .. N : ts[i] = t
  BY <1>5 DEF Surjection
<1> HIDE DEF N
<1>7. ts \in Seq(Threads) /\ Len(ts) = N
  <2>1. ts \in [1 .. N -> Threads]
    BY <1>2
  <2> QED
    BY <1>1, <2>1
<1>8. ToSet(ts) = S
  <2>1. ToSet(ts) = {ts[i] : i \in 1 .. N}
    BY <1>7, Members
  <2> QED
    BY <1>2, <1>6, <2>1
<1> QED
  BY <1>1, <1>2, <1>7, <1>8 DEF OnceEach

(* Threads of which one is in front of the other are in the list.          *)
LEMMA BeforeMembers ==
  ASSUME NEW q \in Seq(Threads), NEW t, NEW u, Before(q, t, u)
  PROVE  t \in ToSet(q) /\ u \in ToSet(q)
BY Members DEF Before

(* In a sorted list, which has every thread once, order is not both ways.  *)
LEMMA NotBothWays ==
  ASSUME NEW q \in Seq(Threads), NEW prio, Sorted(q, prio),
         NEW t, NEW u, Before(q, t, u), Before(q, u, t)
  PROVE  FALSE
<1>1. PICK i \in 1 .. Len(q), j \in 1 .. Len(q) : i < j /\ q[i] = t /\ q[j] = u
  BY Members DEF Before
<1>2. PICK k \in 1 .. Len(q), l \in 1 .. Len(q) : k < l /\ q[k] = u /\ q[l] = t
  BY Members DEF Before
<1>3. \A m, n \in 1 .. Len(q) : m < n => q[m] # q[n]
  BY SortedIndices, Members
<1>4. i = l /\ j = k
  BY <1>1, <1>2, <1>3
<1> QED
  BY <1>1, <1>2, <1>4

(* A sorted list stays sorted when threads are taken out.                  *)
LEMMA SortedWithout ==
  ASSUME NEW q \in Seq(Threads), NEW prio, Sorted(q, prio), NEW S
  PROVE  Sorted(Without(q, S), prio)
BY WithoutOK DEF Sorted

(* Sorted depends on the priorities of the threads in the list only.       *)
LEMMA SortedSame ==
  ASSUME NEW q \in Seq(Threads), NEW prio, NEW prio1, Sorted(q, prio),
         \A t \in ToSet(q) : prio1[t] = prio[t]
  PROVE  Sorted(q, prio1)
BY BeforeMembers DEF Sorted

(* thread_yield, with a new priority or the same: the list has the same    *)
(* threads, is sorted, the others keep their order, and t is in front of   *)
(* those of a lower priority only.                                         *)
LEMMA YieldedOK ==
  ASSUME eligible \in Seq(Threads), Sorted(eligible, priority),
         NEW t \in ToSet(eligible), NEW prio \in [Threads -> Nat],
         \A u \in Threads \ {t} : prio[u] = priority[u]
  PROVE  LET r == Yielded(t, prio) IN
         /\ r \in Seq(Threads) /\ Sorted(r, prio) /\ ToSet(r) = ToSet(eligible)
         /\ \A u, v \in Threads \ {t} : Before(r, u, v) => Before(eligible, u, v)
         /\ \A u \in Threads : Before(r, t, u) => prio[u] < prio[t]
<1> DEFINE w == Without(eligible, {t})
           r == Enqueue(w, t, prio)
<1>1. Yielded(t, prio) = r
  BY DEF Yielded
<1>2. /\ w \in Seq(Threads) /\ ToSet(w) = ToSet(eligible) \ {t} /\ Sorted(w, priority)
      /\ \A u, v \in Threads : Before(w, u, v) => Before(eligible, u, v)
  BY WithoutOK, SortedWithout
<1>3. t \in Threads /\ t \notin ToSet(w) /\ ToSet(w) \subseteq Threads
  BY <1>2, Members
<1> HIDE DEF w
<1>4. Sorted(w, prio)
  BY <1>2, <1>3, SortedSame
<1>5. /\ r \in Seq(Threads) /\ ToSet(r) = ToSet(w) \union {t}
      /\ \A u, v \in Threads \ {t} : Before(r, u, v) => Before(w, u, v)
      /\ Sorted(r, prio)
      /\ \A u \in Threads : Before(r, t, u) => prio[u] < prio[t]
  BY <1>2, <1>3, <1>4, EnqueueOK
<1> HIDE DEF r
<1> QED
  BY <1>1, <1>2, <1>5

(* A list without repetition has as many threads as its length.            *)
LEMMA OnceEachCardinality ==
  ASSUME NEW q \in Seq(Threads), OnceEach(q)
  PROVE  Cardinality(ToSet(q)) = Len(q)
<1>1. Len(q) \in Nat /\ q \in [1 .. Len(q) -> ToSet(q)]
  BY Members
<1>2. \A i, j \in 1 .. Len(q) : q[i] = q[j] => i = j
  BY <1>1 DEF OnceEach
<1>3. q \in Bijection(1 .. Len(q), ToSet(q))
  <2>1. q \in Injection(1 .. Len(q), ToSet(q))
    BY <1>1, <1>2 DEF Injection, IsInjective
  <2>2. q \in Surjection(1 .. Len(q), ToSet(q))
    BY <1>1, Members DEF Surjection
  <2> QED
    BY <2>1, <2>2 DEF Bijection
<1>4. IsFiniteSet(1 .. Len(q)) /\ Cardinality(1 .. Len(q)) = Len(q)
  BY <1>1, FS_Interval
<1> QED
  BY <1>3, <1>4, FS_Bijection DEF ExistsBijection

(* In a program without critical sections no thread is in one, waits for one*)
(* or donates its time.                                                    *)
NoSections ==
  /\ \A t \in Threads : /\ entering[t] = None /\ userEntering[t] = None /\ msectionCount[t] = 0
                        /\ donateTarget[t] = None /\ firstDonator[t] = None /\ nextDonator[t] = None
  /\ waitingSection = None

(* Then select_thread follows no link: the chosen thread is the one that   *)
(* runs, and no section has to be left first.                              *)
LEMMA RunsItself ==
  ASSUME NoSections, NEW t \in Thread0
  PROVE  Runner(t) = t /\ WaitedSection(t) = None
<1>1. CASE t = None
  BY <1>1 DEF Runner, WaitedSection
<1>2. CASE t # None
  <2> DEFINE Step(u) == IF Blocked(u) THEN owner[entering[u]] ELSE u
             Is(f) == f = [i \in 0 .. MaxHops |->
                             IF i = 0 THEN IF donateTarget[t] # None THEN donateTarget[t] ELSE t
                             ELSE Step(f[i - 1])]
             chain == CHOOSE f : Is(f)
  <2>1. Chain(t) = chain
    BY DEF Chain
  <2>2. t \in Threads /\ donateTarget[t] = None /\ ~Blocked(t)
    BY <1>2 DEF Thread0, NoSections, Blocked
  <2>3. Step(t) = t
    BY <2>2
  <2>4. MaxHops \in Nat /\ MaxHops = 5
    BY DEF MaxHops
  <2> HIDE DEF Step, MaxHops
  <2>5. Is([i \in 0 .. MaxHops |-> t])
    BY <2>2, <2>3, <2>4
  <2>6. Is(chain)
    BY <2>5
  <2> HIDE DEF chain
  <2>7. chain[0] = t /\ \A n \in 1 .. MaxHops : chain[n] = Step(chain[n - 1])
    BY <2>2, <2>4, <2>6
  <2>8. chain[0] \in {t} /\ \A n \in 1 .. MaxHops : chain[n - 1] \in {t} => chain[n] \in {t}
    BY <2>3, <2>7
  <2>9. \A n \in 0 .. MaxHops : chain[n] \in {t}
    BY <2>4, <2>8, RecursionTyped
  <2>10. chain[MaxHops] = t
    BY <2>4, <2>9
  <2> QED
    BY <1>2, <2>1, <2>2, <2>7, <2>10 DEF Runner, WaitedSection
<1> QED
  BY <1>1, <1>2

(* The step of PlacesKept.                                                 *)
PlaceKept ==
  \A t, u \in Threads :
    Before(eligible, t, u) /\ Before(eligible', u, t) =>
      \/ priority'[u] > priority'[t]
      \/ \A v \in Threads : Before(eligible', t, v) => priority'[v] < priority'[t]

(* The list of eligible threads is sorted.                                 *)
InOrder == eligible \in Seq(Threads) /\ priority \in [Threads -> Nat] /\ Sorted(eligible, priority)

(* And it is after the step, in which no thread has passed another without *)
(* reason.                                                                 *)
Moves == eligible' \in Seq(Threads) /\ Sorted(eligible', priority') /\ PlaceKept

(* The list does not change, nor the priorities of the threads in it.      *)
LEMMA MoveSame ==
  ASSUME InOrder, eligible' = eligible, \A t \in ToSet(eligible) : priority'[t] = priority[t]
  PROVE  Moves
<1>1. Sorted(eligible, priority')
  BY SortedSame DEF InOrder
<1> QED
  BY <1>1, NotBothWays DEF InOrder, Moves, PlaceKept

(* Threads are taken out (STOP, SUSPEND, a wait).                          *)
LEMMA MoveWithout ==
  ASSUME InOrder, NEW S, eligible' = Without(eligible, S), priority' = priority
  PROVE  Moves /\ ToSet(eligible') = ToSet(eligible) \ S
<1>1. /\ eligible' \in Seq(Threads) /\ Sorted(eligible', priority')
      /\ ToSet(eligible') = ToSet(eligible) \ S
      /\ \A t, u \in Threads : Before(eligible', t, u) => Before(eligible, t, u)
  BY WithoutOK, SortedWithout DEF InOrder
<1> QED
  BY <1>1, NotBothWays DEF InOrder, Moves, PlaceKept

(* A thread is added (START, RESUME, a wake-up), with its own priority     *)
(* changed or not.                                                         *)
LEMMA MoveEnqueue ==
  ASSUME InOrder, NEW t \in Threads, t \notin ToSet(eligible),
         priority' \in [Threads -> Nat], \A u \in ToSet(eligible) : priority'[u] = priority[u],
         eligible' = Enqueue(eligible, t, priority')
  PROVE  Moves /\ ToSet(eligible') = ToSet(eligible) \union {t}
<1>1. Sorted(eligible, priority')
  BY SortedSame DEF InOrder
<1>2. /\ eligible' \in Seq(Threads) /\ Sorted(eligible', priority')
      /\ ToSet(eligible') = ToSet(eligible) \union {t}
      /\ \A u, v \in Threads \ {t} : Before(eligible', u, v) => Before(eligible, u, v)
  BY <1>1, EnqueueOK DEF InOrder
<1>3. ASSUME NEW u \in Threads, NEW v \in Threads, Before(eligible, u, v), Before(eligible', v, u)
      PROVE  FALSE
  <2>1. u # t /\ v # t
    BY <1>3, BeforeMembers DEF InOrder
  <2>2. Before(eligible, v, u)
    BY <1>2, <1>3, <2>1
  <2> QED
    BY <1>3, <2>2, NotBothWays DEF InOrder
<1> QED
  BY <1>2, <1>3 DEF Moves, PlaceKept

(* A thread goes behind those of its priority (YIELD, SET_PRIORITY).       *)
LEMMA MoveYield ==
  ASSUME InOrder, NEW t \in ToSet(eligible), priority' \in [Threads -> Nat],
         \A u \in Threads \ {t} : priority'[u] = priority[u],
         eligible' = Yielded(t, priority')
  PROVE  Moves /\ ToSet(eligible') = ToSet(eligible)
<1>1. /\ eligible' \in Seq(Threads) /\ Sorted(eligible', priority')
      /\ ToSet(eligible') = ToSet(eligible)
      /\ \A u, v \in Threads \ {t} : Before(eligible', u, v) => Before(eligible, u, v)
      /\ \A u \in Threads : Before(eligible', t, u) => priority'[u] < priority'[t]
  BY YieldedOK DEF InOrder
<1>2. ASSUME NEW u \in Threads, NEW v \in Threads, Before(eligible, u, v), Before(eligible', v, u)
      PROVE  \/ priority'[v] > priority'[u]
             \/ \A w \in Threads : Before(eligible', u, w) => priority'[w] < priority'[u]
  <2>1. CASE u = t
    BY <1>1, <2>1
  <2>2. CASE v = t
    BY <1>1, <1>2, <2>2
  <2>3. CASE u # t /\ v # t
    BY <1>1, <1>2, <2>3, NotBothWays DEF InOrder
  <2> QED
    BY <2>1, <2>2, <2>3
<1> QED
  BY <1>1, <1>2 DEF Moves, PlaceKept

(* The list is empty before (start of the mode NORMAL) or after (restart). *)
LEMMA MoveEmpty ==
  ASSUME eligible = <<>> \/ eligible' = <<>>,
         eligible' \in Seq(Threads), Sorted(eligible', priority')
  PROVE  Moves
<1>1. \A t, u : ~Before(<<>>, t, u)
  BY DEF Before
<1> QED
  BY <1>1 DEF Moves, PlaceKept

(* The empty list is sorted and holds no thread.                           *)
LEMMA EmptySorted ==
  ASSUME NEW prio
  PROVE  <<>> \in Seq(Threads) /\ Sorted(<<>>, prio) /\ ToSet(<<>>) = {}
BY DEF Sorted, Before, ToSet

(* Waking up one thread.                                                   *)
LEMMA ReadyOne ==
  ASSUME Typed, NEW q \in Seq(Threads), NEW t \in Threads
  PROVE  ReadyAll(q, <<t>>) = Ready(q, t)
<1>1. <<t>> \in Seq(Threads) /\ Len(<<t>>) = 1 /\ <<t>>[1] = t
  OBVIOUS
<1>2. PICK after \in [0 .. 1 -> Seq(Threads)] : Wakes(after, q, <<t>>)
  BY <1>1, ReadyAllUnfolds
<1> QED
  BY <1>1, <1>2 DEF Wakes
================================================================================
