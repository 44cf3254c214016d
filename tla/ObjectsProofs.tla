------------------------------ MODULE ObjectsProofs ------------------------------
(*****************************************************************************)
(* Mutual exclusion of the critical sections of user space, for every set of *)
(* threads and of sections, every program of every kind of object and every  *)
(* sequence of calls, preemptions, stops and time-outs in which what thread.h*)
(* says of msection_entering is true (MarkUsed): it is NULL for the thread   *)
(* that runs.  The code does not assure this, and what follows does not hold *)
(* without it: an event that interrupts msection_enter and asks for no new   *)
(* choice leaves the field set, and the thread goes on with it.  So the      *)
(* theorems say what rests on that sentence of thread.h, and that nothing    *)
(* else is needed for it.                                                    *)
(*                                                                           *)
(* The section of a thread is entered by the thread itself, by the kernel in *)
(* its place when it is selected again, and after a wait; a thread is        *)
(* stopped only outside of sections, and who stops it otherwise waits; and the*)
(* scheduler lets the owner of a section run in the place of a thread that   *)
(* wants it.  Each of these is right because the others are: SectionsInv, the*)
(* inductive invariant, is their conjunction.                                *)
(*                                                                           *)
(* A thread that is made runnable again by a time-out or a stop stays in its *)
(* wait queue, and may be taken out of it twice, by the thread that passes it*)
(* and by itself; the second time others become unreachable.  So the order of*)
(* a wait queue is not kept.  What is kept is LineInv: the links lead back,  *)
(* and stay among the threads of one section.  It is enough for the loops    *)
(* over a queue to end, to meet no thread that does not belong there, and to *)
(* take out each thread that is notified before it runs again.               *)
(*****************************************************************************)
EXTENDS Objects, ThreadsProofs

(* In the library, after msection_enter has told the kernel which section it *)
(* wants, and until it tells it that it is inside.                           *)
Announcing == {"test", "claim", "help", "entered"}

(* Outside of every section for pok_thread_stop_target.                      *)
Outside == {"idle", "testFlag", "resched"}

(* On the way out, with the section free and not yet reported.               *)
Leaving == {"uncount", "testFlag", "resched"}

Places == {"announce"} \union Announcing \union Inside \union {"result"} \union Leaving \union {"idle"}

Queues ==
  [first : [Sections -> Thread0], last : [Sections -> Thread0],
   next : [Threads -> Thread0], prev : [Threads -> Thread0],
   priority : [Threads -> Nat \union {None}]]

(* The types of what follows.                                                *)
KernelTypes ==
  /\ mode = "normal" /\ handler = None /\ created = Threads
  /\ state \in [Threads -> {"stopped", "runnable", "waiting"}]
  /\ suspended \in [Threads -> BOOLEAN] /\ priority \in [Threads -> Nat]
  /\ entering \in [Threads -> Section0] /\ eligible \in Seq(Threads)
  /\ lockLevel \in Nat /\ locked \in Thread0
  /\ current \in Thread0 /\ selected \in Thread0 /\ waitingSection \in Section0
  /\ recheck \in BOOLEAN /\ disabled \in BOOLEAN
  /\ donateTarget \in [Threads -> Thread0] /\ firstDonator \in [Threads -> Thread0]
  /\ nextDonator \in [Threads -> Thread0]

LibraryTypes ==
  /\ owner \in [Sections -> Thread0] /\ reschedAfterLeave \in [Sections -> BOOLEAN]
  /\ userEntering \in [Threads -> Section0] /\ msectionCount \in [Threads -> Nat]
  /\ killed \in [Threads -> BOOLEAN]
  /\ using \in [Threads -> Section0] /\ pc \in [Threads -> Places]
  /\ queue \in Queues

(* t runs, outside of the kernel.                                            *)
Runs(t) == current = t /\ ~disabled

(* What is so of a thread in the library.  Its entry may be unfinished only  *)
(* if the kernel knows of it, or if the thread has not been preempted.       *)
InLibrary(t) ==
  /\ using[t] = None <=> pc[t] = "idle"
  /\ pc[t] \in Inside => owner[using[t]] = t
  /\ entering[t] = None =>
       /\ pc[t] \in {"entered", "result"} => owner[using[t]] = t
       /\ pc[t] \in {"test", "claim", "help"} => Runs(t)
       /\ pc[t] = "claim" => owner[using[t]] \in {None, t}
       /\ pc[t] = "help" => owner[using[t]] # None
  /\ entering[t] # None => entering[t] = using[t] /\ pc[t] \in Announcing \union {"result"}
  /\ userEntering[t] = IF pc[t] \in Announcing THEN using[t] ELSE None
  /\ msectionCount[t] = IF pc[t] \in Outside THEN 0 ELSE 1
  /\ state[t] = "stopped" => pc[t] = "idle"

(* The owner of a section may run, wherever it is: select_thread counts on   *)
(* it.                                                                       *)
Owns(t, s) ==
  using[t] = s /\ pc[t] \in Announcing \union Inside \union {"result"} /\ state[t] = "runnable"

Owners == \A s \in Sections : owner[s] # None => Owns(owner[s], s)

(* A notification has left the thread that goes on in the queue.             *)
Awoken ==
  kind \in {"semaphore", "buffer"} =>
    \A t \in Threads : pc[t] \in {"woken", "refill"} => queue.first[using[t]] # None

(* pok_thread_stop_target: a thread donates outside of the library, to one   *)
(* that is in a section and will stop when it leaves it.                     *)
Donates(t) ==
  donateTarget[t] # None =>
    /\ pc[t] = "idle" /\ state[t] # "stopped"
    /\ LET u == donateTarget[t]
       IN  killed[u] /\ pc[u] \notin {"idle", "testFlag"} /\ state[u] = "runnable"

(* The threads that wait for t are those that firstDonator and nextDonator   *)
(* lead to.                                                                  *)
DonorsOf(t) == {d \in Threads : donateTarget[d] = t}

Linked(q, first, next) ==
  /\ first = First(q)
  /\ \A i \in 1 .. Len(q) : next[q[i]] = IF i = Len(q) THEN None ELSE q[i + 1]

Listed(t) ==
  donateTarget[t] = None =>
    \E q \in Seq(Threads) :
      OnceEach(q) /\ ToSet(q) = DonorsOf(t) /\ Linked(q, firstDonator[t], nextDonator)

(* The threads that may be chosen are runnable.                              *)
Live ==
  /\ \A t \in ToSet(eligible) : state[t] = "runnable"
  /\ lockLevel > 0 => locked # None /\ state[locked] = "runnable"

(* The thread that must make progress, or the one that it donates to.        *)
Base == IF donateTarget[selected] # None THEN donateTarget[selected] ELSE selected

(* Another thread runs for it: the owner of the section that it waits for,   *)
(* or the one that has just freed it and is about to test the flag.          *)
Helps ==
  /\ waitingSection # None /\ reschedAfterLeave[waitingSection]
  /\ current # None /\ current # Base /\ entering[Base] = waitingSection
  /\ \/ owner[waitingSection] = current
     \/ owner[waitingSection] = None /\ using[current] = waitingSection /\ pc[current] \in Leaving

(* While no new choice is due, the thread that runs is right, and the kernel *)
(* does not believe that it is entering a section.                           *)
Due ==
  /\ ~disabled => ~recheck /\ (current # None => entering[current] = None)
  /\ ~recheck => /\ selected = Choice
                 /\ selected = None => current = None
                 /\ selected # None => current = Base \/ Helps

(* The inductive invariant.                                                  *)
SectionsInv ==
  /\ KernelTypes /\ LibraryTypes
  /\ \A t \in Threads : InLibrary(t) /\ Donates(t) /\ Listed(t)
  /\ Owners /\ Awoken /\ Live /\ Due

--------------------------------------------------------------------------------
(* Lists and links.  The least of a set of numbers is in it.                 *)
LEMMA MinIn ==
  ASSUME NEW I \in SUBSET Nat, I # {}
  PROVE  Min(I) \in I /\ \A i \in I : Min(I) <= i
<1>1. \E m \in I : \A i \in I : m <= i
  BY Least
<1> QED
  BY <1>1 DEF Min

(* q starts at a thread, if there is one, and follows the links.             *)
Follows(q, start, link) ==
  /\ q # <<>> => q[1] = start
  /\ \A i \in 1 .. Len(q) - 1 : q[i + 1] = link[q[i]]

(* It holds as many as there are, or goes on to the end of the list.         *)
Ends(q, start, link) ==
  \/ Len(q) = Cardinality(Threads)
  \/ (IF q = <<>> THEN start ELSE link[q[Len(q)]]) = None

(* The links lead from thread to thread, or to the end of the list.          *)
After(p, link) == IF p = None THEN None ELSE link[p]

(* The places that a walk along the links goes through, to its end and on.   *)
LEMMA WalkPlaces ==
  ASSUME NEW start \in Thread0, NEW link \in [Threads -> Thread0]
  PROVE  \E at \in [1 .. Cardinality(Threads) -> Thread0] :
           /\ Walk(start, link) = Without(at, {None})
           /\ 1 <= Cardinality(Threads) => at[1] = start
           /\ \A i \in 2 .. Cardinality(Threads) : at[i] = After(at[i - 1], link)
<1> DEFINE N == Cardinality(Threads)
           Is(f) == f = [i \in 1 .. N |-> IF i = 1 THEN start ELSE After(f[i - 1], link)]
           at == CHOOSE f : Is(f)
           H == [n \in 1 .. N |-> [p \in Thread0 |-> After(p, link)]]
<1>1. Walk(start, link) = Without(at, {None})
  BY DEF Walk, After
<1>2. N \in Nat
  BY ThreadsAssumption, FS_CardinalityType
<1>3. \A p \in Thread0 : After(p, link) \in Thread0
  BY DEF After, Thread0
<1> HIDE DEF N
<1>4. H \in [1 .. N -> [Thread0 -> Thread0]] /\ \A n \in 1 .. N, p \in Thread0 : H[n][p] = After(p, link)
  BY <1>3
<1> HIDE DEF H
<1>5. PICK g \in [0 .. N -> Thread0] : Iterates(g, N, start, H)
  BY <1>2, <1>4, Recursion
<1>6. g[0] = start /\ \A n \in 1 .. N : g[n] = After(g[n - 1], link)
  BY <1>2, <1>4, <1>5 DEF Iterates
<1> DEFINE f == [i \in 1 .. N |-> g[i - 1]]
<1>7. Is(f)
  <2>1. \A i \in 1 .. N : i # 1 => i - 1 \in 1 .. N
    BY <1>2
  <2>2. \A i \in 1 .. N : f[i] = IF i = 1 THEN start ELSE After(f[i - 1], link)
    BY <1>2, <1>6, <2>1
  <2> QED
    BY <2>2
<1> HIDE DEF f
<1>8. Is(at)
  BY <1>7
<1> HIDE DEF at
<1>9. /\ 1 <= N => at[1] = start
      /\ \A i \in 2 .. N : at[i] = After(at[i - 1], link)
      /\ at = [i \in 1 .. N |-> at[i]]
  <2>1. \A i \in 1 .. N : at[i] = IF i = 1 THEN start ELSE After(at[i - 1], link)
    BY <1>8
  <2>2. at = [i \in 1 .. N |-> at[i]]
    BY <1>8
  <2>3. \A i \in 2 .. N : i \in 1 .. N /\ i # 1
    BY <1>2
  <2>4. 1 <= N => at[1] = start
    BY <1>2, <2>1
  <2> QED
    BY <2>1, <2>2, <2>3, <2>4
<1>10. at \in [1 .. N -> Thread0]
  <2> DEFINE G == {n \in 0 .. N : n = 0 \/ at[n] \in Thread0}
  <2>1. 0 \in G
    BY <1>2
  <2>2. ASSUME NEW n \in 1 .. N, n - 1 \in G PROVE n \in G
    <3>1. CASE n = 1
      BY <1>2, <1>9, <3>1
    <3>2. CASE n # 1
      <4>1. n \in 2 .. N /\ at[n - 1] \in Thread0
        BY <1>2, <2>2, <3>2
      <4>2. at[n] = After(at[n - 1], link)
        BY <1>9, <4>1
      <4>3. n \in 0 .. N /\ at[n] \in Thread0
        BY <1>2, <1>3, <4>1, <4>2
      <4> QED
        BY <4>3
    <3> QED
      BY <3>1, <3>2
  <2> HIDE DEF G
  <2>3. \A n \in 0 .. N : n \in G
    BY <1>2, <2>1, <2>2, Upwards
  <2>4. \A n \in 1 .. N : at[n] \in Thread0
    BY <1>2, <2>3 DEF G
  <2> QED
    BY <1>9, <2>4
<1> QED
  BY <1>1, <1>9, <1>10 DEF N

(* What is left of these places is a list of threads that follows the links. *)
LEMMA WalkOK ==
  ASSUME NEW start \in Thread0, NEW link \in [Threads -> Thread0]
  PROVE  /\ Walk(start, link) \in Seq(Threads) /\ Follows(Walk(start, link), start, link)
         /\ Ends(Walk(start, link), start, link)
<1> DEFINE N == Cardinality(Threads)
<1>1. N \in Nat /\ None \notin Threads
  BY ThreadsAssumption, FS_CardinalityType
<1>2. PICK at \in [1 .. N -> Thread0] :
        /\ Walk(start, link) = Without(at, {None})
        /\ 1 <= N => at[1] = start
        /\ \A i \in 2 .. N : at[i] = After(at[i - 1], link)
  BY WalkPlaces
<1> HIDE DEF N
<1>3. Len(at) = N /\ \A n \in 1 .. N : at[n] \in {None} \union Threads
  BY <1>1 DEF Thread0
<1>4. PICK kept \in [0 .. N -> Seq(Threads)] : Drops(kept, at, {None})
  <2>1. Len(at) \in Nat /\ \A n \in 1 .. Len(at) : at[n] \in {None} \union Threads
    BY <1>1, <1>3
  <2>2. \E k \in [0 .. Len(at) -> Seq(Threads)] : Drops(k, at, {None})
    BY <2>1, DropsExist
  <2> QED
    BY <1>3, <2>2
<1>5. /\ Walk(start, link) = kept[N] /\ kept[0] = <<>>
      /\ \A n \in 1 .. N : kept[n] = IF at[n] = None THEN kept[n - 1] ELSE Append(kept[n - 1], at[n])
  BY <1>2, <1>3, <1>4 DEF Drops
<1> DEFINE Starts(p, n) == /\ \A i \in 1 .. Len(p) : p[i] = at[i]
                           /\ Len(p) = n \/ (Len(p) < n /\ at[n] = None /\ at[Len(p) + 1] = None)
           G == {n \in 0 .. N : Starts(kept[n], n)}
<1>6. 0 \in G
  BY <1>1, <1>5
<1>7. ASSUME NEW n \in 1 .. N, n - 1 \in G PROVE n \in G
  <2> DEFINE p == kept[n - 1]
  <2>1. p \in Seq(Threads) /\ Starts(p, n - 1) /\ n \in Nat /\ n - 1 \in Nat
    BY <1>1, <1>7
  <2>2. kept[n] = IF at[n] = None THEN p ELSE Append(p, at[n])
    BY <1>5
  <2> HIDE DEF p
  <2>3. CASE at[n] = None
    BY <1>1, <2>1, <2>2, <2>3
  <2>4. CASE at[n] # None
    <3>1. Len(p) = n - 1
      <4>1. CASE n = 1
        BY <2>1, <4>1
      <4>2. CASE n # 1
        <5>1. at[n] = After(at[n - 1], link)
          BY <1>1, <1>2, <4>2
        <5>2. at[n - 1] # None
          BY <2>4, <5>1 DEF After
        <5> QED
          BY <2>1, <5>2
      <4> QED
        BY <4>1, <4>2
    <3>2. at[n] \in Threads
      BY <1>3, <2>4
    <3>3. kept[n] = Append(p, at[n])
      BY <2>2, <2>4
    <3> DEFINE r == Append(p, at[n])
    <3>4. Len(r) = n /\ r[n] = at[n] /\ \A i \in 1 .. n - 1 : r[i] = p[i]
      BY <2>1, <3>1, <3>2
    <3>5. \A i \in 1 .. n : i # n => i \in 1 .. n - 1
      BY <2>1
    <3> HIDE DEF r
    <3>6. Starts(r, n)
      BY <2>1, <3>1, <3>4, <3>5
    <3>7. Starts(kept[n], n)
      BY <3>3, <3>6 DEF r
    <3> HIDE DEF Starts
    <3> QED
      BY <1>1, <3>7
  <2> QED
    BY <2>3, <2>4
<1> HIDE DEF G
<1>8. \A n \in 0 .. N : n \in G
  BY <1>1, <1>6, <1>7, Upwards
<1> DEFINE q == kept[N]
<1>9. q \in Seq(Threads) /\ Starts(q, N)
  BY <1>1, <1>8 DEF G
<1> HIDE DEF q
<1>10. Len(q) \in Nat /\ Len(q) <= N /\ \A i \in 1 .. Len(q) : q[i] = at[i] /\ q[i] \in Threads
  BY <1>1, <1>9
<1>11. q # <<>> => q[1] = start
  <2>1. ASSUME q # <<>> PROVE 1 \in 1 .. Len(q) /\ 1 <= N
    BY <1>1, <1>9, <1>10, <2>1
  <2> QED
    BY <1>2, <1>10, <2>1
<1>12. ASSUME NEW i \in 1 .. Len(q) - 1 PROVE q[i + 1] = link[q[i]]
  <2>1. i \in 1 .. Len(q) /\ i + 1 \in 1 .. Len(q) /\ i + 1 \in 2 .. N /\ i + 1 - 1 = i
    BY <1>1, <1>10
  <2>2. q[i] = at[i] /\ q[i + 1] = at[i + 1] /\ at[i] # None
    BY <1>1, <1>10, <2>1
  <2>3. at[i + 1] = After(at[i], link)
    BY <1>2, <2>1
  <2> QED
    BY <2>2, <2>3 DEF After
<1>13. Follows(q, start, link)
  BY <1>11, <1>12 DEF Follows
<1>14. Ends(q, start, link)
  <2>1. CASE Len(q) = N
    BY <2>1 DEF Ends, N
  <2>2. CASE Len(q) # N /\ q = <<>>
    <3>1. Len(q) = 0 /\ 1 <= N
      BY <1>1, <1>10, <2>2
    <3>2. at[1] = None /\ at[1] = start
      BY <1>2, <1>9, <3>1, <2>2
    <3> QED
      BY <2>2, <3>2 DEF Ends
  <2>3. CASE Len(q) # N /\ q # <<>>
    <3>1. Len(q) \in 1 .. N - 1 /\ Len(q) + 1 \in 2 .. N /\ (Len(q) + 1) - 1 = Len(q)
      BY <1>1, <1>9, <1>10, <2>3
    <3>2. at[Len(q) + 1] = None
      BY <1>9, <2>3
    <3>3. at[Len(q) + 1] = After(at[Len(q)], link) /\ at[Len(q)] = q[Len(q)] /\ q[Len(q)] # None
      BY <1>1, <1>2, <1>10, <3>1
    <3> QED
      BY <2>3, <3>2, <3>3 DEF Ends, After
  <2> QED
    BY <2>1, <2>2, <2>3
<1> QED
  BY <1>5, <1>9, <1>13, <1>14 DEF q

(* The wait queues, after each operation on the links; those of the other    *)
(* sections keep their first thread.                                         *)
Elsewhere(q, r, s) == \A z \in Sections \ {s} : r.first[z] = q.first[z]

(* Each link that is set stays within one section ...                        *)
LEMMA ElsewhereTwice ==
  ASSUME NEW q, NEW r, NEW x, NEW s, Elsewhere(q, r, s), Elsewhere(r, x, s)
  PROVE  Elsewhere(q, x, s)
BY DEF Elsewhere

LEMMA SetNextOK ==
  ASSUME NEW q \in Queues, NEW s \in Sections, NEW t \in Thread0, NEW u \in Thread0
  PROVE  SetNext(q, s, t, u) \in Queues /\ Elsewhere(q, SetNext(q, s, t, u), s)
BY DEF SetNext, Queues, Thread0, Elsewhere

LEMMA SetPrevOK ==
  ASSUME NEW q \in Queues, NEW s \in Sections, NEW t \in Thread0, NEW u \in Thread0
  PROVE  SetPrev(q, s, t, u) \in Queues /\ Elsewhere(q, SetPrev(q, s, t, u), s)
BY DEF SetPrev, Queues, Thread0, Elsewhere

LEMMA UnlinkTyped ==
  ASSUME NEW q \in Queues, NEW t \in Threads, NEW s
  PROVE  LET r == [q EXCEPT !.next[t] = None, !.prev[t] = None, !.priority[t] = None]
         IN  r \in Queues /\ Elsewhere(q, r, s)
BY DEF Queues, Thread0, Elsewhere

(* ... and so do msection_wq_del and msection_wq_add.                        *)
LEMMA WqDelTyped ==
  ASSUME NEW q \in Queues, NEW s \in Sections, NEW t \in Threads
  PROVE  WqDel(q, s, t) \in Queues /\ Elsewhere(q, WqDel(q, s, t), s)
<1> DEFINE n == q.next[t]
           p == q.prev[t]
           a == SetPrev(q, s, n, p)
           b == SetNext(a, s, p, n)
           c == [b EXCEPT !.next[t] = None, !.prev[t] = None, !.priority[t] = None]
<1>1. n \in Thread0 /\ p \in Thread0
  BY DEF Queues
<1>2. WqDel(q, s, t) = c
  BY DEF WqDel
<1> HIDE DEF n, p
<1>3. a \in Queues /\ Elsewhere(q, a, s)
  BY <1>1, SetPrevOK
<1> HIDE DEF a
<1>4. b \in Queues /\ Elsewhere(a, b, s)
  BY <1>1, <1>3, SetNextOK
<1> HIDE DEF b
<1>5. c \in Queues /\ Elsewhere(b, c, s)
  BY <1>4, UnlinkTyped
<1> HIDE DEF c
<1> QED
  BY <1>2, <1>3, <1>4, <1>5, ElsewhereTwice

LEMMA WqAddTyped ==
  ASSUME NEW q \in Queues, NEW s \in Sections, NEW t \in Threads, NEW p \in Thread0, NEW n \in Thread0
  PROVE  WqAdd(q, s, t, p, n) \in Queues /\ Elsewhere(q, WqAdd(q, s, t, p, n), s)
<1> DEFINE l == [q EXCEPT !.next[t] = n, !.prev[t] = p]
           a == SetPrev(l, s, n, t)
           b == SetNext(a, s, p, t)
<1>1. l \in Queues /\ Elsewhere(q, l, s)
  BY DEF Queues, Elsewhere
<1>2. WqAdd(q, s, t, p, n) = b /\ t \in Thread0
  BY DEF WqAdd, Thread0
<1> HIDE DEF l
<1>3. a \in Queues /\ Elsewhere(l, a, s)
  BY <1>1, <1>2, SetPrevOK
<1> HIDE DEF a
<1>4. b \in Queues /\ Elsewhere(a, b, s)
  BY <1>2, <1>3, SetNextOK
<1> HIDE DEF b
<1> QED
  BY <1>1, <1>2, <1>3, <1>4, ElsewhereTwice

(* after[n] is the queue without the first n threads of q.                   *)
Leaves(after, s, q) ==
  /\ DelAll(s, q) = after[Len(q)] /\ after[0] = queue
  /\ \A n \in 1 .. Len(q) : after[n] = WqDel(after[n - 1], s, q[n])

(* The loop that takes several threads out can be unfolded.                  *)
LEMMA DelAllUnfolds ==
  ASSUME queue \in Queues, NEW s \in Sections, NEW q \in Seq(Threads)
  PROVE  \E after \in [0 .. Len(q) -> Queues] : Leaves(after, s, q)
<1> DEFINE N == Len(q)
           X == Queues
           Del(n, p) == WqDel(p, s, q[n])
           Is(f) == f = [n \in 0 .. N |-> IF n = 0 THEN queue ELSE Del(n, f[n - 1])]
           after == CHOOSE f : Is(f)
           H == [n \in 1 .. N |-> [p \in X |-> Del(n, p)]]
<1>1. DelAll(s, q) = after[N]
  BY DEF DelAll
<1>2. N \in Nat /\ queue \in X
  OBVIOUS
<1>3. ASSUME NEW n \in 1 .. N, NEW p \in X PROVE Del(n, p) \in X
  BY WqDelTyped
<1> SUFFICES \E f \in [0 .. N -> X] : after = f /\ f[0] = queue
                                    /\ \A n \in 1 .. N : f[n] = Del(n, f[n - 1])
  BY <1>1 DEF Leaves
<1> HIDE DEF N, X, Del
<1>4. H \in [1 .. N -> [X -> X]] /\ \A n \in 1 .. N, p \in X : H[n][p] = Del(n, p)
  BY <1>3
<1> HIDE DEF H
<1>5. PICK f \in [0 .. N -> X] : Iterates(f, N, queue, H)
  <2>1. N \in Nat /\ queue \in X /\ H \in [1 .. N -> [X -> X]]
    BY <1>2, <1>4
  <2> QED
    BY <2>1, Recursion
<1>6. \A n \in 1 .. N : f[n] = Del(n, f[n - 1])
  BY <1>2, <1>4, <1>5 DEF Iterates
<1>7. Is(f)
  BY <1>2, <1>5, <1>6 DEF Iterates
<1>8. Is(after)
  BY <1>7
<1> HIDE DEF after
<1>9. after[0] = queue /\ \A n \in 1 .. N : after[n] = Del(n, after[n - 1])
  BY <1>2, <1>8
<1>10. after[0] \in X /\ \A n \in 1 .. N : after[n - 1] \in X => after[n] \in X
  BY <1>2, <1>3, <1>9
<1>11. \A n \in 0 .. N : after[n] \in X
  BY <1>2, <1>10, RecursionTyped
<1>12. after \in [0 .. N -> X]
  BY <1>8, <1>11
<1> QED
  BY <1>9, <1>12

(* Several threads leave a queue: the other sections keep their first.       *)
LEMMA DelAllTyped ==
  ASSUME queue \in Queues, NEW s \in Sections, NEW q \in Seq(Threads)
  PROVE  DelAll(s, q) \in Queues /\ Elsewhere(queue, DelAll(s, q), s)
<1>1. PICK after \in [0 .. Len(q) -> Queues] : Leaves(after, s, q)
  BY DelAllUnfolds
<1>2. Len(q) \in Nat /\ after[0] = queue /\ DelAll(s, q) = after[Len(q)]
  BY <1>1 DEF Leaves
<1> DEFINE N == Len(q)
           G == {n \in 0 .. N : Elsewhere(queue, after[n], s)}
<1>3. 0 \in G
  BY <1>2 DEF Elsewhere
<1>4. ASSUME NEW n \in 1 .. N, n - 1 \in G PROVE n \in G
  <2>1. n \in 0 .. N /\ n - 1 \in 0 .. N /\ q[n] \in Threads /\ Elsewhere(queue, after[n - 1], s)
    BY <1>2, <1>4
  <2>2. Elsewhere(after[n - 1], after[n], s)
    BY <1>1, <2>1, WqDelTyped DEF Leaves
  <2> QED
    BY <2>1, <2>2, ElsewhereTwice
<1> HIDE DEF G
<1>5. \A n \in 0 .. N : n \in G
  BY <1>2, <1>3, <1>4, Upwards
<1> QED
  BY <1>1, <1>2, <1>5 DEF G

(* The threads in a queue, and those that a notification passes.             *)
LEMMA QueuedOK ==
  ASSUME queue \in Queues, NEW s \in Sections
  PROVE  Queued(s) \in Seq(Threads) /\ Follows(Queued(s), queue.first[s], queue.next)
BY WalkOK DEF Queued, Queues

(* The first thread of a queue that waits.                                   *)
FirstWaiting(s, i) ==
  /\ i \in 1 .. Len(Queued(s)) /\ Waiting(Queued(s)[i])
  /\ \A j \in 1 .. Len(Queued(s)) : j < i => ~Waiting(Queued(s)[j])

(* The threads that a notification passes.                                   *)
LEMMA PassedOK ==
  ASSUME queue \in Queues, NEW s \in Sections, NEW all \in BOOLEAN
  PROVE  LET q == Queued(s) IN
         \/ Passed(s, all) = q /\ (all \/ \A j \in 1 .. Len(q) : ~Waiting(q[j]))
         \/ \E i \in 1 .. Len(q) : FirstWaiting(s, i) /\ Passed(s, all) = SubSeq(q, 1, i)
<1> DEFINE q == Queued(s)
           I == {j \in 1 .. Len(q) : Waiting(q[j])}
           i == SelectInSeq(q, Waiting)
<1>1. q \in Seq(Threads) /\ Len(q) \in Nat
  BY QueuedOK
<1>2. i = IF I # {} THEN Min(I) ELSE 0
  BY DEF SelectInSeq
<1>3. Passed(s, all) = IF all \/ i = 0 THEN q ELSE SubSeq(q, 1, i)
  BY DEF Passed
<1>4. CASE I = {}
  <2>1. i = 0
    BY <1>2, <1>4
  <2> HIDE DEF i
  <2> QED
    BY <1>3, <1>4, <2>1
<1>5. CASE I # {}
  <2>1. I \in SUBSET Nat
    OBVIOUS
  <2>2. i = Min(I)
    BY <1>2, <1>5
  <2> HIDE DEF i, I
  <2>3. i \in I /\ \A j \in I : i <= j
    BY <1>5, <2>1, <2>2, MinIn
  <2>4. FirstWaiting(s, i)
    <3>1. i \in 1 .. Len(q) /\ Waiting(q[i])
      BY <2>3 DEF I
    <3>2. ASSUME NEW j \in 1 .. Len(q), j < i PROVE ~Waiting(q[j])
      <4>1. j \notin I
        BY <1>1, <2>3, <3>1, <3>2
      <4> QED
        BY <4>1 DEF I
    <3> QED
      BY <3>1, <3>2 DEF FirstWaiting
  <2>5. i \in 1 .. Len(q) /\ i # 0
    BY <1>1, <2>4 DEF FirstWaiting
  <2> QED
    BY <1>3, <2>4, <2>5
<1> QED
  BY <1>4, <1>5

LEMMA PassedTyped ==
  ASSUME queue \in Queues, NEW s \in Sections, NEW all \in BOOLEAN
  PROVE  Passed(s, all) \in Seq(Threads)
<1>1. Queued(s) \in Seq(Threads) /\ Len(Queued(s)) \in Nat
  BY QueuedOK
<1>2. \A i \in 1 .. Len(Queued(s)) : SubSeq(Queued(s), 1, i) \in Seq(Threads)
  BY <1>1
<1> QED
  BY <1>1, <1>2, PassedOK

(* The queue without those that do not wait any more.                        *)
LEMMA PurgedTyped ==
  ASSUME queue \in Queues, NEW s \in Sections, NEW q \in Seq(Threads)
  PROVE  Purged(s, q) \in Queues /\ Elsewhere(queue, Purged(s, q), s)
<1>1. Leavers(q) \in Seq(Threads)
  BY WithoutOK DEF Leavers
<1> QED
  BY <1>1, DelAllTyped DEF Purged

(* A thread joins the queue.                                                 *)
LEMMA AddTyped ==
  ASSUME queue \in Queues, priority \in [Threads -> Nat],
         NEW s \in Sections, NEW t \in Threads, NEW discipline
  PROVE  AddToQueue(s, t, discipline) \in Queues /\ Elsewhere(queue, AddToQueue(s, t, discipline), s)
<1>1. CASE ~discipline
  <2>1. queue.last[s] \in Thread0 /\ None \in Thread0
    BY DEF Queues, Thread0
  <2> QED
    BY <1>1, <2>1, WqAddTyped DEF AddToQueue
<1>2. CASE discipline
  <2> DEFINE back == Walk(queue.last[s], queue.prev)
             I == {j \in 1 .. Len(back) : StaysAhead(back[j], t)}
             i == SelectInSeq(back, LAMBDA u : StaysAhead(u, t))
             p == IF i = 0 THEN None ELSE back[i]
             n == IF p = None THEN queue.first[s] ELSE queue.next[p]
             q == WqAdd(queue, s, t, p, n)
  <2>1. AddToQueue(s, t, discipline) = [q EXCEPT !.priority[t] = priority[t]]
    BY <1>2 DEF AddToQueue, AddByPriority
  <2>2. back \in Seq(Threads) /\ Len(back) \in Nat
    BY WalkOK DEF Queues
  <2>3. i = IF I # {} THEN Min(I) ELSE 0
    BY DEF SelectInSeq
  <2>4. I \in SUBSET Nat /\ I \in SUBSET (1 .. Len(back))
    OBVIOUS
  <2> HIDE DEF I, i, back
  <2>5. i = 0 \/ i \in 1 .. Len(back)
    BY <2>3, <2>4, MinIn
  <2>6. p \in Thread0
    BY <2>2, <2>5 DEF Thread0
  <2> HIDE DEF p
  <2>7. n \in Thread0
    BY <2>6 DEF Queues, Thread0
  <2> HIDE DEF n
  <2>8. q \in Queues /\ Elsewhere(queue, q, s)
    BY <2>6, <2>7, WqAddTyped
  <2> HIDE DEF q
  <2> QED
    BY <2>1, <2>8 DEF Queues, Elsewhere
<1> QED
  BY <1>1, <1>2

(* What leaving a queue does to its first thread and to the others' links.   *)
LEMMA WqDelLinks ==
  ASSUME NEW q \in Queues, NEW s \in Sections, NEW t \in Threads, q.next[t] \in Threads
  PROVE  LET r == WqDel(q, s, t) IN
         /\ r.first[s] = IF q.prev[t] = None THEN q.next[t] ELSE q.first[s]
         /\ \A u \in Threads \ {t} : r.next[u] = IF u = q.prev[t] THEN q.next[t] ELSE q.next[u]
<1> DEFINE n == q.next[t]
           p == q.prev[t]
<1>1. n \in Threads /\ n # None /\ p \in Thread0 /\ None \notin Threads
  BY ThreadsAssumption DEF Queues
<1>2. q.next \in [Threads -> Thread0] /\ q.first \in [Sections -> Thread0]
  BY DEF Queues
<1>3. CASE p = None
  <2>1. WqDel(q, s, t) = [q EXCEPT !.prev[n] = p, !.first[s] = n,
                                   !.next[t] = None, !.prev[t] = None, !.priority[t] = None]
    BY <1>1, <1>3 DEF WqDel, SetNext, SetPrev
  <2> HIDE DEF n, p
  <2>2. WqDel(q, s, t).first[s] = n /\ \A u \in Threads \ {t} : WqDel(q, s, t).next[u] = q.next[u]
    BY <1>2, <2>1 DEF Queues
  <2> QED
    BY <1>1, <1>3, <2>2 DEF n, p
<1>4. CASE p # None
  <2>1. WqDel(q, s, t) = [q EXCEPT !.prev[n] = p, !.next[p] = n,
                                   !.next[t] = None, !.prev[t] = None, !.priority[t] = None]
    BY <1>1, <1>4 DEF WqDel, SetNext, SetPrev
  <2>2. p \in Threads
    BY <1>1, <1>4 DEF Thread0
  <2> HIDE DEF n, p
  <2>3. /\ WqDel(q, s, t).first[s] = q.first[s]
        /\ \A u \in Threads \ {t} : WqDel(q, s, t).next[u] = IF u = p THEN n ELSE q.next[u]
    BY <1>2, <2>1, <2>2 DEF Queues
  <2> QED
    BY <1>4, <2>3 DEF n, p
<1> QED
  BY <1>3, <1>4

(* The threads in front of the first that waits are different: the links     *)
(* would not lead out of a cycle.                                            *)
LEMMA PassedOnce ==
  ASSUME queue \in Queues, NEW s \in Sections, NEW i, FirstWaiting(s, i),
         NEW a \in 1 .. i, NEW b \in 1 .. i, a < b
  PROVE  Queued(s)[a] # Queued(s)[b]
<1> SUFFICES ASSUME Queued(s)[a] = Queued(s)[b] PROVE FALSE
  OBVIOUS
<1> DEFINE q == Queued(s)
           G == {m \in 0 .. i - b : q[a + m] = q[b + m]}
<1>1. q \in Seq(Threads) /\ Len(q) \in Nat /\ i \in 1 .. Len(q) /\ a \in Nat /\ b \in Nat
  BY QueuedOK DEF FirstWaiting
<1>2. \A j \in 1 .. Len(q) - 1 : q[j + 1] = queue.next[q[j]]
  BY QueuedOK DEF Follows
<1> HIDE DEF q
<1>3. 0 \in G
  BY <1>1 DEF q
<1>4. ASSUME NEW m \in 1 .. i - b, m - 1 \in G PROVE m \in G
  <2>1. /\ a + (m - 1) \in 1 .. Len(q) - 1 /\ b + (m - 1) \in 1 .. Len(q) - 1
        /\ a + (m - 1) + 1 = a + m /\ b + (m - 1) + 1 = b + m /\ m \in 0 .. i - b
    BY <1>1
  <2>2. q[a + m] = queue.next[q[a + (m - 1)]] /\ q[b + m] = queue.next[q[b + (m - 1)]]
    BY <1>2, <2>1
  <2> QED
    BY <1>4, <2>1, <2>2
<1>5. i - b \in Nat /\ i - b \in 0 .. i - b
  BY <1>1
<1> HIDE DEF G
<1>6. \A m \in 0 .. i - b : m \in G
  BY <1>3, <1>4, <1>5, Upwards
<1>7. q[a + (i - b)] = q[b + (i - b)] /\ b + (i - b) = i
  <2>1. i - b \in G
    BY <1>5, <1>6
  <2>2. b + (i - b) = i
    BY <1>1
  <2> QED
    BY <2>1, <2>2 DEF G
<1>8. a + (i - b) \in 1 .. Len(q) /\ a + (i - b) < i
  BY <1>1
<1> QED
  BY <1>7, <1>8 DEF FirstWaiting, q

(* After a notification that finds a thread that waits the queue has a first *)
(* thread, one of those it has passed, whatever its links were.              *)
LEMMA FirstStays ==
  ASSUME queue \in Queues, NEW s \in Sections, NEW i, FirstWaiting(s, i)
  PROVE  /\ Purged(s, SubSeq(Queued(s), 1, i)).first[s] # None
         /\ Purged(s, SubSeq(Queued(s), 1, i)).first[s] \in {Queued(s)[j] : j \in 1 .. i}
<1> DEFINE q == Queued(s)
           p == SubSeq(q, 1, i)
           w == q[i]
           L == Leavers(p)
           R == {q[j] : j \in 1 .. i}
<1>1. /\ q \in Seq(Threads) /\ Len(q) \in Nat /\ i \in 1 .. Len(q) /\ i \in Nat /\ 1 \in 1 .. i
      /\ queue.first[s] = q[1]
      /\ \A j \in 1 .. Len(q) - 1 : q[j + 1] = queue.next[q[j]]
      /\ Waiting(w)
  BY QueuedOK DEF FirstWaiting, Follows
<1>2. p \in Seq(Threads) /\ Len(p) = i /\ \A j \in 1 .. i : p[j] = q[j] /\ q[j] \in Threads
  BY <1>1
<1>3. ToSet(p) = R /\ R \subseteq Threads
  <2> HIDE DEF p, q
  <2> QED
    BY <1>2, Members
<1>4. /\ L \in Seq(Threads) /\ ToSet(L) = R \ {t \in Threads : Waiting(t)}
      /\ \A t, u \in Threads : Before(L, t, u) => Before(p, t, u)
  <2> HIDE DEF p, R
  <2> QED
    BY <1>2, <1>3, WithoutOK DEF Leavers
<1>5. \A a, b \in 1 .. i : a < b => q[a] # q[b]
  BY PassedOnce
<1>6. \A t \in Threads : ~Before(p, t, t)
  <2> HIDE DEF p, q
  <2> QED
    BY <1>2, <1>5, Members DEF Before
<1> HIDE DEF L
<1>7. /\ Len(L) \in Nat
      /\ \A n \in 1 .. Len(L) : L[n] \in R /\ L[n] # w /\ L[n] \in Threads
      /\ \A m, n \in 1 .. Len(L) : m < n => L[m] # L[n]
  <2> HIDE DEF R, w, p
  <2>1. Len(L) \in Nat /\ \A n \in 1 .. Len(L) : L[n] \in Threads /\ L[n] \in ToSet(L)
    BY <1>4, Members
  <2>2. \A m, n \in 1 .. Len(L) : m < n => L[m] # L[n]
    BY <1>4, <1>6, <2>1, Members DEF Before
  <2> QED
    BY <1>1, <1>4, <2>1, <2>2
<1>8. ASSUME NEW t \in R \ {w} PROVE queue.next[t] \in R
  <2>1. PICK j \in 1 .. i : t = q[j]
    OBVIOUS
  <2>2. j \in 1 .. Len(q) - 1 /\ j + 1 \in 1 .. i
    BY <1>1, <2>1
  <2> QED
    BY <1>1, <2>1, <2>2
<1>9. queue.first[s] \in R /\ None \notin R
  BY <1>1, <1>3, ThreadsAssumption
<1>10. PICK after \in [0 .. Len(L) -> Queues] : Leaves(after, s, L)
  BY <1>4, DelAllUnfolds
<1> HIDE DEF R, w, q, p
<1> DEFINE Done(n) == {L[m] : m \in 1 .. n}
           Good(k, n) == k.first[s] \in R /\ \A t \in R \ {w} : t \notin Done(n) => k.next[t] \in R
           G == {n \in 0 .. Len(L) : Good(after[n], n)}
<1>11. 0 \in G
  BY <1>7, <1>8, <1>9, <1>10 DEF Leaves
<1>12. ASSUME NEW n \in 1 .. Len(L), n - 1 \in G PROVE n \in G
  <2> DEFINE k == after[n - 1]
             t == L[n]
             r == WqDel(k, s, t)
  <2>1. k \in Queues /\ Good(k, n - 1) /\ after[n] = r /\ n \in 0 .. Len(L)
    BY <1>7, <1>10, <1>12 DEF Leaves
  <2>2. t \in R /\ t # w /\ t \in Threads /\ t \notin Done(n - 1)
    BY <1>7
  <2>3. Done(n) = Done(n - 1) \union {t}
    BY <1>7
  <2> HIDE DEF k, t, Done
  <2>4. k.next[t] \in R /\ k.next[t] \in Threads
    BY <1>3, <2>1, <2>2
  <2>5. /\ r.first[s] = IF k.prev[t] = None THEN k.next[t] ELSE k.first[s]
        /\ \A u \in Threads \ {t} : r.next[u] = IF u = k.prev[t] THEN k.next[t] ELSE k.next[u]
    BY <2>1, <2>2, <2>4, WqDelLinks
  <2> HIDE DEF r
  <2>6. Good(r, n)
    BY <1>3, <2>1, <2>3, <2>4, <2>5
  <2> QED
    BY <2>1, <2>6
<1> HIDE DEF G
<1>13. \A n \in 0 .. Len(L) : n \in G
  BY <1>7, <1>11, <1>12, Upwards
<1>14. after[Len(L)].first[s] \in R
  BY <1>7, <1>13 DEF G
<1> QED
  BY <1>9, <1>10, <1>14 DEF Leaves, Purged, L, p, q, R

--------------------------------------------------------------------------------
(* The thread that runs for another: the one it donates to, or itself ...    *)
BaseOf(c) == IF donateTarget[c] # None THEN donateTarget[c] ELSE c

(* ... or the owner of the section that this one is entering.                *)
RunsFor(c) ==
  LET b == BaseOf(c)
      o == owner[entering[b]]
  IN  /\ b \in Threads
      /\ ~Blocked(b) => /\ Runner(c) = b /\ WaitedSection(c) = None
                        /\ \A i \in 1 .. MaxHops : Chain(c)[i] = b
      /\ Blocked(b) => /\ o \in Threads /\ o # b /\ ~Blocked(o)
                       /\ Runner(c) = o /\ WaitedSection(c) = entering[b]
                       /\ \A i \in 1 .. MaxHops : Chain(c)[i] = o
      /\ Chain(c)[0] = b

(* The facts about a chain of owners that make it short: an owner is not     *)
(* blocked.                                                                  *)
LEMMA OwnerNotBlocked ==
  ASSUME KernelTypes, LibraryTypes, \A t \in Threads : InLibrary(t), Owners,
         NEW t \in Threads, Blocked(t)
  PROVE  /\ entering[t] \in Sections /\ owner[entering[t]] \in Threads
         /\ owner[entering[t]] # t /\ ~Blocked(owner[entering[t]])
<1>1. entering[t] \in Sections /\ entering[t] # None /\ owner[entering[t]] \notin {None, t}
  BY DEF Blocked, KernelTypes, Section0
<1> DEFINE o == owner[entering[t]]
<1>2. o \in Threads /\ o # None
  BY <1>1 DEF LibraryTypes, Thread0
<1>3. using[o] = entering[t]
  BY <1>1, <1>2 DEF Owners, Owns
<1>4. ASSUME entering[o] # None PROVE owner[entering[o]] = o
  <2>1. entering[o] = using[o]
    BY <1>2, <1>4 DEF InLibrary
  <2> QED
    BY <1>3, <2>1
<1>5. ~Blocked(o)
  BY <1>4 DEF Blocked
<1> QED
  BY <1>1, <1>2, <1>5

(* select_thread, for every thread that it may start from.                   *)
LEMMA ChainIs ==
  ASSUME KernelTypes, LibraryTypes, \A t \in Threads : InLibrary(t), Owners, NEW c \in Threads
  PROVE  RunsFor(c)
<1> DEFINE b == BaseOf(c)
           Hop(p) == IF Blocked(p) THEN owner[entering[p]] ELSE p
           Is(f) == f = [i \in 0 .. MaxHops |->
                           IF i = 0 THEN IF donateTarget[c] # None THEN donateTarget[c] ELSE c
                           ELSE Hop(f[i - 1])]
           chain == CHOOSE f : Is(f)
           last == Hop(b)
<1>1. Chain(c) = chain
  BY DEF Chain
<1>2. b \in Threads /\ c # None
  BY ThreadsAssumption DEF BaseOf, KernelTypes, Thread0
<1>3. last \in Threads /\ Hop(last) = last /\ ~Blocked(last)
  <2> HIDE DEF b
  <2> QED
    BY <1>2, OwnerNotBlocked
<1>4. MaxHops \in Nat /\ MaxHops = 5
  BY DEF MaxHops
<1>5. b = IF donateTarget[c] # None THEN donateTarget[c] ELSE c
  BY DEF BaseOf
<1>6. Is([i \in 0 .. MaxHops |-> IF i = 0 THEN b ELSE last])
  <2> DEFINE f == [i \in 0 .. MaxHops |-> IF i = 0 THEN b ELSE last]
  <2> HIDE DEF b, Hop
  <2>1. \A i \in 1 .. MaxHops : f[i] = Hop(f[i - 1])
    <3>1. ASSUME NEW i \in 1 .. MaxHops PROVE f[i] = Hop(f[i - 1])
      <4>1. i - 1 \in 0 .. MaxHops /\ f[i] = last
        BY <1>4
      <4>2. f[i - 1] = b \/ f[i - 1] = last
        BY <4>1
      <4> QED
        BY <1>3, <4>1, <4>2
    <3> QED
      BY <3>1
  <2> QED
    BY <1>4, <1>5, <2>1
<1>7. Is(chain)
  BY <1>6
<1> HIDE DEF chain
<1>8. chain[0] = b /\ \A n \in 1 .. MaxHops : chain[n] = Hop(chain[n - 1])
  BY <1>4, <1>5, <1>7
<1>9. \A n \in 1 .. MaxHops : chain[n] = last
  <2> DEFINE G == {n \in 0 .. MaxHops : n = 0 \/ chain[n] = last}
  <2> HIDE DEF Hop, b, MaxHops
  <2>1. 0 \in G
    BY <1>4
  <2>2. ASSUME NEW n \in 1 .. MaxHops, n - 1 \in G PROVE n \in G
    <3>1. n \in 0 .. MaxHops /\ (n - 1 = 0 \/ chain[n - 1] = last)
      BY <1>4, <2>2
    <3>2. chain[n] = last
      BY <1>3, <1>8, <3>1
    <3> QED
      BY <3>1, <3>2
  <2> HIDE DEF G
  <2>3. \A n \in 0 .. MaxHops : n \in G
    BY <1>4, <2>1, <2>2, Upwards
  <2> QED
    BY <1>4, <2>3 DEF G
<1>10. Runner(c) = last
  BY <1>1, <1>2, <1>4, <1>9 DEF Runner
<1>11. CASE ~Blocked(b)
  <2>1. last = b
    BY <1>11
  <2>2. WaitedSection(c) = None
    BY <1>1, <1>8, <1>11 DEF WaitedSection
  <2> QED
    BY <1>1, <1>2, <1>8, <1>9, <1>10, <1>11, <2>1, <2>2 DEF RunsFor
<1>12. CASE Blocked(b)
  <2>1. last = owner[entering[b]] /\ last # b
    <3> HIDE DEF b
    <3> QED
      BY <1>2, <1>12, OwnerNotBlocked
  <2> DEFINE P(i) == Blocked(chain[i]) /\ chain[i + 1] = last
             i0 == CHOOSE i \in 0 .. MaxHops : P(i)
  <2>2. WaitedSection(c) = entering[chain[i0]]
    BY <1>1, <1>2, <1>8, <1>10, <1>12 DEF WaitedSection
  <2> HIDE DEF last, b
  <2>3. P(0) /\ 0 \in 0 .. MaxHops
    BY <1>4, <1>8, <1>9, <1>12
  <2>4. i0 \in 0 .. MaxHops /\ P(i0)
    <3> HIDE DEF P
    <3> QED
      BY <2>3
  <2> HIDE DEF i0
  <2>5. i0 = 0
    BY <1>3, <1>4, <1>9, <2>4
  <2>6. WaitedSection(c) = entering[b]
    BY <1>8, <2>2, <2>5
  <2> QED
    BY <1>1, <1>2, <1>3, <1>8, <1>9, <1>10, <1>12, <2>1, <2>6 DEF RunsFor, b
<1> QED
  BY <1>11, <1>12

--------------------------------------------------------------------------------
(* A list in which no thread is twice is not longer than there are threads.  *)
LEMMA NotLonger ==
  ASSUME NEW q \in Seq(Threads), OnceEach(q)
  PROVE  Len(q) \in Nat /\ Cardinality(Threads) \in Nat /\ Len(q) <= Cardinality(Threads)
BY ThreadsAssumption, OnceEachCardinality, Members, FS_Subset, FS_CardinalityType

(* The loop over the donators of a thread finds those of its list.           *)
LEMMA DonatorsAre ==
  ASSUME firstDonator \in [Threads -> Thread0], nextDonator \in [Threads -> Thread0],
         NEW t \in Threads, NEW q \in Seq(Threads), OnceEach(q),
         Linked(q, firstDonator[t], nextDonator)
  PROVE  Donators(t) = ToSet(q)
<1> DEFINE N == Cardinality(Threads)
           Is(f) == f = [i \in 0 .. N |-> IF i = 0 THEN firstDonator[t] ELSE After(f[i - 1], nextDonator)]
           link == CHOOSE f : Is(f)
           At(i) == IF i < Len(q) THEN q[i + 1] ELSE None
<1>1. Donators(t) = {link[i] : i \in 0 .. N} \ {None}
  BY DEF Donators, After
<1>2. /\ Len(q) \in Nat /\ N \in Nat /\ Len(q) <= N /\ None \notin Threads
      /\ \A i \in 1 .. Len(q) : q[i] \in Threads
  BY NotLonger, Members, ThreadsAssumption
<1> HIDE DEF N
<1>3. firstDonator[t] = At(0)
  BY <1>2 DEF Linked, First
<1>4. ASSUME NEW i \in 1 .. N PROVE At(i) = After(At(i - 1), nextDonator)
  <2>1. CASE i - 1 < Len(q)
    <3>1. i \in 1 .. Len(q) /\ At(i - 1) = q[i]
      BY <1>2, <2>1
    <3>2. nextDonator[q[i]] = IF i = Len(q) THEN None ELSE q[i + 1]
      BY <3>1 DEF Linked
    <3>3. At(i) = IF i = Len(q) THEN None ELSE q[i + 1]
      BY <1>2, <3>1
    <3> HIDE DEF At
    <3> QED
      BY <1>2, <3>1, <3>2, <3>3 DEF After
  <2>2. CASE ~(i - 1 < Len(q))
    BY <1>2, <2>2 DEF After
  <2> QED
    BY <2>1, <2>2
<1> HIDE DEF At
<1>5. Is([i \in 0 .. N |-> At(i)])
  <2> DEFINE f == [i \in 0 .. N |-> At(i)]
  <2>1. \A i \in 0 .. N : f[i] = IF i = 0 THEN firstDonator[t] ELSE After(f[i - 1], nextDonator)
    BY <1>2, <1>3, <1>4
  <2> QED
    BY <2>1
<1>6. Is(link)
  BY <1>5
<1> HIDE DEF link
<1>7. link[0] = At(0) /\ \A n \in 1 .. N : link[n] = After(link[n - 1], nextDonator)
  <2>1. \A n \in 0 .. N : link[n] = IF n = 0 THEN firstDonator[t] ELSE After(link[n - 1], nextDonator)
    BY <1>6
  <2>2. 0 \in 0 .. N /\ \A n \in 1 .. N : n \in 0 .. N /\ n # 0
    BY <1>2
  <2> QED
    BY <1>3, <2>1, <2>2
<1> DEFINE G == {n \in 0 .. N : link[n] = At(n)}
<1>8. 0 \in G
  BY <1>2, <1>7
<1>9. ASSUME NEW n \in 1 .. N, n - 1 \in G PROVE n \in G
  BY <1>2, <1>4, <1>7, <1>9
<1> HIDE DEF G
<1>10. \A n \in 0 .. N : n \in G
  BY <1>2, <1>8, <1>9, Upwards
<1>11. \A n \in 0 .. N : link[n] = At(n)
  BY <1>10 DEF G
<1>12. ASSUME NEW u, u \in Donators(t) PROVE u \in ToSet(q)
  <2>1. PICK i \in 0 .. N : u = link[i] /\ u # None
    BY <1>1, <1>12
  <2>2. i < Len(q) /\ u = q[i + 1]
    BY <1>11, <2>1 DEF At
  <2>3. i + 1 \in 1 .. Len(q)
    BY <1>2, <2>2
  <2> QED
    BY <2>2, <2>3, Members
<1>13. ASSUME NEW u, u \in ToSet(q) PROVE u \in Donators(t)
  <2>1. PICK j \in 1 .. Len(q) : u = q[j]
    BY <1>13, Members
  <2>2. j - 1 \in 0 .. N /\ j - 1 < Len(q) /\ j - 1 + 1 = j
    BY <1>2
  <2>3. link[j - 1] = u
    BY <1>11, <2>1, <2>2 DEF At
  <2> QED
    BY <1>1, <1>2, <2>1, <2>2, <2>3
<1> QED
  BY <1>12, <1>13

--------------------------------------------------------------------------------
(* The scheduler.  The thread that must make progress may run.               *)
LEMMA ChoiceLives ==
  ASSUME SectionsInv, Choice # None
  PROVE  Choice \in Threads /\ state[Choice] = "runnable"
<1>1. Choice = IF lockLevel > 0 THEN locked ELSE First(eligible)
  BY DEF SectionsInv, KernelTypes, Choice, HandlerRuns
<1>2. CASE lockLevel > 0
  BY <1>1, <1>2 DEF SectionsInv, KernelTypes, Live, Thread0
<1>3. CASE ~(lockLevel > 0)
  <2>1. eligible \in Seq(Threads) /\ eligible # <<>> /\ Choice = eligible[1]
    BY <1>1, <1>3 DEF First, SectionsInv, KernelTypes
  <2>2. 1 \in 1 .. Len(eligible)
    BY <2>1
  <2>3. Choice \in Threads /\ Choice \in ToSet(eligible)
    BY <2>1, <2>2, Members
  <2> QED
    BY <2>3 DEF SectionsInv, Live
<1> QED
  BY <1>2, <1>3

(* Nobody donates to a thread without a list.                                *)
LEMMA NoDonors ==
  ASSUME SectionsInv, NEW t \in Threads, donateTarget[t] = None, firstDonator[t] = None
  PROVE  \A d \in Threads : donateTarget[d] # t
<1>1. PICK q \in Seq(Threads) :
        OnceEach(q) /\ ToSet(q) = DonorsOf(t) /\ Linked(q, firstDonator[t], nextDonator)
  BY DEF SectionsInv, Listed
<1>2. q = <<>>
  <2>1. q # <<>> => Head(q) \in Threads
    OBVIOUS
  <2> QED
    BY <1>1, <2>1, ThreadsAssumption DEF Linked, First
<1>3. ToSet(q) = {}
  BY <1>2, EmptySorted
<1> QED
  BY <1>1, <1>3 DEF DonorsOf

(* A thread with a list is to stop when it leaves its section.               *)
LEMMA HasDonor ==
  ASSUME SectionsInv, NEW t \in Threads, donateTarget[t] = None, firstDonator[t] # None
  PROVE  killed[t] /\ pc[t] \notin {"idle", "testFlag"} /\ state[t] = "runnable"
<1>1. PICK q \in Seq(Threads) :
        OnceEach(q) /\ ToSet(q) = DonorsOf(t) /\ Linked(q, firstDonator[t], nextDonator)
  BY DEF SectionsInv, Listed
<1>2. q # <<>>
  BY <1>1 DEF Linked, First
<1>3. 1 \in 1 .. Len(q) /\ q[1] \in Threads
  BY <1>2
<1>4. donateTarget[q[1]] = t
  BY <1>1, <1>3, Members DEF DonorsOf
<1>5. t # None
  BY ThreadsAssumption
<1> QED
  BY <1>3, <1>4, <1>5 DEF SectionsInv, Donates

(* What is so of the thread that runs.                                       *)
RunsRight(t) ==
  /\ ~recheck /\ selected = Choice /\ selected \in Threads /\ t # None
  /\ donateTarget[t] = None /\ entering[t] = None /\ state[t] # "stopped"
  /\ pc[t] = "idle" => t = Choice
  /\ state[t] = "runnable" \/ pc[t] \in Leaving
  /\ t = Base \/ Helps

LEMMA RunningThread ==
  ASSUME SectionsInv, NEW t \in Threads, Runs(t)
  PROVE  RunsRight(t)
<1>1. /\ ~disabled /\ current = t /\ t # None /\ ~recheck /\ entering[t] = None
      /\ selected = Choice /\ selected # None /\ (t = Base \/ Helps)
  BY ThreadsAssumption DEF SectionsInv, Due, Runs
<1>2. selected \in Threads /\ state[selected] = "runnable"
  BY <1>1, ChoiceLives
<1>3. CASE t = Base
  <2>1. CASE donateTarget[selected] # None
    <3>1. t = donateTarget[selected]
      BY <1>3, <2>1 DEF Base
    <3>2. pc[t] # "idle" /\ state[t] = "runnable"
      BY <1>2, <2>1, <3>1 DEF SectionsInv, Donates
    <3>3. donateTarget[t] = None
      BY <3>2 DEF SectionsInv, Donates
    <3> QED
      BY <1>1, <1>2, <3>2, <3>3 DEF RunsRight
  <2>2. CASE donateTarget[selected] = None
    BY <1>1, <1>2, <1>3, <2>2 DEF Base, RunsRight
  <2> QED
    BY <2>1, <2>2
<1>4. CASE Helps
  <2>1. waitingSection \in Sections
    BY <1>4 DEF Helps, SectionsInv, KernelTypes, Section0
  <2>2. CASE owner[waitingSection] = t
    <3>1. Owns(t, waitingSection)
      BY <1>1, <2>1, <2>2 DEF SectionsInv, Owners
    <3>2. pc[t] # "idle" /\ state[t] = "runnable"
      BY <3>1 DEF Owns, Announcing, Inside
    <3>3. donateTarget[t] = None
      BY <3>2 DEF SectionsInv, Donates
    <3> QED
      BY <1>1, <1>2, <3>2, <3>3 DEF RunsRight
  <2>3. CASE pc[t] \in Leaving
    <3>1. pc[t] # "idle" /\ state[t] # "stopped"
      BY <2>3 DEF Leaving, SectionsInv, InLibrary
    <3>2. donateTarget[t] = None
      BY <3>1 DEF SectionsInv, Donates
    <3> QED
      BY <1>1, <1>2, <2>3, <3>1, <3>2 DEF RunsRight
  <2> QED
    BY <1>1, <1>4, <2>2, <2>3 DEF Helps
<1> QED
  BY <1>1, <1>3, <1>4

(* A thread that runs in a section owns it.                                  *)
LEMMA RunsInside ==
  ASSUME SectionsInv, NEW t \in Threads, Runs(t), pc[t] \in Inside \union {"result"}
  PROVE  using[t] \in Sections /\ owner[using[t]] = t /\ state[t] = "runnable"
<1>1. entering[t] = None /\ (state[t] = "runnable" \/ pc[t] \in Leaving)
  BY RunningThread DEF RunsRight
<1>2. pc[t] # "idle" /\ pc[t] \notin Leaving
  BY DEF Inside, Leaving
<1>3. using[t] \in Sections
  BY <1>2 DEF SectionsInv, InLibrary, LibraryTypes, Section0
<1> QED
  BY <1>1, <1>2, <1>3 DEF SectionsInv, InLibrary

--------------------------------------------------------------------------------
(* A step that leaves sections and the choice alone: at most the thread that *)
(* runs inside its section goes on there, and no thread stops, or no longer  *)
(* can run, but one outside of the library that waits ...                    *)
Still(t) ==
  /\ UNCHANGED <<using, entering, owner, reschedAfterLeave, msectionCount, userEntering, choice,
                 partition, kind>>
  /\ \/ ~disabled' /\ UNCHANGED <<disabled, recheck>>
     \/ disabled' /\ (disabled \/ (Runs(t) /\ pc[t] \notin Announcing))
  /\ \A u \in Threads \ {t} : pc'[u] = pc[u]
  /\ \/ pc'[t] = pc[t]
     \/ Runs(t) /\ pc[t] \in Inside \union {"result"} /\ pc'[t] \in Inside \union {"result"}
  /\ \A u \in Threads : state'[u] = "stopped" => state[u] = "stopped"
  /\ \A u \in Threads : pc[u] # "idle" /\ state[u] = "runnable" => state'[u] = "runnable"

(* ... and the donators too.                                                 *)
Calm(t) ==
  /\ Still(t) /\ UNCHANGED stops
  /\ \A u \in Threads : pc[u] # "idle" => killed'[u] = killed[u]

(* Either the choice is still right, or it will be made again.               *)
ChosenAgain == recheck' \/ (~recheck /\ Choice' = Choice)

(* Such steps keep what is so of each thread, of owners and of donators.     *)
LEMMA StillInLibrary ==
  ASSUME SectionsInv, NEW t \in Threads, Still(t), NEW u \in Threads
  PROVE  InLibrary(u)'
<1>1. /\ using' = using /\ entering' = entering /\ owner' = owner /\ current' = current
      /\ userEntering' = userEntering /\ msectionCount' = msectionCount
  BY DEF Still, choice
<1>2. InLibrary(u) /\ (state'[u] = "stopped" => state[u] = "stopped")
  BY DEF SectionsInv, Still
<1>3. CASE pc'[u] = pc[u]
  <2>1. ASSUME entering[u] = None, pc[u] \in {"test", "claim", "help"} PROVE Runs(u)'
    <3>1. Runs(u) /\ pc[u] \in Announcing
      BY <1>2, <2>1 DEF InLibrary, Announcing
    <3>2. ~disabled'
      BY <3>1 DEF Still, Runs
    <3> QED
      BY <1>1, <3>1, <3>2 DEF Runs
  <2> QED
    BY <1>1, <1>2, <1>3, <2>1 DEF InLibrary
<1>4. CASE pc'[u] # pc[u]
  <2>1. /\ u = t /\ Runs(t) /\ pc[t] \in Inside \union {"result"} /\ pc'[t] \in Inside \union {"result"}
    BY <1>4 DEF Still
  <2>2. using[t] \in Sections /\ owner[using[t]] = t /\ state[t] = "runnable" /\ entering[t] = None
    BY <2>1, RunsInside, RunningThread DEF RunsRight
  <2>3. using[t] # None
    BY <2>2, ThreadsAssumption
  <2>4. ~(pc[t] \in Announcing \union Outside) /\ ~(pc'[t] \in Announcing \union Outside)
    BY <2>1 DEF Inside, Announcing, Outside
  <2> QED
    BY <1>1, <1>2, <2>1, <2>2, <2>3, <2>4 DEF InLibrary, Announcing, Outside
<1> QED
  BY <1>3, <1>4

LEMMA StillOwners ==
  ASSUME SectionsInv, NEW t \in Threads, Still(t)
  PROVE  Owners'
<1> SUFFICES ASSUME NEW s \in Sections, owner'[s] # None PROVE Owns(owner[s], s)' /\ owner' = owner
  BY DEF Owners
<1>1. owner' = owner /\ using' = using
  BY DEF Still
<1>2. PICK o \in Threads : o = owner[s] /\ Owns(o, s)
  BY <1>1 DEF SectionsInv, Owners, LibraryTypes, Thread0
<1>3. pc[o] # "idle" /\ state[o] = "runnable"
  BY <1>2 DEF Owns, Announcing, Inside
<1>4. state'[o] = "runnable"
  BY <1>2, <1>3 DEF Still
<1>5. pc'[o] = pc[o] \/ pc'[o] \in Inside \union {"result"}
  BY <1>2 DEF Still
<1>6. Owns(o, s)'
  BY <1>1, <1>2, <1>4, <1>5 DEF Owns
<1> QED
  BY <1>1, <1>2, <1>6

LEMMA CalmDonates ==
  ASSUME SectionsInv, NEW t \in Threads, Calm(t), NEW d \in Threads
  PROVE  Donates(d)' /\ Listed(d)'
<1>1. /\ UNCHANGED <<donateTarget, firstDonator, nextDonator>>
      /\ \A u \in Threads : pc[u] # "idle" => killed'[u] = killed[u]
  BY DEF Calm, stops
<1>2. Listed(d)'
  <2>1. DonorsOf(d)' = DonorsOf(d)
    BY <1>1 DEF DonorsOf
  <2>2. Listed(d)
    BY DEF SectionsInv
  <2> QED
    BY <1>1, <2>1, <2>2 DEF Listed, Linked
<1>3. ASSUME donateTarget[d] # None PROVE Donates(d)'
  <2> DEFINE u == donateTarget[d]
  <2>1. /\ pc[d] = "idle" /\ state[d] # "stopped" /\ u \in Threads
        /\ killed[u] /\ pc[u] \notin {"idle", "testFlag"} /\ state[u] = "runnable"
    BY <1>3 DEF SectionsInv, Donates, KernelTypes, Thread0
  <2>2. pc'[d] = "idle" /\ state'[d] # "stopped"
    <3>1. ~(pc[d] \in Inside \union {"result"})
      BY <2>1 DEF Inside
    <3> QED
      BY <2>1, <3>1 DEF Calm, Still
  <2> HIDE DEF u
  <2>3. state'[u] = "runnable"
    BY <2>1 DEF Calm, Still
  <2>4. pc'[u] = pc[u] \/ pc'[u] \in Inside \union {"result"}
    BY <2>1 DEF Calm, Still
  <2>5. pc'[u] \notin {"idle", "testFlag"}
    BY <2>1, <2>4 DEF Inside
  <2> QED
    BY <1>1, <2>1, <2>2, <2>3, <2>5 DEF Donates, u
<1> QED
  BY <1>1, <1>2, <1>3 DEF Donates

(* The thread that runs is still the right one.                              *)
LEMMA CalmDue ==
  ASSUME SectionsInv, NEW t \in Threads, Calm(t), ChosenAgain
  PROVE  Due'
<1>1. UNCHANGED <<using, entering, owner, reschedAfterLeave, donateTarget, current, selected, waitingSection>>
  BY DEF Calm, Still, shared, choice, stops
<1>2. Base' = Base
  BY <1>1 DEF Base
<1>3. ~disabled' => ~recheck' /\ (current' # None => entering'[current'] = None)
  <2>1. ~disabled' => UNCHANGED <<disabled, recheck>>
    BY DEF Calm, Still
  <2> QED
    BY <1>1, <2>1 DEF SectionsInv, Due
<1>4. ASSUME Helps PROVE Helps'
  <2>1. /\ waitingSection # None /\ reschedAfterLeave[waitingSection]
        /\ current # None /\ current # Base /\ entering[Base] = waitingSection
    BY <1>4 DEF Helps
  <2>2. CASE owner[waitingSection] = current
    BY <1>1, <1>2, <2>1, <2>2 DEF Helps
  <2>3. CASE owner[waitingSection] = None /\ using[current] = waitingSection /\ pc[current] \in Leaving
    <3>1. current \in Threads
      BY <2>1 DEF SectionsInv, KernelTypes, Thread0
    <3>2. ~(pc[current] \in Inside \union {"result"})
      BY <2>3 DEF Inside, Leaving
    <3>3. pc'[current] = pc[current]
      BY <3>1, <3>2 DEF Calm, Still
    <3> QED
      BY <1>1, <1>2, <2>1, <2>3, <3>3 DEF Helps
  <2> QED
    BY <1>4, <2>2, <2>3 DEF Helps
<1>5. ASSUME ~recheck'
      PROVE  /\ selected' = Choice'
             /\ selected' = None => current' = None
             /\ selected' # None => current' = Base' \/ Helps'
  <2>1. ~recheck /\ Choice' = Choice
    BY <1>5 DEF ChosenAgain
  <2> QED
    BY <1>1, <1>2, <1>4, <2>1 DEF SectionsInv, Due
<1> QED
  BY <1>3, <1>5 DEF Due

(* A calm step keeps the invariant.                                          *)
LEMMA CalmStep ==
  ASSUME SectionsInv, NEW t \in Threads, Calm(t), ChosenAgain,
         KernelTypes', LibraryTypes', Awoken', Live'
  PROVE  SectionsInv'
BY StillInLibrary, StillOwners, CalmDonates, CalmDue DEF SectionsInv, Calm

--------------------------------------------------------------------------------
(* The list of eligible threads after a call: of threads that can run, and a *)
(* recheck is asked for if the first is another.                             *)
LEMMA Requeued ==
  ASSUME SectionsInv, NEW q \in Seq(Threads), NEW force \in BOOLEAN, Requeue(q, force),
         \A u \in ToSet(q) : state'[u] = "runnable",
         lockLevel > 0 => state'[locked] = "runnable",
         UNCHANGED <<lock, partition>>
  PROVE  ChosenAgain /\ Live' /\ eligible' \in Seq(Threads) /\ recheck' \in BOOLEAN
<1>1. /\ eligible' = q /\ recheck' = (recheck \/ force \/ First(q) # First(eligible))
      /\ UNCHANGED <<lockLevel, locked, mode, handler, errors>>
      /\ recheck \in BOOLEAN
  BY DEF Requeue, FirstChanges, lock, partition, SectionsInv, KernelTypes
<1>2. Live'
  <2>1. \A u \in ToSet(eligible') : state'[u] = "runnable"
    BY <1>1
  <2>2. lockLevel' > 0 => locked' # None /\ state'[locked'] = "runnable"
    BY <1>1 DEF SectionsInv, Live
  <2> QED
    BY <2>1, <2>2 DEF Live
<1>3. ASSUME ~recheck' PROVE ~recheck /\ Choice' = Choice
  <2>1. ~recheck /\ First(eligible') = First(eligible)
    BY <1>1, <1>3
  <2>2. mode = "normal" /\ handler = None
    BY DEF SectionsInv, KernelTypes
  <2> QED
    BY <1>1, <2>1, <2>2 DEF Choice, HandlerRuns
<1> QED
  BY <1>1, <1>2, <1>3 DEF ChosenAgain

(* A call of the kernel, or the expiry of a delay, that is about the state   *)
(* of threads only.                                                          *)
Quiet ==
  /\ UNCHANGED <<entering, shared, queue, stops, choice, partition, kind>>
  /\ GoOut(Stopped) \/ UNCHANGED <<pc, using>>
  /\ disabled' = TRUE
  /\ \A u \in Threads : \/ state'[u] = state[u]
                        \/ state'[u] = "runnable"
                        \/ state'[u] = "waiting" /\ pc[u] = "idle"

(* If nobody stops, no thread goes out of the library.                       *)
LEMMA GoOutNobody ==
  ASSUME SectionsInv, GoOut(Stopped), \A u \in Threads : state'[u] = "stopped" => state[u] = "stopped"
  PROVE  pc' = pc /\ using' = using
<1>1. \A u \in Stopped : u \in Threads /\ pc[u] = "idle" /\ using[u] = None
  BY DEF Stopped, SectionsInv, InLibrary
<1>2. pc = [u \in Threads |-> pc[u]] /\ using = [u \in Threads |-> using[u]]
  BY DEF SectionsInv, LibraryTypes
<1>3. /\ pc' = [u \in Threads |-> IF u \in Stopped THEN "idle" ELSE pc[u]]
      /\ using' = [u \in Threads |-> IF u \in Stopped THEN None ELSE using[u]]
  BY DEF GoOut
<1> HIDE DEF Stopped
<1> QED
  BY <1>1, <1>2, <1>3

(* A quiet step keeps the invariant.                                         *)
LEMMA QuietStep ==
  ASSUME SectionsInv, NEW t \in Threads, disabled \/ (Runs(t) /\ pc[t] \notin Announcing), Quiet,
         KernelTypes', Live', ChosenAgain
  PROVE  SectionsInv'
<1>1. \A u \in Threads : state'[u] = "stopped" => state[u] = "stopped"
  BY DEF Quiet
<1>2. pc' = pc /\ using' = using
  BY <1>1, GoOutNobody DEF Quiet
<1>3. Calm(t)
  BY <1>1, <1>2 DEF Quiet, Calm, Still, shared
<1>4. LibraryTypes' /\ Awoken'
  BY <1>2 DEF Quiet, shared, SectionsInv, LibraryTypes, Awoken
<1> QED
  BY <1>3, <1>4, CalmStep

(* What a call of a thread outside of the library leaves alone.              *)
Outer(t) == pc[t] = "idle" /\ GoOut(Stopped) /\ UNCHANGED <<queue, partition, kind>>

LEMMA SleepStep ==
  ASSUME SectionsInv, NEW t \in Threads, Sleep(t), Outer(t)
  PROVE  SectionsInv'
<1>1. /\ Runs(t) /\ disabled' = TRUE /\ pc[t] = "idle" /\ lockLevel = 0
      /\ state' = [state EXCEPT ![t] = "waiting"] /\ Requeue(Without(eligible, {t}), FALSE)
      /\ UNCHANGED <<suspended, priority, entering, stops, lock, choice, shared>>
  BY DEF Sleep, WaitUntil, SysCall, Runs, WaitingAllowed, Outer
<1>2. Without(eligible, {t}) \in Seq(Threads) /\ ToSet(Without(eligible, {t})) = ToSet(eligible) \ {t}
  BY WithoutOK DEF SectionsInv, KernelTypes
<1>3. state \in [Threads -> {"stopped", "runnable", "waiting"}] /\ ToSet(eligible) \subseteq Threads
  BY Members DEF SectionsInv, KernelTypes
<1>4. \A u \in ToSet(Without(eligible, {t})) : state'[u] = "runnable"
  BY <1>1, <1>2, <1>3 DEF SectionsInv, Live
<1>5. ChosenAgain /\ Live' /\ eligible' \in Seq(Threads) /\ recheck' \in BOOLEAN
  <2>1. UNCHANGED <<lock, partition>> /\ ~(lockLevel > 0)
    BY <1>1 DEF Outer
  <2> QED
    BY <1>1, <1>2, <1>4, <2>1, Requeued
<1>6. Quiet
  BY <1>1, <1>3 DEF Quiet, Outer
<1>7. KernelTypes'
  BY <1>1, <1>3, <1>5 DEF SectionsInv, KernelTypes, lock, choice, stops, Outer, partition
<1>8. pc[t] \notin Announcing
  BY <1>1 DEF Announcing
<1> QED
  BY <1>1, <1>5, <1>6, <1>7, <1>8, QuietStep

(* LOCK_PREEMPTION, UNLOCK_PREEMPTION.                                       *)
LEMMA LockStep ==
  ASSUME SectionsInv, NEW t \in Threads, Lock(t) \/ Unlock(t), Outer(t)
  PROVE  SectionsInv'
<1>1. /\ Runs(t) /\ disabled' = TRUE /\ pc[t] = "idle"
      /\ UNCHANGED <<state, suspended, priority, entering, stops, choice, shared>>
  BY DEF Lock, Unlock, SysCall, Runs, Outer
<1>2. t = Choice /\ state[t] = "runnable" /\ ~recheck /\ t # None
  BY <1>1, RunningThread DEF RunsRight, Leaving
<1>3. /\ mode' = "normal" /\ handler' = None /\ mode = "normal" /\ handler = None
      /\ lockLevel \in Nat /\ locked \in Thread0
  BY DEF Outer, partition, SectionsInv, KernelTypes
<1>4. Quiet
  BY <1>1 DEF Quiet, Outer
<1>5. CASE Lock(t)
  <2>1. lockLevel' = lockLevel + 1 /\ locked' = t /\ UNCHANGED <<eligible, recheck>>
    BY <1>5 DEF Lock
  <2>2. lockLevel' > 0 /\ lockLevel' \in Nat
    BY <1>3, <2>1
  <2>3. Choice' = t
    BY <1>3, <2>1, <2>2 DEF Choice, HandlerRuns
  <2>4. Live'
    BY <1>1, <1>2, <2>1 DEF SectionsInv, Live
  <2>5. KernelTypes'
    BY <1>1, <1>3, <2>1, <2>2 DEF SectionsInv, KernelTypes, choice, stops, Outer, partition, Thread0
  <2> QED
    BY <1>1, <1>2, <1>4, <2>3, <2>4, <2>5, QuietStep DEF ChosenAgain, Announcing
<1>6. CASE Unlock(t)
  <2>1. /\ lockLevel > 0 /\ lockLevel' = lockLevel - 1
        /\ locked' = IF lockLevel' = 0 THEN None ELSE locked
        /\ eligible' = eligible
        /\ recheck' = (recheck \/ (lockLevel' = 0 /\ First(eligible) # t) \/ FALSE)
    BY <1>6 DEF Unlock, Requeue, FirstChanges
  <2>2. lockLevel' \in Nat /\ locked' \in Thread0 /\ recheck' \in BOOLEAN
    BY <1>2, <1>3, <2>1 DEF Thread0
  <2>3. locked = t
    BY <1>2, <1>3, <2>1 DEF Choice, HandlerRuns
  <2>4. ASSUME ~recheck' PROVE Choice' = t
    <3>1. CASE lockLevel' = 0
      <4>1. First(eligible') = t
        BY <2>1, <2>4, <3>1
      <4> QED
        BY <1>3, <3>1, <4>1 DEF Choice, HandlerRuns
    <3>2. CASE lockLevel' # 0
      <4>1. locked' = t
        BY <2>1, <2>3, <3>2
      <4>2. lockLevel' > 0
        BY <2>2, <3>2
      <4> QED
        BY <1>3, <4>1, <4>2 DEF Choice, HandlerRuns
    <3> QED
      BY <3>1, <3>2
  <2>5. Live'
    <3>1. lockLevel' > 0 => locked' = t
      BY <2>1, <2>2, <2>3
    <3> QED
      BY <1>1, <1>2, <2>1, <3>1 DEF SectionsInv, Live
  <2>6. KernelTypes'
    BY <1>1, <1>3, <2>1, <2>2 DEF SectionsInv, KernelTypes, choice, stops, Outer, partition
  <2> QED
    BY <1>1, <1>2, <1>4, <2>4, <2>5, <2>6, QuietStep DEF ChosenAgain, Announcing
<1> QED
  BY <1>5, <1>6

(* A thread that yields stays eligible.                                      *)
LEMMA YieldedWithin ==
  ASSUME eligible \in Seq(Threads), NEW u \in ToSet(eligible), NEW prio \in [Threads -> Nat]
  PROVE  Yielded(u, prio) \in Seq(Threads) /\ ToSet(Yielded(u, prio)) = ToSet(eligible)
<1>1. u \in Threads
  BY Members
<1>2. Without(eligible, {u}) \in Seq(Threads) /\ ToSet(Without(eligible, {u})) = ToSet(eligible) \ {u}
  BY WithoutOK
<1> DEFINE w == Without(eligible, {u})
<1>3. Yielded(u, prio) = Enqueue(w, u, prio)
  BY DEF Yielded
<1> HIDE DEF w
<1>4. w \in Seq(Threads) /\ ToSet(w) = ToSet(eligible) \ {u}
  BY <1>2 DEF w
<1>5. Enqueue(w, u, prio) \in Seq(Threads) /\ ToSet(Enqueue(w, u, prio)) = ToSet(w) \union {u}
  BY <1>1, <1>4, EnqueueOK
<1> QED
  BY <1>3, <1>4, <1>5

(* SET_PRIORITY.                                                             *)
LEMMA SetPriorityStep ==
  ASSUME SectionsInv, NEW t \in Threads, NEW u \in Threads, NEW p \in Priorities,
         SetPriority(t, u, p), Outer(t)
  PROVE  SectionsInv'
<1>1. /\ Runs(t) /\ disabled' = TRUE /\ pc[t] = "idle"
      /\ priority' = [priority EXCEPT ![u] = p]
      /\ UNCHANGED <<state, suspended, entering, stops, lock, choice, shared>>
  BY DEF SetPriority, SysCall, Runs, Outer
<1>2. priority' \in [Threads -> Nat] /\ eligible \in Seq(Threads)
  BY <1>1, ThreadsAssumption DEF SectionsInv, KernelTypes
<1>3. \A v \in ToSet(eligible) : state'[v] = "runnable"
  BY <1>1 DEF SectionsInv, Live
<1>4. UNCHANGED <<lock, partition>> /\ (lockLevel > 0 => state'[locked] = "runnable")
  BY <1>1 DEF Outer, SectionsInv, Live
<1>5. ChosenAgain /\ Live' /\ eligible' \in Seq(Threads) /\ recheck' \in BOOLEAN
  <2>1. CASE u \in ToSet(eligible)
    <3>1. Requeue(Yielded(u, priority'), First(eligible) = u)
      BY <2>1 DEF SetPriority
    <3>2. Yielded(u, priority') \in Seq(Threads) /\ ToSet(Yielded(u, priority')) = ToSet(eligible)
      BY <1>2, <2>1, YieldedWithin
    <3> QED
      BY <1>3, <1>4, <3>1, <3>2, Requeued
  <2>2. CASE u \notin ToSet(eligible)
    <3>1. UNCHANGED <<eligible, recheck>>
      BY <2>2 DEF SetPriority
    <3>2. Choice' = Choice
      BY <1>4, <3>1 DEF Choice, HandlerRuns, SectionsInv, KernelTypes, lock, partition
    <3>3. recheck' \in BOOLEAN /\ ~recheck
      BY <1>1, <3>1, RunningThread DEF SectionsInv, KernelTypes, RunsRight
    <3> QED
      BY <1>1, <1>2, <1>3, <1>4, <3>1, <3>2, <3>3 DEF ChosenAgain, SectionsInv, Live, lock
  <2> QED
    BY <2>1, <2>2
<1>6. Quiet
  BY <1>1 DEF Quiet, Outer
<1>7. KernelTypes'
  BY <1>1, <1>2, <1>5 DEF SectionsInv, KernelTypes, lock, choice, stops, Outer, partition
<1> QED
  BY <1>1, <1>5, <1>6, <1>7, QuietStep DEF Announcing

(* SUSPEND of another thread.                                                *)
LEMMA SuspendStep ==
  ASSUME SectionsInv, NEW t \in Threads, NEW u \in Threads, Suspend(t, u), Outer(t)
  PROVE  SectionsInv'
<1>1. /\ Runs(t) /\ disabled' = TRUE /\ pc[t] = "idle"
      /\ suspended' = [suspended EXCEPT ![u] = TRUE] /\ Requeue(Without(eligible, {u}), FALSE)
      /\ UNCHANGED <<state, priority, entering, stops, lock, choice, shared>>
  BY DEF Suspend, SysCall, Runs, Outer
<1>2. Without(eligible, {u}) \in Seq(Threads) /\ ToSet(Without(eligible, {u})) = ToSet(eligible) \ {u}
  BY WithoutOK DEF SectionsInv, KernelTypes
<1>3. \A v \in ToSet(Without(eligible, {u})) : state'[v] = "runnable"
  BY <1>1, <1>2 DEF SectionsInv, Live
<1>4. UNCHANGED <<lock, partition>> /\ (lockLevel > 0 => state'[locked] = "runnable")
  BY <1>1 DEF Outer, SectionsInv, Live
<1>5. ChosenAgain /\ Live' /\ eligible' \in Seq(Threads) /\ recheck' \in BOOLEAN
  BY <1>1, <1>2, <1>3, <1>4, Requeued
<1>6. Quiet
  BY <1>1 DEF Quiet, Outer
<1>7. KernelTypes'
  BY <1>1, <1>5 DEF SectionsInv, KernelTypes, lock, choice, stops, Outer, partition
<1> QED
  BY <1>1, <1>5, <1>6, <1>7, QuietStep DEF Announcing

(* A thread whose suspension ends.                                           *)
LEMMA ResumeStep ==
  ASSUME SectionsInv, NEW t \in Threads, NEW u \in Threads, Resume(t, u), Outer(t)
  PROVE  SectionsInv'
<1>1. /\ Runs(t) /\ disabled' = TRUE /\ pc[t] = "idle"
      /\ suspended' = [suspended EXCEPT ![u] = FALSE]
      /\ state' = [state EXCEPT ![u] = "runnable"] \/ state' = state
      /\ Requeue(IF state'[u] = "runnable" THEN Enqueue(eligible, u, priority) ELSE eligible, FALSE)
      /\ UNCHANGED <<priority, entering, stops, lock, choice, shared>>
  BY DEF Resume, SysCall, Runs, Outer
<1>2. /\ eligible \in Seq(Threads) /\ priority \in [Threads -> Nat]
      /\ state \in [Threads -> {"stopped", "runnable", "waiting"}] /\ locked \in Thread0
      /\ ToSet(eligible) \subseteq Threads
  BY Members DEF SectionsInv, KernelTypes
<1>3. \A v \in Threads : state'[v] = state[v] \/ state'[v] = "runnable"
  BY <1>1, <1>2
<1>4. UNCHANGED <<lock, partition>> /\ (lockLevel > 0 => state'[locked] = "runnable")
  BY <1>1, <1>2, <1>3 DEF Outer, SectionsInv, Live, Thread0
<1> DEFINE q == IF state'[u] = "runnable" THEN Enqueue(eligible, u, priority) ELSE eligible
<1>5. q \in Seq(Threads) /\ \A v \in ToSet(q) : state'[v] = "runnable"
  <2>1. \A v \in ToSet(eligible) : state'[v] = "runnable"
    BY <1>2, <1>3 DEF SectionsInv, Live
  <2>2. CASE state'[u] = "runnable"
    BY <1>2, <2>1, <2>2, EnqueueOK
  <2>3. CASE state'[u] # "runnable"
    BY <1>2, <2>1, <2>3
  <2> QED
    BY <2>2, <2>3
<1> HIDE DEF q
<1>6. Requeue(q, FALSE)
  BY <1>1 DEF q
<1>7. ChosenAgain /\ Live' /\ eligible' \in Seq(Threads) /\ recheck' \in BOOLEAN
  BY <1>4, <1>5, <1>6, Requeued
<1>8. Quiet
  BY <1>1, <1>3 DEF Quiet, Outer
<1>9. KernelTypes'
  BY <1>1, <1>2, <1>7 DEF SectionsInv, KernelTypes, lock, choice, stops, Outer, partition
<1> QED
  BY <1>1, <1>7, <1>8, <1>9, QuietStep DEF Announcing

(* thread_wake_up of a list of threads.                                      *)
LEMMA WokenUp ==
  ASSUME SectionsInv, NEW q \in Seq(Threads), NEW result, NEW force \in BOOLEAN,
         WakeUp(q, result, force), UNCHANGED <<lock, partition>>
  PROVE  /\ ChosenAgain /\ Live' /\ eligible' \in Seq(Threads) /\ recheck' \in BOOLEAN
         /\ state' \in [Threads -> {"stopped", "runnable", "waiting"}]
         /\ \A u \in Threads : state'[u] = IF u \in ToSet(q) THEN "runnable" ELSE state[u]
         /\ UNCHANGED <<suspended, priority, entering>>
<1>1. /\ state' = [u \in Threads |-> IF u \in ToSet(q) THEN "runnable" ELSE state[u]]
      /\ Requeue(ReadyAll(eligible, q), force)
      /\ UNCHANGED <<suspended, priority, entering>>
  BY DEF WakeUp
<1>2. /\ eligible \in Seq(Threads) /\ Typed /\ locked \in Thread0
      /\ state \in [Threads -> {"stopped", "runnable", "waiting"}]
  BY DEF SectionsInv, KernelTypes, Typed
<1>3. /\ state' \in [Threads -> {"stopped", "runnable", "waiting"}]
      /\ \A u \in Threads : state'[u] = IF u \in ToSet(q) THEN "runnable" ELSE state[u]
  BY <1>1, <1>2
<1> DEFINE S == {u \in Threads : state'[u] = "runnable"}
<1>4. ToSet(eligible) \subseteq S /\ ToSet(q) \subseteq S
  BY <1>2, <1>3, Members DEF SectionsInv, Live
<1>5. ReadyAll(eligible, q) \in Seq(Threads) /\ ToSet(ReadyAll(eligible, q)) \subseteq S
  <2> HIDE DEF S
  <2> QED
    BY <1>2, <1>4, ReadyAllWithin
<1>6. lockLevel > 0 => state'[locked] = "runnable"
  BY <1>2, <1>3 DEF SectionsInv, Live, Thread0
<1>7. ChosenAgain /\ Live' /\ eligible' \in Seq(Threads) /\ recheck' \in BOOLEAN
  BY <1>1, <1>5, <1>6, Requeued
<1> QED
  BY <1>1, <1>3, <1>7

(* The time of a thread is over.                                             *)
LEMMA ExpireStep ==
  ASSUME SectionsInv, NEW t \in Threads, Expire(t), UNCHANGED <<pc, using, queue, partition, kind>>
  PROVE  SectionsInv'
<1>1. /\ disabled /\ disabled' = TRUE /\ UNCHANGED <<stops, lock, choice, shared>>
  BY DEF Expire, SectionsInv, KernelTypes
<1>2. CASE WakeUp(<<t>>, "timeout", FALSE)
  <2>1. <<t>> \in Seq(Threads)
    OBVIOUS
  <2>2. /\ ChosenAgain /\ Live' /\ eligible' \in Seq(Threads) /\ recheck' \in BOOLEAN
        /\ state' \in [Threads -> {"stopped", "runnable", "waiting"}]
        /\ \A u \in Threads : state'[u] = IF u \in ToSet(<<t>>) THEN "runnable" ELSE state[u]
        /\ UNCHANGED <<suspended, priority, entering>>
    BY <1>1, <1>2, <2>1, WokenUp
  <2>3. Quiet
    BY <1>1, <2>2 DEF Quiet
  <2>4. KernelTypes'
    BY <1>1, <2>2 DEF SectionsInv, KernelTypes, lock, choice, stops, partition
  <2> QED
    BY <1>1, <2>2, <2>3, <2>4, QuietStep
<1>3. CASE /\ suspended' = [suspended EXCEPT ![t] = FALSE]
           /\ state' = [state EXCEPT ![t] = "runnable"]
           /\ Requeue(Enqueue(eligible, t, priority), FALSE)
           /\ UNCHANGED <<priority, waitResult, entering>>
  <2>1. /\ eligible \in Seq(Threads) /\ priority \in [Threads -> Nat]
        /\ state \in [Threads -> {"stopped", "runnable", "waiting"}] /\ locked \in Thread0
        /\ ToSet(eligible) \subseteq Threads
    BY Members DEF SectionsInv, KernelTypes
  <2>2. \A v \in Threads : state'[v] = IF v = t THEN "runnable" ELSE state[v]
    BY <1>3, <2>1
  <2>3. UNCHANGED <<lock, partition>> /\ (lockLevel > 0 => state'[locked] = "runnable")
    BY <1>1, <2>1, <2>2 DEF SectionsInv, Live, Thread0
  <2>4. /\ Enqueue(eligible, t, priority) \in Seq(Threads)
        /\ ToSet(Enqueue(eligible, t, priority)) = ToSet(eligible) \union {t}
    BY <2>1, EnqueueOK
  <2>5. \A v \in ToSet(Enqueue(eligible, t, priority)) : state'[v] = "runnable"
    BY <2>1, <2>2, <2>4 DEF SectionsInv, Live
  <2>6. ChosenAgain /\ Live' /\ eligible' \in Seq(Threads) /\ recheck' \in BOOLEAN
    BY <1>3, <2>3, <2>4, <2>5, Requeued
  <2>7. Quiet
    BY <1>1, <1>3, <2>2 DEF Quiet
  <2>8. KernelTypes'
    BY <1>1, <1>3, <2>1, <2>6 DEF SectionsInv, KernelTypes, lock, choice, stops, partition
  <2> QED
    BY <1>1, <2>6, <2>7, <2>8, QuietStep
<1> QED
  BY <1>2, <1>3 DEF Expire

--------------------------------------------------------------------------------
(* A step of a thread inside its section, which changes the wait queue of    *)
(* this section only; it may make threads runnable.                          *)
Indoors(t, to) ==
  /\ Runs(t) /\ pc[t] \in Inside \union {"result"} /\ to \in Inside \union {"result"}
  /\ pc' = [pc EXCEPT ![t] = to]
  /\ UNCHANGED <<using, entering, shared, stops, choice, partition, kind, lock, suspended, priority>>
  /\ disabled' = TRUE \/ UNCHANGED <<disabled, recheck>>
  /\ state' \in [Threads -> {"stopped", "runnable", "waiting"}]
  /\ \A u \in Threads : state'[u] = state[u] \/ state'[u] = "runnable"

(* The queue has a first thread when the thread goes on to take it out.      *)
QueueChanges(t, to) ==
  /\ queue' \in Queues /\ Elsewhere(queue, queue', using[t])
  /\ kind \in {"semaphore", "buffer"} /\ to \in {"woken", "refill"} => queue'.first[using[t]] # None

(* Such a step keeps the invariant.                                          *)
LEMMA IndoorsStep ==
  ASSUME SectionsInv, NEW t \in Threads, NEW to, Indoors(t, to), QueueChanges(t, to),
         ChosenAgain, Live', eligible' \in Seq(Threads), recheck' \in BOOLEAN
  PROVE  SectionsInv'
<1>1. using[t] \in Sections /\ owner[using[t]] = t /\ state[t] = "runnable"
  BY RunsInside DEF Indoors
<1>2. pc \in [Threads -> Places] /\ to \in Places
  BY DEF SectionsInv, LibraryTypes, Indoors, Places
<1>3. pc'[t] = to /\ \A u \in Threads \ {t} : pc'[u] = pc[u]
  BY <1>2 DEF Indoors
<1>4. disabled' \in BOOLEAN /\ (disabled' \/ UNCHANGED <<disabled, recheck>>)
  BY DEF Indoors, SectionsInv, KernelTypes
<1>5. Calm(t)
  <2>1. ~disabled /\ pc[t] \notin Announcing
    BY DEF Indoors, Runs, Inside, Announcing
  <2>2. \A u \in Threads : /\ state'[u] = "stopped" => state[u] = "stopped"
                           /\ state[u] = "runnable" => state'[u] = "runnable"
    BY DEF Indoors
  <2>3. disabled' \/ (~disabled' /\ UNCHANGED <<disabled, recheck>>)
    BY <1>4
  <2> QED
    BY <1>3, <2>1, <2>2, <2>3 DEF Calm, Still, Indoors, shared
<1>6. KernelTypes'
  BY <1>4 DEF SectionsInv, KernelTypes, Indoors, stops, choice, partition, lock
<1>7. LibraryTypes'
  <2>1. pc' \in [Threads -> Places] /\ queue' \in Queues
    BY <1>2 DEF Indoors, QueueChanges
  <2> QED
    BY <2>1 DEF SectionsInv, LibraryTypes, Indoors, shared
<1>8. Awoken'
  <2> SUFFICES ASSUME kind \in {"semaphore", "buffer"}, NEW u \in Threads, pc'[u] \in {"woken", "refill"}
               PROVE  queue'.first[using[u]] # None
    BY DEF Awoken, Indoors
  <2>1. CASE u = t
    BY <1>3, <2>1 DEF QueueChanges
  <2>2. CASE u # t
    <3>1. pc[u] \in {"woken", "refill"}
      BY <1>3, <2>2
    <3>2. using[u] \in Section0 /\ using[u] # None /\ owner[using[u]] = u
      BY <3>1 DEF SectionsInv, InLibrary, LibraryTypes, Inside
    <3>3. using[u] \in Sections \ {using[t]}
      BY <1>1, <2>2, <3>2 DEF Section0
    <3>4. queue.first[using[u]] # None
      BY <3>1 DEF SectionsInv, Awoken
    <3> QED
      BY <3>3, <3>4 DEF QueueChanges, Elsewhere
  <2> QED
    BY <2>1, <2>2
<1> QED
  BY <1>5, <1>6, <1>7, <1>8, CalmStep

(* The kernel's part of the state does not change: the choice stays right.   *)
LEMMA NobodyWoken ==
  ASSUME SectionsInv, NEW t \in Threads, Runs(t),
         UNCHANGED <<state, suspended, priority, entering, eligible, stops, choice, recheck, lock, partition>>
  PROVE  /\ ChosenAgain /\ Live' /\ eligible' \in Seq(Threads) /\ recheck' \in BOOLEAN
         /\ state' \in [Threads -> {"stopped", "runnable", "waiting"}]
         /\ \A u \in Threads : state'[u] = state[u]
<1>1. ~recheck /\ KernelTypes /\ Live
  BY RunningThread DEF RunsRight, SectionsInv
<1>2. Choice' = Choice
  BY <1>1 DEF Choice, HandlerRuns, KernelTypes, lock, partition
<1> QED
  BY <1>1, <1>2 DEF ChosenAgain, Live, KernelTypes, lock

(* A step between two calls of the kernel, or a call that wakes up nobody.   *)
InsideOnly(t, from, to) ==
  /\ ~disabled /\ current = t /\ GoTo(t, from, to)
  /\ disabled' = TRUE \/ disabled' = disabled
  /\ UNCHANGED <<state, suspended, priority, entering, eligible, recheck, stops, lock, choice,
                 shared, using, partition, kind>>

(* Such a step keeps the invariant.                                          *)
LEMMA InsideStep ==
  ASSUME SectionsInv, NEW t \in Threads, NEW from \in Inside \union {"result"},
         NEW to \in Inside \union {"result"}, InsideOnly(t, from, to), QueueChanges(t, to)
  PROVE  SectionsInv'
<1>1. Runs(t) /\ pc[t] = from /\ pc' = [pc EXCEPT ![t] = to]
  BY DEF InsideOnly, GoTo, Runs
<1>2. /\ ChosenAgain /\ Live' /\ eligible' \in Seq(Threads) /\ recheck' \in BOOLEAN
      /\ state' \in [Threads -> {"stopped", "runnable", "waiting"}]
      /\ \A u \in Threads : state'[u] = state[u]
  BY <1>1, NobodyWoken DEF InsideOnly
<1>3. Indoors(t, to)
  BY <1>1, <1>2 DEF Indoors, InsideOnly
<1> QED
  BY <1>2, <1>3, IndoorsStep

(* What each of these steps does to the queue.                               *)
LEMMA QueueStays ==
  ASSUME SectionsInv, NEW t, NEW to, to \notin {"woken", "refill"}, queue' = queue
  PROVE  QueueChanges(t, to)
BY DEF QueueChanges, Elsewhere, SectionsInv, LibraryTypes

(* The section of a thread at a place inside it.                             *)
LEMMA UsesSection ==
  ASSUME SectionsInv, NEW t \in Threads, pc[t] # "idle"
  PROVE  using[t] \in Sections /\ queue \in Queues
BY DEF SectionsInv, InLibrary, LibraryTypes, Section0

(* The first thread leaves the queue.                                        *)
LEMMA FirstThreadOut ==
  ASSUME SectionsInv, NEW t \in Threads, pc[t] \in {"woken", "refill"}, kind \in {"semaphore", "buffer"},
         queue' = FirstOut(t)
  PROVE  QueueChanges(t, "release")
<1>1. using[t] \in Sections /\ queue \in Queues
  BY UsesSection
<1>2. queue.first[using[t]] \in Threads
  BY <1>1 DEF SectionsInv, Awoken, Queues, Thread0
<1> QED
  BY <1>1, <1>2, WqDelTyped DEF QueueChanges, FirstOut

(* jet_msection_wait that does not wait.                                     *)
LEMMA WaitRefusedStep ==
  ASSUME SectionsInv, NEW t \in Threads, WaitDenied(t) \/ WaitCancelled(t), UNCHANGED <<partition, kind>>
  PROVE  SectionsInv'
<1>1. CASE WaitDenied(t)
  <2>1. InsideOnly(t, "wait", "denied") /\ queue' = queue
    BY <1>1 DEF WaitDenied, Step, InsideOnly, kernel
  <2> QED
    BY <2>1, QueueStays, InsideStep DEF Inside
<1>2. CASE WaitCancelled(t)
  <2>1. InsideOnly(t, "wait", "result") /\ queue' = queue
    BY <1>2 DEF WaitCancelled, SysCall, InsideOnly
  <2> QED
    BY <2>1, QueueStays, InsideStep DEF Inside
<1> QED
  BY <1>1, <1>2

(* A thread is back from its wait.                                           *)
LEMMA BackStep ==
  ASSUME SectionsInv, NEW t \in Threads, Back(t), UNCHANGED partition
  PROVE  SectionsInv'
<1> DEFINE from == IF pc[t] = "denied" THEN "denied" ELSE "result"
<1>1. InsideOnly(t, from, "release") /\ pc[t] = from
  BY DEF Back, InsideOnly, GoTo, KeepBut
<1>2. queue' = WqDel(queue, using[t], t) \/ queue' = queue
  BY DEF Back
<1>3. QueueChanges(t, "release")
  <2>1. using[t] \in Sections /\ queue \in Queues
    BY <1>1, UsesSection
  <2>2. CASE queue' = WqDel(queue, using[t], t)
    BY <2>1, <2>2, WqDelTyped DEF QueueChanges
  <2>3. CASE queue' = queue
    BY <2>3, QueueStays
  <2> QED
    BY <1>2, <2>2, <2>3
<1>4. from \in Inside \union {"result"} /\ "release" \in Inside \union {"result"}
  BY DEF Inside
<1> QED
  BY <1>1, <1>3, <1>4, InsideStep

(* The status of an object.                                                  *)
LEMMA SizeStep ==
  ASSUME SectionsInv, NEW t \in Threads, Size(t), UNCHANGED <<partition, kind>>
  PROVE  SectionsInv'
<1>1. InsideOnly(t, "body", "release") /\ queue' = Purged(using[t], Queued(using[t])) /\ pc[t] = "body"
  BY DEF Size, SysCall, InsideOnly, GoTo
<1>2. using[t] \in Sections /\ queue \in Queues
  BY <1>1, UsesSection
<1>3. QueueChanges(t, "release")
  BY <1>1, <1>2, QueuedOK, PurgedTyped DEF QueueChanges
<1> QED
  BY <1>1, <1>3, InsideStep DEF Inside

(* A step of the body that changes the object only.                          *)
LEMMA BodyStep ==
  ASSUME SectionsInv, NEW t \in Threads, NEW from \in Inside, Step(t, from, "release"),
         UNCHANGED <<shared, using, queue, partition, kind>>
  PROVE  SectionsInv'
<1>1. InsideOnly(t, from, "release")
  BY DEF Step, InsideOnly, kernel
<1> QED
  BY <1>1, QueueStays, InsideStep DEF Inside

(* An operation that waits joins the queue.                                  *)
LEMMA BlockStep ==
  ASSUME SectionsInv, NEW t \in Threads, NEW discipline, NEW message, Block(t, discipline, message),
         UNCHANGED partition
  PROVE  SectionsInv'
<1>1. InsideOnly(t, "body", "wait") /\ queue' = AddToQueue(using[t], t, discipline) /\ pc[t] = "body"
  BY DEF Block, Step, GoTo, InsideOnly, kernel, KeepBut
<1>2. using[t] \in Sections /\ queue \in Queues /\ priority \in [Threads -> Nat]
  BY <1>1, UsesSection DEF SectionsInv, KernelTypes
<1>3. QueueChanges(t, "wait")
  BY <1>1, <1>2, AddTyped DEF QueueChanges
<1> QED
  BY <1>1, <1>3, InsideStep DEF Inside

(* The first thread of the queue leaves it: a step of semaphores and of      *)
(* buffers.                                                                  *)
LEMMA FirstOutStep ==
  ASSUME SectionsInv, NEW t \in Threads, NEW from \in {"woken", "refill"}, Step(t, from, "release"),
         kind \in {"semaphore", "buffer"}, queue' = FirstOut(t),
         UNCHANGED <<shared, using, partition, kind>>
  PROVE  SectionsInv'
<1>1. InsideOnly(t, from, "release") /\ pc[t] = from
  BY DEF Step, InsideOnly, GoTo, kernel
<1>2. QueueChanges(t, "release")
  BY <1>1, FirstThreadOut
<1> QED
  BY <1>1, <1>2, InsideStep DEF Inside

(* DISPLAY_BLACKBOARD copies the message to all that waited.                 *)
LEMMA CopyStep ==
  ASSUME SectionsInv, NEW t \in Threads, Copy(t), UNCHANGED partition
  PROVE  SectionsInv'
<1>1. InsideOnly(t, "woken", "release") /\ queue' = DelAll(using[t], Queued(using[t])) /\ pc[t] = "woken"
  BY DEF Copy, Step, GoTo, InsideOnly, kernel, KeepBut, AllOut
<1>2. using[t] \in Sections /\ queue \in Queues
  BY <1>1, UsesSection
<1>3. QueueChanges(t, "release")
  BY <1>1, <1>2, QueuedOK, DelAllTyped DEF QueueChanges
<1> QED
  BY <1>1, <1>3, InsideStep DEF Inside

(* jet_msection_wq_notify.                                                   *)
LEMMA NotifyStep ==
  ASSUME SectionsInv, NEW t \in Threads, NEW all \in BOOLEAN,
         NEW ifSome \in Inside, NEW ifNone \in Inside \ {"woken", "refill"}, Notify(t, all, ifSome, ifNone),
         all => kind \notin {"semaphore", "buffer"}, UNCHANGED <<partition, kind>>
  PROVE  SectionsInv'
<1> DEFINE s == using[t]
           passed == Passed(s, all)
           woken == Without(passed, {u \in Threads : ~Waiting(u)})
           to == IF woken = <<>> THEN ifNone ELSE ifSome
<1>1. /\ SysCall(t) /\ pc[t] = "body" /\ pc' = [pc EXCEPT ![t] = to]
      /\ queue' = Purged(s, passed) /\ WakeUp(woken, "ok", FALSE)
      /\ UNCHANGED <<stops, lock, choice, shared, using>>
  BY DEF Notify, GoTo
<1>2. s \in Sections /\ queue \in Queues
  BY <1>1, UsesSection
<1>3. passed \in Seq(Threads)
  BY <1>2, PassedTyped
<1>4. woken \in Seq(Threads) /\ ToSet(woken) = ToSet(passed) \ {u \in Threads : ~Waiting(u)}
  <2> HIDE DEF passed
  <2> QED
    BY <1>3, WithoutOK
<1>5. ASSUME kind \in {"semaphore", "buffer"}, to \in {"woken", "refill"}
      PROVE  queue'.first[s] # None
  <2>1. woken # <<>> /\ ~all
    BY <1>5
  <2>2. PICK u \in Threads : u \in ToSet(passed) /\ Waiting(u)
    <3>1. woken[1] \in Threads /\ 1 \in 1 .. Len(woken)
      BY <1>4, <2>1
    <3>2. woken[1] \in ToSet(woken)
      BY <1>4, <3>1, Members
    <3> QED
      BY <1>4, <3>1, <3>2
  <2>3. PICK j \in 1 .. Len(passed) : passed[j] = u
    BY <1>3, <2>2, Members
  <2>4. PICK i \in 1 .. Len(Queued(s)) : FirstWaiting(s, i) /\ passed = SubSeq(Queued(s), 1, i)
    BY <1>2, <2>1, <2>2, <2>3, PassedOK
  <2> QED
    BY <1>1, <1>2, <2>4, FirstStays
<1>6. QueueChanges(t, to)
  <2>1. queue' \in Queues /\ Elsewhere(queue, queue', s)
    BY <1>1, <1>2, <1>3, PurgedTyped
  <2> QED
    BY <1>5, <2>1 DEF QueueChanges
<1>7. to \in Inside
  OBVIOUS
<1> HIDE DEF to, woken, passed
<1>8. /\ ChosenAgain /\ Live' /\ eligible' \in Seq(Threads) /\ recheck' \in BOOLEAN
      /\ state' \in [Threads -> {"stopped", "runnable", "waiting"}]
      /\ \A u \in Threads : state'[u] = IF u \in ToSet(woken) THEN "runnable" ELSE state[u]
      /\ UNCHANGED <<suspended, priority, entering>>
  <2>1. UNCHANGED <<lock, partition>>
    BY <1>1
  <2> QED
    BY <1>1, <1>4, <2>1, WokenUp
<1>9. Indoors(t, to)
  <2>1. Runs(t) /\ disabled' = TRUE /\ pc[t] \in Inside
    BY <1>1 DEF SysCall, Runs, Inside
  <2> QED
    BY <1>1, <1>7, <1>8, <2>1 DEF Indoors
<1> QED
  BY <1>6, <1>8, <1>9, IndoorsStep

--------------------------------------------------------------------------------
(* A step in which the running thread enters or leaves a section: it changes *)
(* its own part of the state, and the owner of its section.                  *)
OthersStay(t) ==
  \A u \in Threads \ {t} :
    /\ pc'[u] = pc[u] /\ using'[u] = using[u] /\ userEntering'[u] = userEntering[u]
    /\ msectionCount'[u] = msectionCount[u] /\ entering'[u] = entering[u] /\ state'[u] = state[u]

OwnersFollow(t) ==
  \A s \in Sections :
    /\ owner'[s] = owner[s] \/ (owner[s] \in {None, t} /\ owner'[s] \in {None, t})
    /\ owner'[s] = t => Owns(t, s)'

Passes(t) ==
  /\ Runs(t)
  /\ UNCHANGED <<suspended, priority, stops, lock, choice, reschedAfterLeave, killed, queue, partition, kind>>
  /\ disabled' = TRUE \/ UNCHANGED <<disabled, recheck, entering>>
  /\ OthersStay(t) /\ OwnersFollow(t)
  /\ state'[t] = state[t] \/ firstDonator[t] = None
  /\ pc'[t] \in {"idle", "testFlag"} => pc[t] \in {"idle", "testFlag"} \/ ~killed[t] \/ firstDonator[t] = None
  /\ pc'[t] \notin {"woken", "refill"}
  /\ \/ recheck'
     \/ UNCHANGED <<recheck, entering, eligible>> /\ (Helps => Helps')

(* Such a step keeps what is so of the others, of donators and of owners.    *)
LEMMA PassesInLibrary ==
  ASSUME SectionsInv, NEW t \in Threads, Passes(t), NEW u \in Threads \ {t}
  PROVE  InLibrary(u)'
<1>1. /\ pc'[u] = pc[u] /\ using'[u] = using[u] /\ userEntering'[u] = userEntering[u]
      /\ msectionCount'[u] = msectionCount[u] /\ entering'[u] = entering[u] /\ state'[u] = state[u]
  BY DEF Passes, OthersStay
<1>2. InLibrary(u) /\ u # None /\ ~Runs(u)
  BY ThreadsAssumption DEF SectionsInv, Passes, Runs
<1>3. ASSUME pc[u] # "idle", owner[using[u]] = u PROVE owner'[using[u]] = u
  <2>1. using[u] \in Sections
    BY <1>3, UsesSection
  <2> QED
    BY <1>2, <1>3, <2>1 DEF Passes, OwnersFollow
<1>4. \A p \in Inside \union {"entered", "result"} : p # "idle"
  BY DEF Inside
<1> QED
  BY <1>1, <1>2, <1>3, <1>4 DEF InLibrary

LEMMA PassesDonates ==
  ASSUME SectionsInv, NEW t \in Threads, Passes(t), NEW d \in Threads
  PROVE  Donates(d)' /\ Listed(d)'
<1>1. UNCHANGED <<donateTarget, firstDonator, nextDonator, killed>>
  BY DEF Passes, stops
<1>2. Listed(d)'
  <2>1. DonorsOf(d)' = DonorsOf(d)
    BY <1>1 DEF DonorsOf
  <2>2. Listed(d)
    BY DEF SectionsInv
  <2> QED
    BY <1>1, <2>1, <2>2 DEF Listed, Linked
<1>3. ASSUME donateTarget[d] # None PROVE Donates(d)'
  <2> DEFINE u == donateTarget[d]
  <2>1. /\ pc[d] = "idle" /\ state[d] # "stopped" /\ u \in Threads
        /\ killed[u] /\ pc[u] \notin {"idle", "testFlag"} /\ state[u] = "runnable"
    BY <1>3 DEF SectionsInv, Donates, KernelTypes, Thread0
  <2>2. donateTarget[t] = None /\ (u = t => firstDonator[t] # None)
    BY NoDonors, RunningThread DEF Passes, RunsRight
  <2>3. d # t /\ pc'[d] = pc[d] /\ state'[d] = state[d]
    BY <1>3, <2>2 DEF Passes, OthersStay
  <2> HIDE DEF u
  <2>4. pc'[u] \notin {"idle", "testFlag"} /\ state'[u] = "runnable"
    <3>1. CASE u = t
      BY <2>1, <2>2, <3>1 DEF Passes
    <3>2. CASE u # t
      BY <2>1, <3>2 DEF Passes, OthersStay
    <3> QED
      BY <3>1, <3>2
  <2> QED
    BY <1>1, <2>1, <2>3, <2>4 DEF Donates, u
<1> QED
  BY <1>1, <1>2, <1>3 DEF Donates

LEMMA PassesOwners ==
  ASSUME SectionsInv, NEW t \in Threads, Passes(t)
  PROVE  Owners'
<1> SUFFICES ASSUME NEW s \in Sections, owner'[s] # None PROVE Owns(owner[s], s)'
  BY DEF Owners
<1>1. CASE owner'[s] = t
  BY <1>1 DEF Passes, OwnersFollow
<1>2. CASE owner'[s] # t
  <2>1. owner'[s] = owner[s]
    BY <1>2 DEF Passes, OwnersFollow
  <2>2. PICK o \in Threads : o = owner[s] /\ Owns(o, s)
    BY <2>1 DEF SectionsInv, Owners, LibraryTypes, Thread0
  <2>3. Owns(o, s)'
    BY <1>2, <2>1, <2>2 DEF Owns, Passes, OthersStay
  <2> QED
    BY <2>1, <2>2, <2>3 DEF Owns
<1> QED
  BY <1>1, <1>2

(* It keeps the invariant if it does for the thread that runs.               *)
LEMMA PassesStep ==
  ASSUME SectionsInv, NEW t \in Threads, Passes(t), KernelTypes', LibraryTypes', InLibrary(t)', Live'
  PROVE  SectionsInv'
<1>1. Awoken'
  BY DEF SectionsInv, Awoken, Passes, OthersStay
<1>2. Due'
  <2>1. /\ RunsRight(t) /\ current = t /\ UNCHANGED <<current, selected, waitingSection, donateTarget>>
        /\ UNCHANGED <<lock, partition>>
    BY RunningThread DEF Passes, choice, stops, Runs
  <2>2. ~disabled' => ~recheck' /\ (current' # None => entering'[current'] = None)
    <3>1. ~disabled' => UNCHANGED <<disabled, recheck, entering>>
      BY DEF Passes
    <3> QED
      BY <2>1, <3>1 DEF SectionsInv, Due
  <2>3. ASSUME ~recheck'
        PROVE  /\ selected' = Choice'
               /\ selected' = None => current' = None
               /\ selected' # None => current' = Base' \/ Helps'
    <3>1. UNCHANGED <<recheck, entering, eligible>> /\ (Helps => Helps')
      BY <2>3 DEF Passes
    <3>2. Choice' = Choice /\ Base' = Base
      BY <2>1, <3>1 DEF Choice, HandlerRuns, Base, lock, partition, SectionsInv, KernelTypes
    <3> QED
      BY <2>1, <2>3, <3>1, <3>2 DEF SectionsInv, Due
  <2> QED
    BY <2>2, <2>3 DEF Due
<1> QED
  BY <1>1, <1>2, PassesInLibrary, PassesDonates, PassesOwners DEF SectionsInv

(* What the running thread knows of the sections.                            *)
Owned(t) ==
  /\ RunsRight(t) /\ InLibrary(t) /\ current = t /\ ~disabled
  /\ \A s \in Sections : owner[s] = t => Owns(t, s)
  /\ pc[t] # "idle" => using[t] \in Sections /\ using[t] # None

(* The thread that runs owns at most the section that it uses.               *)
LEMMA RunnerOwns ==
  ASSUME SectionsInv, NEW t \in Threads, Runs(t)
  PROVE  Owned(t)
<1>1. t # None /\ \A s \in Sections : s # None
  BY ThreadsAssumption
<1> QED
  BY <1>1, RunningThread, UsesSection DEF Owned, SectionsInv, Owners, Runs

(* A step of the library that is only its own.                               *)
Alike(t) ==
  /\ UNCHANGED <<kernel, reschedAfterLeave, killed, queue, partition, kind>> /\ ~disabled /\ current = t
  /\ \A u \in Threads \ {t} :
       /\ pc'[u] = pc[u] /\ using'[u] = using[u] /\ userEntering'[u] = userEntering[u]
       /\ msectionCount'[u] = msectionCount[u]

(* Such a step keeps the invariant.                                          *)
LEMMA AlikeStep ==
  ASSUME SectionsInv, NEW t \in Threads, Alike(t), LibraryTypes', InLibrary(t)', OwnersFollow(t),
         pc'[t] \in {"idle", "testFlag"} => pc[t] \in {"idle", "testFlag"} \/ ~killed[t],
         pc'[t] \notin {"woken", "refill"}, Helps => Helps'
  PROVE  SectionsInv'
<1>1. Passes(t)
  BY DEF Passes, Alike, OthersStay, kernel, Runs
<1>2. KernelTypes' /\ Live'
  BY DEF SectionsInv, KernelTypes, Live, Alike, kernel, stops, choice, lock, partition
<1> QED
  BY <1>1, <1>2, PassesStep

(* msection_enter.                                                           *)
LEMMA EnterStepOK ==
  ASSUME SectionsInv, NEW t \in Threads, NEW s \in Sections, Enter(t, s), UNCHANGED <<partition, kind>>
  PROVE  SectionsInv'
<1>1. /\ ~disabled /\ current = t /\ pc[t] = "idle" /\ pc' = [pc EXCEPT ![t] = "announce"]
      /\ using' = [using EXCEPT ![t] = s] /\ msectionCount' = [msectionCount EXCEPT ![t] = @ + 1]
      /\ UNCHANGED <<kernel, owner, reschedAfterLeave, userEntering, killed, queue>>
  BY DEF Enter, Step, GoTo
<1>2. Owned(t) /\ LibraryTypes /\ s # None
  BY <1>1, RunnerOwns, ThreadsAssumption DEF SectionsInv, Runs
<1>3. /\ pc'[t] = "announce" /\ using'[t] = s /\ userEntering[t] = None
      /\ msectionCount[t] = 0 /\ msectionCount'[t] = 1 /\ entering[t] = None /\ state[t] # "stopped"
  BY <1>1, <1>2 DEF LibraryTypes, Owned, InLibrary, RunsRight, Outside, Announcing
<1>4. LibraryTypes'
  BY <1>1, <1>2 DEF LibraryTypes, Places, Section0
<1>5. Alike(t)
  BY <1>1, <1>2 DEF Alike, LibraryTypes
<1>6. \A z \in Sections : owner[z] # t
  BY <1>1, <1>2 DEF Owned, Owns, Announcing, Inside
<1>7. OwnersFollow(t)
  BY <1>1, <1>6 DEF OwnersFollow
<1>8. InLibrary(t)'
  BY <1>1, <1>2, <1>3 DEF InLibrary, Inside, Announcing, Outside, kernel
<1>9. ~Helps
  BY <1>1, <1>2, <1>6 DEF Helps, SectionsInv, KernelTypes, Section0, Owned, Leaving
<1> QED
  BY <1>3, <1>4, <1>5, <1>7, <1>8, <1>9, AlikeStep

(* The thread tells the kernel which section it is entering.                 *)
LEMMA AnnounceStep ==
  ASSUME SectionsInv, NEW t \in Threads, Announce(t), UNCHANGED <<partition, kind>>
  PROVE  SectionsInv'
<1>1. /\ ~disabled /\ current = t /\ pc[t] = "announce" /\ pc' = [pc EXCEPT ![t] = "test"]
      /\ userEntering' = [userEntering EXCEPT ![t] = using[t]]
      /\ UNCHANGED <<kernel, owner, reschedAfterLeave, using, msectionCount, killed, queue>>
  BY DEF Announce, Announced, Step, GoTo
<1>2. Owned(t) /\ LibraryTypes
  BY <1>1, RunnerOwns DEF SectionsInv, Runs
<1>3. /\ pc'[t] = "test" /\ using[t] \in Sections /\ using[t] # None /\ userEntering'[t] = using[t]
      /\ msectionCount[t] = 1 /\ entering[t] = None /\ state[t] # "stopped"
  BY <1>1, <1>2 DEF LibraryTypes, Owned, InLibrary, RunsRight, Outside
<1>4. LibraryTypes'
  BY <1>1, <1>2, <1>3 DEF LibraryTypes, Places, Announcing, Section0
<1>5. Alike(t)
  BY <1>1, <1>2 DEF Alike, LibraryTypes
<1>6. \A z \in Sections : owner[z] # t
  BY <1>1, <1>2 DEF Owned, Owns, Announcing, Inside
<1>7. OwnersFollow(t)
  BY <1>1, <1>6 DEF OwnersFollow
<1>8. InLibrary(t)'
  BY <1>1, <1>2, <1>3 DEF InLibrary, Inside, Announcing, Outside, kernel, choice, Runs
<1>9. ~Helps
  BY <1>1, <1>2, <1>6 DEF Helps, SectionsInv, KernelTypes, Section0, Owned, Leaving
<1> QED
  BY <1>3, <1>4, <1>5, <1>7, <1>8, <1>9, AlikeStep

(* Between these steps, the owners that a thread sees are the same.          *)
LEMMA HelpsStill ==
  ASSUME SectionsInv, NEW t \in Threads, Owned(t), pc[t] \notin Leaving, Helps,
         UNCHANGED <<entering, stops, choice, reschedAfterLeave>>,
         \A s \in Sections : owner[s] = t => owner'[s] = t
  PROVE  Helps'
<1>1. waitingSection \in Sections /\ Base' = Base /\ current = t
  BY DEF Helps, SectionsInv, KernelTypes, Section0, Base, stops, choice, Owned
<1>2. owner[waitingSection] = t
  BY <1>1 DEF Helps
<1> QED
  BY <1>1, <1>2 DEF Helps, choice

(* The owner is read.                                                        *)
LEMMA TestStep ==
  ASSUME SectionsInv, NEW t \in Threads, Test(t), UNCHANGED <<partition, kind>>
  PROVE  SectionsInv'
<1> DEFINE to == CASE owner[using[t]] = None -> "claim"
                   [] owner[using[t]] = t -> "entered"
                   [] OTHER -> "help"
<1>1. /\ ~disabled /\ current = t /\ pc[t] = "test" /\ pc' = [pc EXCEPT ![t] = to]
      /\ UNCHANGED <<kernel, shared, using, queue>>
  BY DEF Test, Step, GoTo
<1>2. Owned(t) /\ LibraryTypes /\ t # None
  BY <1>1, RunnerOwns, ThreadsAssumption DEF SectionsInv, Runs
<1>3. /\ to \in {"claim", "entered", "help"} /\ (to = "claim" => owner[using[t]] = None)
      /\ (to = "entered" => owner[using[t]] = t) /\ (to = "help" => owner[using[t]] # None)
  BY <1>2
<1> HIDE DEF to
<1>4. /\ pc'[t] = to /\ using[t] \in Sections /\ using[t] # None /\ userEntering[t] = using[t]
      /\ msectionCount[t] = 1 /\ entering[t] = None /\ state[t] = "runnable"
  BY <1>1, <1>2 DEF LibraryTypes, Owned, InLibrary, RunsRight, Outside, Announcing, Leaving
<1>5. LibraryTypes'
  BY <1>1, <1>2, <1>3 DEF LibraryTypes, Places, Announcing, shared
<1>6. Alike(t)
  BY <1>1, <1>2 DEF Alike, LibraryTypes, shared
<1>7. OwnersFollow(t)
  BY <1>1, <1>2, <1>3, <1>4 DEF OwnersFollow, Owned, Owns, Announcing, shared, kernel
<1>8. InLibrary(t)'
  BY <1>1, <1>2, <1>3, <1>4 DEF InLibrary, Inside, Announcing, Outside, kernel, choice, shared, Runs
<1>9. Helps => Helps'
  BY <1>1, <1>2, HelpsStill DEF shared, kernel, Leaving
<1> QED
  BY <1>3, <1>4, <1>5, <1>6, <1>7, <1>8, <1>9, AlikeStep

(* A free section is taken.                                                  *)
LEMMA ClaimStep ==
  ASSUME SectionsInv, NEW t \in Threads, Claim(t), UNCHANGED <<partition, kind>>
  PROVE  SectionsInv'
<1>1. /\ ~disabled /\ current = t /\ pc[t] = "claim" /\ pc' = [pc EXCEPT ![t] = "entered"]
      /\ owner' = [owner EXCEPT ![using[t]] = t]
      /\ UNCHANGED <<kernel, reschedAfterLeave, userEntering, msectionCount, killed, using, queue>>
  BY DEF Claim, Step, GoTo
<1>2. Owned(t) /\ LibraryTypes
  BY <1>1, RunnerOwns DEF SectionsInv, Runs
<1>3. /\ pc'[t] = "entered" /\ using[t] \in Sections /\ using[t] # None /\ userEntering[t] = using[t]
      /\ msectionCount[t] = 1 /\ entering[t] = None /\ state[t] = "runnable"
      /\ owner[using[t]] \in {None, t}
  BY <1>1, <1>2 DEF LibraryTypes, Owned, InLibrary, RunsRight, Outside, Announcing, Leaving
<1>4. \A s \in Sections : owner'[s] = IF s = using[t] THEN t ELSE owner[s]
  BY <1>1, <1>2 DEF LibraryTypes
<1>5. LibraryTypes'
  BY <1>1, <1>2 DEF LibraryTypes, Places, Announcing, Thread0
<1>6. Alike(t)
  BY <1>1, <1>2 DEF Alike, LibraryTypes
<1>7. OwnersFollow(t)
  BY <1>1, <1>2, <1>3, <1>4 DEF OwnersFollow, Owned, Owns, Announcing, kernel
<1>8. InLibrary(t)'
  BY <1>1, <1>2, <1>3, <1>4 DEF InLibrary, Inside, Announcing, Outside, kernel
<1>9. Helps => Helps'
  BY <1>1, <1>2, <1>4, HelpsStill DEF kernel, Leaving
<1> QED
  BY <1>3, <1>5, <1>6, <1>7, <1>8, <1>9, AlikeStep

(* The thread is inside.                                                     *)
LEMMA EnteredStep ==
  ASSUME SectionsInv, NEW t \in Threads, Entered(t), UNCHANGED <<partition, kind>>
  PROVE  SectionsInv'
<1>1. /\ ~disabled /\ current = t /\ pc[t] = "entered" /\ pc' = [pc EXCEPT ![t] = "body"]
      /\ userEntering' = [userEntering EXCEPT ![t] = None]
      /\ UNCHANGED <<kernel, owner, reschedAfterLeave, using, msectionCount, killed, queue>>
  BY DEF Entered, Unannounced, Step, GoTo
<1>2. Owned(t) /\ LibraryTypes
  BY <1>1, RunnerOwns DEF SectionsInv, Runs
<1>3. /\ pc'[t] = "body" /\ using[t] \in Sections /\ using[t] # None /\ userEntering'[t] = None
      /\ msectionCount[t] = 1 /\ entering[t] = None /\ state[t] = "runnable" /\ owner[using[t]] = t
  BY <1>1, <1>2 DEF LibraryTypes, Owned, InLibrary, RunsRight, Outside, Leaving
<1>4. LibraryTypes'
  BY <1>1, <1>2 DEF LibraryTypes, Places, Inside, Section0
<1>5. Alike(t)
  BY <1>1, <1>2 DEF Alike, LibraryTypes
<1>6. OwnersFollow(t)
  BY <1>1, <1>2, <1>3 DEF OwnersFollow, Owned, Owns, Inside, kernel
<1>7. InLibrary(t)'
  BY <1>1, <1>2, <1>3 DEF InLibrary, Inside, Announcing, Outside, kernel
<1>8. Helps => Helps'
  BY <1>1, <1>2, HelpsStill DEF kernel, Leaving
<1> QED
  BY <1>3, <1>4, <1>5, <1>6, <1>7, <1>8, AlikeStep

(* msection_leave.                                                           *)
LEMMA ReleaseStep ==
  ASSUME SectionsInv, NEW t \in Threads, Release(t), UNCHANGED <<partition, kind>>
  PROVE  SectionsInv'
<1>1. /\ ~disabled /\ current = t /\ pc[t] = "release" /\ pc' = [pc EXCEPT ![t] = "uncount"]
      /\ owner' = [owner EXCEPT ![using[t]] = None]
      /\ UNCHANGED <<kernel, reschedAfterLeave, userEntering, msectionCount, killed, using, queue>>
  BY DEF Release, Step, GoTo
<1>2. Owned(t) /\ LibraryTypes /\ t # None
  BY <1>1, RunnerOwns, ThreadsAssumption DEF SectionsInv, Runs
<1>3. /\ pc'[t] = "uncount" /\ using[t] \in Sections /\ using[t] # None /\ userEntering[t] = None
      /\ msectionCount[t] = 1 /\ entering[t] = None /\ state[t] = "runnable" /\ owner[using[t]] = t
  BY <1>1, <1>2 DEF LibraryTypes, Owned, InLibrary, RunsRight, Outside, Announcing, Inside, Leaving
<1>4. \A s \in Sections : owner'[s] = IF s = using[t] THEN None ELSE owner[s]
  BY <1>1, <1>2 DEF LibraryTypes
<1>5. LibraryTypes'
  BY <1>1, <1>2 DEF LibraryTypes, Places, Leaving, Thread0
<1>6. Alike(t)
  BY <1>1, <1>2 DEF Alike, LibraryTypes
<1>7. OwnersFollow(t)
  BY <1>2, <1>3, <1>4 DEF OwnersFollow, Owned, Owns
<1>8. InLibrary(t)'
  BY <1>1, <1>2, <1>3, <1>4 DEF InLibrary, Inside, Announcing, Outside, kernel
<1>9. ASSUME Helps PROVE Helps'
  <2>1. waitingSection \in Sections /\ Base' = Base /\ current = t
    BY <1>1, <1>9 DEF Helps, SectionsInv, KernelTypes, Section0, Base, stops, choice, kernel
  <2>2. owner[waitingSection] = t
    BY <1>1, <1>9, <2>1 DEF Helps, Leaving
  <2>3. waitingSection = using[t] /\ owner'[waitingSection] = None
    BY <1>2, <1>4, <2>1, <2>2 DEF Owned, Owns
  <2> QED
    BY <1>1, <1>3, <1>9, <2>1, <2>3 DEF Helps, Leaving, choice, kernel
<1> QED
  BY <1>3, <1>5, <1>6, <1>7, <1>8, <1>9, AlikeStep

(* Between the release of its section and the report, a thread owns nothing. *)
LEMMA OwnsNothing ==
  ASSUME SectionsInv, NEW t \in Threads, Owned(t), pc[t] \in Leaving
  PROVE  \A s \in Sections : owner[s] # t
BY DEF Owned, Owns, Leaving, Announcing, Inside

(* The thread is in no section any more, and may have to stop.               *)
LEMMA UncountStep ==
  ASSUME SectionsInv, NEW t \in Threads, Uncount(t), UNCHANGED <<partition, kind>>
  PROVE  SectionsInv'
<1> DEFINE to == IF MustStop(t) THEN "resched" ELSE "testFlag"
<1>1. /\ ~disabled /\ current = t /\ pc[t] = "uncount" /\ pc' = [pc EXCEPT ![t] = to]
      /\ msectionCount' = [msectionCount EXCEPT ![t] = @ - 1]
      /\ UNCHANGED <<kernel, owner, reschedAfterLeave, userEntering, killed, using, queue>>
  BY DEF Uncount, Step, GoTo
<1>2. Owned(t) /\ LibraryTypes
  BY <1>1, RunnerOwns DEF SectionsInv, Runs
<1>3. /\ pc'[t] = to /\ using[t] \in Sections /\ using[t] # None /\ userEntering[t] = None
      /\ msectionCount[t] = 1 /\ msectionCount'[t] = 0 /\ entering[t] = None /\ state[t] # "stopped"
  BY <1>1, <1>2 DEF LibraryTypes, Owned, InLibrary, RunsRight, Outside, Announcing
<1>4. to \in {"resched", "testFlag"} /\ (to = "testFlag" => ~killed[t])
  BY <1>3 DEF MustStop
<1> HIDE DEF to
<1>5. LibraryTypes'
  <2>1. msectionCount' \in [Threads -> Nat]
    BY <1>1, <1>2, <1>3 DEF LibraryTypes
  <2> QED
    BY <1>1, <1>2, <1>4, <2>1 DEF LibraryTypes, Places, Leaving
<1>6. Alike(t)
  BY <1>1, <1>2 DEF Alike, LibraryTypes
<1>7. \A s \in Sections : owner[s] # t
  BY <1>1, <1>2, OwnsNothing DEF Leaving
<1>8. OwnersFollow(t)
  BY <1>1, <1>7 DEF OwnersFollow
<1>9. InLibrary(t)'
  BY <1>1, <1>2, <1>3, <1>4 DEF InLibrary, Inside, Announcing, Outside, kernel
<1>10. ASSUME Helps PROVE Helps'
  <2>1. waitingSection \in Sections /\ Base' = Base
    BY <1>1, <1>10 DEF Helps, SectionsInv, KernelTypes, Section0, Base, stops, choice, kernel
  <2> QED
    BY <1>1, <1>3, <1>4, <1>7, <1>10, <2>1 DEF Helps, Leaving, choice, kernel
<1> QED
  BY <1>3, <1>4, <1>5, <1>6, <1>8, <1>9, <1>10, AlikeStep

(* Somebody waited for this section, or not.                                 *)
LEMMA TestFlagStep ==
  ASSUME SectionsInv, NEW t \in Threads, TestFlag(t), UNCHANGED <<partition, kind>>
  PROVE  SectionsInv'
<1> DEFINE to == IF reschedAfterLeave[using[t]] THEN "resched" ELSE "idle"
           then == IF reschedAfterLeave[using[t]] THEN using[t] ELSE None
<1>1. /\ ~disabled /\ current = t /\ pc[t] = "testFlag" /\ pc' = [pc EXCEPT ![t] = to]
      /\ using' = [using EXCEPT ![t] = then]
      /\ UNCHANGED <<kernel, shared, queue>>
  BY DEF TestFlag, Step, GoTo
<1>2. Owned(t) /\ LibraryTypes
  BY <1>1, RunnerOwns DEF SectionsInv, Runs
<1>3. /\ pc'[t] = to /\ using'[t] = then /\ using[t] \in Sections /\ using[t] # None /\ userEntering[t] = None
      /\ msectionCount[t] = 0 /\ entering[t] = None /\ state[t] # "stopped"
  BY <1>1, <1>2 DEF LibraryTypes, Owned, InLibrary, RunsRight, Outside, Announcing
<1>4. /\ (to = "resched" /\ then = using[t]) \/ (to = "idle" /\ then = None)
      /\ reschedAfterLeave[using[t]] => to = "resched" /\ then = using[t]
  OBVIOUS
<1> HIDE DEF to, then
<1>5. LibraryTypes'
  BY <1>1, <1>2, <1>4 DEF LibraryTypes, Places, Leaving, shared, Section0
<1>6. Alike(t)
  BY <1>1, <1>2 DEF Alike, LibraryTypes, shared
<1>7. \A s \in Sections : owner[s] # t
  BY <1>1, <1>2, OwnsNothing DEF Leaving
<1>8. OwnersFollow(t)
  BY <1>1, <1>7 DEF OwnersFollow, shared
<1>9. InLibrary(t)'
  BY <1>1, <1>2, <1>3, <1>4 DEF InLibrary, Inside, Announcing, Outside, kernel, shared
<1>10. ASSUME Helps PROVE Helps'
  <2>1. waitingSection \in Sections /\ Base' = Base
    BY <1>1, <1>10 DEF Helps, SectionsInv, KernelTypes, Section0, Base, stops, choice, kernel
  <2>2. using[t] = waitingSection /\ reschedAfterLeave[waitingSection]
    BY <1>1, <1>7, <1>10, <2>1 DEF Helps
  <2> QED
    BY <1>1, <1>3, <1>4, <1>7, <1>10, <2>1, <2>2 DEF Helps, Leaving, choice, kernel, shared
<1> QED
  BY <1>1, <1>3, <1>4, <1>5, <1>6, <1>8, <1>9, <1>10, AlikeStep

(* jet_msection_enter_helper.                                                *)
LEMMA HelpStep ==
  ASSUME SectionsInv, NEW t \in Threads, Help(t), UNCHANGED <<partition, kind>>
  PROVE  SectionsInv'
<1>1. /\ ~disabled /\ disabled' = TRUE /\ current = t /\ pc[t] = "help" /\ pc' = [pc EXCEPT ![t] = "entered"]
      /\ UNCHANGED <<state, suspended, priority, eligible, stops, lock, choice, shared, using, queue>>
  BY DEF Help, SysCall, GoTo
<1>2. Owned(t) /\ LibraryTypes /\ KernelTypes /\ t # None
  BY <1>1, RunnerOwns, ThreadsAssumption DEF SectionsInv, Runs
<1>3. /\ pc'[t] = "entered" /\ using[t] \in Sections /\ using[t] # None /\ userEntering[t] = using[t]
      /\ msectionCount[t] = 1 /\ entering[t] = None /\ state[t] = "runnable" /\ owner[using[t]] # None
      /\ ~recheck
  BY <1>1, <1>2 DEF LibraryTypes, Owned, InLibrary, RunsRight, Outside, Announcing, Leaving
<1>4. \/ entering' = [entering EXCEPT ![t] = using[t]] /\ recheck' = TRUE
      \/ owner[using[t]] = t /\ UNCHANGED <<entering, recheck>>
  BY <1>3 DEF Help
<1>5. entering' \in [Threads -> Section0] /\ recheck' \in BOOLEAN /\ \A u \in Threads \ {t} : entering'[u] = entering[u]
  BY <1>2, <1>3, <1>4 DEF KernelTypes, Section0
<1>6. LibraryTypes' /\ KernelTypes' /\ Live'
  BY <1>1, <1>2, <1>5
     DEF SectionsInv, LibraryTypes, KernelTypes, Live, Places, Announcing, shared, stops, choice, lock, partition
<1>7. OwnersFollow(t)
  BY <1>1, <1>2 DEF OwnersFollow, Owned, Owns, Announcing, shared
<1>8. InLibrary(t)'
  <2>1. \/ entering'[t] = using[t]
        \/ entering'[t] = None /\ owner[using[t]] = t
    BY <1>2, <1>3, <1>4 DEF KernelTypes
  <2> QED
    BY <1>1, <1>2, <1>3, <2>1 DEF InLibrary, Inside, Announcing, Outside, shared
<1>9. recheck' \/ (UNCHANGED <<recheck, entering, eligible>> /\ (Helps => Helps'))
  <2>1. ASSUME UNCHANGED <<entering, recheck>> PROVE Helps => Helps'
    BY <1>1, <1>2, <2>1, HelpsStill DEF shared, Leaving
  <2> QED
    BY <1>1, <1>4, <2>1
<1>10. OthersStay(t)
  BY <1>1, <1>2, <1>5 DEF OthersStay, LibraryTypes, shared
<1>11. Passes(t)
  BY <1>1, <1>3, <1>7, <1>9, <1>10 DEF Passes, Runs, shared
<1> QED
  BY <1>6, <1>8, <1>11, PassesStep

(* jet_msection_wait: the thread gives its section up, and will be made its  *)
(* owner again.                                                              *)
LEMMA WaitStep ==
  ASSUME SectionsInv, NEW t \in Threads, NEW timed, Wait(t, timed), UNCHANGED <<partition, kind>>
  PROVE  SectionsInv'
<1>1. /\ ~disabled /\ disabled' = TRUE /\ current = t /\ pc[t] = "wait" /\ pc' = [pc EXCEPT ![t] = "result"]
      /\ lockLevel = 0 /\ firstDonator[t] = None
      /\ entering' = [entering EXCEPT ![t] = using[t]]
      /\ owner' = [owner EXCEPT ![using[t]] = None]
      /\ state' = [state EXCEPT ![t] = "waiting"]
      /\ Requeue(Without(eligible, {t}), TRUE)
      /\ UNCHANGED <<suspended, priority, stops, lock, choice, reschedAfterLeave, msectionCount,
                     userEntering, killed, using, queue>>
  BY DEF Wait, SysCall, GoTo, WaitingAllowed
<1>2. Owned(t) /\ LibraryTypes /\ KernelTypes /\ t # None
  BY <1>1, RunnerOwns, ThreadsAssumption DEF SectionsInv, Runs
<1>3. /\ pc'[t] = "result" /\ using[t] \in Sections /\ using[t] # None /\ userEntering[t] = None
      /\ msectionCount[t] = 1 /\ owner[using[t]] = t
  BY <1>1, <1>2 DEF LibraryTypes, Owned, InLibrary, RunsRight, Outside, Announcing, Inside
<1>4. \A s \in Sections : owner'[s] = IF s = using[t] THEN None ELSE owner[s]
  BY <1>1, <1>2 DEF LibraryTypes
<1>5. \A u \in Threads : /\ entering'[u] = IF u = t THEN using[t] ELSE entering[u]
                         /\ state'[u] = IF u = t THEN "waiting" ELSE state[u]
  BY <1>1, <1>2 DEF KernelTypes
<1>6. Without(eligible, {t}) \in Seq(Threads) /\ ToSet(Without(eligible, {t})) = ToSet(eligible) \ {t}
  BY <1>2, WithoutOK DEF KernelTypes
<1>7. Live' /\ eligible' \in Seq(Threads) /\ recheck' = TRUE
  <2>1. \A u \in ToSet(Without(eligible, {t})) : state'[u] = "runnable"
    <3>1. ToSet(eligible) \subseteq Threads
      BY <1>2, Members DEF KernelTypes
    <3> QED
      BY <1>5, <1>6, <3>1 DEF SectionsInv, Live
  <2>2. UNCHANGED <<lock, partition>> /\ ~(lockLevel > 0)
    BY <1>1
  <2> QED
    BY <1>1, <1>6, <2>1, <2>2, Requeued DEF Requeue
<1>8. LibraryTypes' /\ KernelTypes'
  <2>1. owner' \in [Sections -> Thread0] /\ entering' \in [Threads -> Section0]
    BY <1>1, <1>2, <1>3 DEF LibraryTypes, KernelTypes, Thread0, Section0
  <2> QED
    BY <1>1, <1>2, <1>7, <2>1 DEF LibraryTypes, KernelTypes, Places, stops, choice, lock, partition
<1>9. OwnersFollow(t)
  BY <1>2, <1>3, <1>4 DEF OwnersFollow, Owned, Owns
<1>10. InLibrary(t)'
  BY <1>1, <1>2, <1>3, <1>5 DEF InLibrary, Inside, Announcing, Outside
<1>11. OthersStay(t)
  BY <1>1, <1>2, <1>5 DEF OthersStay, LibraryTypes
<1>12. Passes(t)
  BY <1>1, <1>3, <1>7, <1>9, <1>11 DEF Passes, Runs
<1> QED
  BY <1>7, <1>8, <1>10, <1>12, PassesStep

(* The threads that leave the library are one and some that are outside.     *)
LEMMA OutExactly ==
  ASSUME SectionsInv, NEW t \in Threads, NEW S, GoOut(S), t \in S,
         \A u \in Threads \ {t} : u \in S => pc[u] = "idle"
  PROVE  pc' = [pc EXCEPT ![t] = "idle"] /\ using' = [using EXCEPT ![t] = None]
<1>1. /\ pc' = [u \in Threads |-> IF u \in S THEN "idle" ELSE pc[u]]
      /\ using' = [u \in Threads |-> IF u \in S THEN None ELSE using[u]]
  BY DEF GoOut
<1>2. \A u \in Threads : pc[u] = "idle" => using[u] = None
  BY DEF SectionsInv, InLibrary
<1>3. pc \in [Threads -> Places] /\ using \in [Threads -> Section0]
  BY DEF SectionsInv, LibraryTypes
<1> QED
  BY <1>1, <1>2, <1>3

(* jet_resched.                                                              *)
LEMMA ReschedStaysStep ==
  ASSUME SectionsInv, NEW t \in Threads, pc[t] = "resched", ReschedStays(t), GoOut({t} \union Stopped),
         UNCHANGED <<queue, partition, kind>>
  PROVE  SectionsInv'
<1>1. /\ ~disabled /\ disabled' = TRUE /\ current = t
      /\ firstDonator[t] = None \/ msectionCount[t] > 0
      /\ Requeue(eligible, Freed)
      /\ UNCHANGED <<state, suspended, priority, entering, stops, lock, choice, shared>>
  BY DEF ReschedStays, SysCall
<1>2. Owned(t) /\ LibraryTypes /\ KernelTypes /\ t # None
  BY <1>1, RunnerOwns, ThreadsAssumption DEF SectionsInv, Runs
<1>3. /\ using[t] \in Sections /\ userEntering[t] = None /\ ~recheck
      /\ msectionCount[t] = 0 /\ firstDonator[t] = None /\ entering[t] = None /\ state[t] # "stopped"
  BY <1>1, <1>2 DEF LibraryTypes, Owned, InLibrary, RunsRight, Outside, Announcing
<1>4. pc' = [pc EXCEPT ![t] = "idle"] /\ using' = [using EXCEPT ![t] = None]
  <2>1. \A u \in Threads \ {t} : u \in {t} \union Stopped => pc[u] = "idle"
    BY <1>1 DEF Stopped, SectionsInv, InLibrary
  <2> QED
    BY <2>1, OutExactly
<1>5. pc'[t] = "idle" /\ using'[t] = None
  BY <1>2, <1>4 DEF LibraryTypes
<1>6. eligible' = eligible /\ (recheck' <=> Freed) /\ recheck' \in BOOLEAN
  BY <1>1, <1>3 DEF Requeue, FirstChanges, Freed
<1>7. LibraryTypes' /\ KernelTypes' /\ Live'
  BY <1>1, <1>2, <1>4, <1>6
     DEF SectionsInv, LibraryTypes, KernelTypes, Live, Places, Section0, shared, stops, choice, lock, partition
<1>8. \A s \in Sections : owner[s] # t
  BY <1>2, OwnsNothing DEF Leaving
<1>9. OwnersFollow(t)
  BY <1>1, <1>8 DEF OwnersFollow, shared
<1>10. InLibrary(t)'
  BY <1>1, <1>2, <1>3, <1>5 DEF InLibrary, Inside, Announcing, Outside, shared
<1>11. recheck' \/ (UNCHANGED <<recheck, entering, eligible>> /\ (Helps => Helps'))
  <2>1. ASSUME ~Freed PROVE ~Helps
    BY <1>2, <1>8, <2>1 DEF Helps, Freed, Owned, KernelTypes, Section0
  <2>2. ASSUME ~Freed PROVE recheck' = recheck
    BY <1>2, <1>3, <1>6, <2>2 DEF KernelTypes
  <2> QED
    BY <1>1, <1>6, <2>1, <2>2
<1>12. OthersStay(t)
  BY <1>1, <1>2, <1>4 DEF OthersStay, LibraryTypes, shared
<1>13. Passes(t)
  BY <1>1, <1>3, <1>5, <1>9, <1>11, <1>12 DEF Passes, Runs, shared
<1> QED
  BY <1>7, <1>10, <1>13, PassesStep

(* The threads that stop or go on when t stops: those that wait for it ...   *)
Going(t) == DonorsOf(t)

(* ... and, of these, those that other threads wait for, with itself.        *)
Stopping(t) == {t} \union {d \in DonorsOf(t) : firstDonator[d] # None}

ReschedKernel(t) ==
  /\ ~disabled /\ disabled' = TRUE /\ current = t
  /\ firstDonator[t] # None
  /\ StopAll(Stopping(t), Freed \/ selected \in Going(t))
  /\ donateTarget' = [u \in Threads |-> IF u \in Going(t) THEN None ELSE donateTarget[u]]
  /\ nextDonator' = [u \in Threads |-> IF u \in Going(t) THEN None ELSE nextDonator[u]]
  /\ firstDonator' = [u \in Threads |-> IF u \in Stopping(t) THEN None ELSE firstDonator[u]]
  /\ UNCHANGED <<choice, shared, queue, partition, kind>>

(* What jet_resched does when the thread is to stop.                         *)
LEMMA ReschedIs ==
  ASSUME SectionsInv, NEW t \in Threads, ReschedStops(t), UNCHANGED <<queue, partition, kind>>
  PROVE  ReschedKernel(t)
<1>1. ~disabled /\ disabled' = TRUE /\ current = t /\ firstDonator[t] # None
  BY DEF ReschedStops, SysCall
<1>2. donateTarget[t] = None
  BY <1>1, RunningThread DEF RunsRight, Runs
<1>3. PICK q \in Seq(Threads) :
        OnceEach(q) /\ ToSet(q) = DonorsOf(t) /\ Linked(q, firstDonator[t], nextDonator)
  BY <1>2 DEF SectionsInv, Listed
<1>4. Donators(t) = DonorsOf(t)
  BY <1>3, DonatorsAre DEF SectionsInv, KernelTypes
<1> QED
  BY <1>1, <1>4 DEF ReschedStops, ReschedKernel, Going, Stopping

(* Of the threads that stop, t alone was in the library.                     *)
LEMMA GoingIdle ==
  ASSUME SectionsInv, NEW t \in Threads
  PROVE  /\ Going(t) \subseteq Threads /\ Stopping(t) \subseteq Threads /\ t \in Stopping(t)
         /\ \A d \in Going(t) : /\ d \in Threads /\ pc[d] = "idle" /\ entering[d] = None /\ using[d] = None
                                /\ donateTarget[d] = t /\ state[d] # "stopped"
         /\ \A d \in Stopping(t) : d = t \/ d \in Going(t)
<1>1. ASSUME NEW d \in DonorsOf(t)
      PROVE  /\ d \in Threads /\ pc[d] = "idle" /\ entering[d] = None /\ using[d] = None
             /\ donateTarget[d] = t /\ state[d] # "stopped"
  <2>1. d \in Threads /\ donateTarget[d] = t /\ t # None
    BY ThreadsAssumption DEF DonorsOf
  <2>2. pc[d] = "idle" /\ state[d] # "stopped"
    BY <2>1 DEF SectionsInv, Donates
  <2> QED
    BY <2>1, <2>2 DEF SectionsInv, InLibrary, Announcing
<1> QED
  BY <1>1 DEF Going, Stopping

(* Its donators go on, and those of the others stay.                         *)
LEMMA ReschedDonates ==
  ASSUME SectionsInv, NEW t \in Threads, ReschedKernel(t), donateTarget[t] = None,
         pc' = [pc EXCEPT ![t] = "idle"], NEW d \in Threads
  PROVE  Donates(d)' /\ Listed(d)'
<1> DEFINE G == Going(t)
           S == Stopping(t)
<1>1. /\ \A e \in G : e \in Threads /\ pc[e] = "idle" /\ donateTarget[e] = t /\ state[e] # "stopped"
      /\ \A e \in S : e = t \/ e \in G
      /\ t \in S /\ t # None
      /\ \A e \in Threads : e \in G <=> donateTarget[e] = t
      /\ \A e \in Threads : e \in S <=> (e = t \/ (e \in G /\ firstDonator[e] # None))
  BY GoingIdle, ThreadsAssumption DEF Going, Stopping, DonorsOf
<1>2. \A e \in Threads :
        /\ donateTarget'[e] = IF e \in G THEN None ELSE donateTarget[e]
        /\ nextDonator'[e] = IF e \in G THEN None ELSE nextDonator[e]
        /\ firstDonator'[e] = IF e \in S THEN None ELSE firstDonator[e]
        /\ state'[e] = IF e \in S THEN "stopped" ELSE state[e]
        /\ killed'[e] = killed[e]
        /\ pc'[e] = IF e = t THEN "idle" ELSE pc[e]
  BY DEF ReschedKernel, StopAll, shared, SectionsInv, LibraryTypes
<1> HIDE DEF G, S
<1>3. ASSUME donateTarget'[d] # None PROVE Donates(d)'
  <2> DEFINE u == donateTarget[d]
  <2>1. d \notin G /\ donateTarget'[d] = u /\ u # None /\ u \in Threads
    BY <1>2, <1>3 DEF SectionsInv, KernelTypes, Thread0
  <2>2. u # t /\ d # t
    BY <1>1, <1>2, <1>3, <2>1
  <2>3. /\ pc[d] = "idle" /\ state[d] # "stopped"
        /\ killed[u] /\ pc[u] \notin {"idle", "testFlag"} /\ state[u] = "runnable"
    BY <2>1 DEF SectionsInv, Donates
  <2> HIDE DEF u
  <2>4. u \notin S /\ d \notin S
    BY <1>1, <2>1, <2>2, <2>3
  <2>5. /\ pc'[d] = "idle" /\ state'[d] # "stopped"
        /\ killed'[u] /\ pc'[u] \notin {"idle", "testFlag"} /\ state'[u] = "runnable"
    BY <1>2, <2>1, <2>2, <2>3, <2>4
  <2> QED
    BY <2>1, <2>5 DEF Donates
<1>4. ASSUME donateTarget'[d] = None
      PROVE  \E q \in Seq(Threads) :
               OnceEach(q) /\ ToSet(q) = DonorsOf(d)' /\ Linked(q, firstDonator'[d], nextDonator')
  <2>1. CASE d = t \/ d \in G
    <3>1. ASSUME NEW e \in Threads, donateTarget'[e] = d PROVE FALSE
      <4>1. e \notin G /\ donateTarget[e] = d
        BY <1>2, <2>1, <3>1, ThreadsAssumption
      <4>2. d # t
        BY <1>1, <4>1
      <4>3. pc[d] # "idle"
        BY <4>1, ThreadsAssumption DEF SectionsInv, Donates
      <4> QED
        BY <1>1, <2>1, <4>2, <4>3
    <3>2. DonorsOf(d)' = {}
      BY <3>1 DEF DonorsOf
    <3>3. firstDonator'[d] = None
      BY <1>1, <1>2, <2>1
    <3>4. <<>> \in Seq(Threads) /\ OnceEach(<<>>) /\ ToSet(<<>>) = {} /\ Linked(<<>>, None, nextDonator')
      BY EmptySorted DEF OnceEach, Linked, First
    <3> QED
      BY <3>2, <3>3, <3>4
  <2>2. CASE d # t /\ d \notin G
    <3>1. donateTarget[d] = None /\ d \notin S /\ firstDonator'[d] = firstDonator[d]
      BY <1>1, <1>2, <1>4, <2>2
    <3>2. PICK q \in Seq(Threads) :
            OnceEach(q) /\ ToSet(q) = DonorsOf(d) /\ Linked(q, firstDonator[d], nextDonator)
      BY <3>1 DEF SectionsInv, Listed
    <3>3. \A e \in Threads : donateTarget'[e] = d <=> donateTarget[e] = d
      BY <1>1, <1>2, <2>2, ThreadsAssumption
    <3>4. DonorsOf(d)' = DonorsOf(d)
      BY <3>3 DEF DonorsOf
    <3>5. \A i \in 1 .. Len(q) : q[i] \in Threads /\ nextDonator'[q[i]] = nextDonator[q[i]]
      <4>1. ASSUME NEW i \in 1 .. Len(q) PROVE q[i] \in Threads /\ nextDonator'[q[i]] = nextDonator[q[i]]
        <5>1. q[i] \in ToSet(q) /\ q[i] \in Threads
          BY Members
        <5>2. donateTarget[q[i]] = d
          BY <3>2, <5>1 DEF DonorsOf
        <5> QED
          BY <1>1, <1>2, <2>2, <5>1, <5>2
      <4> QED
        BY <4>1
    <3>6. Linked(q, firstDonator'[d], nextDonator')
      BY <3>1, <3>2, <3>5 DEF Linked
    <3> QED
      BY <3>2, <3>4, <3>6
  <2> QED
    BY <2>1, <2>2
<1> QED
  BY <1>3, <1>4 DEF Donates, Listed

(* Whoever waits for the thread that stops, or for its section, is chosen    *)
(* again.                                                                    *)
LEMMA ReschedRechecks ==
  ASSUME SectionsInv, NEW t \in Threads, pc[t] = "resched", Runs(t), ReschedKernel(t)
  PROVE  recheck' = TRUE
<1>1. /\ eligible' = Without(eligible, Stopping(t))
      /\ recheck' = (recheck \/ ((Freed \/ selected \in Going(t)) \/ StopsLocked(Stopping(t)))
                     \/ First(eligible') # First(eligible))
  BY DEF ReschedKernel, StopAll, Requeue, FirstChanges
<1>2. Owned(t) /\ RunsRight(t) /\ t \in Stopping(t) /\ KernelTypes
  BY RunnerOwns, GoingIdle DEF Owned, SectionsInv
<1>3. CASE Helps
  <2>1. owner[waitingSection] # t
    BY <1>2, <1>3, OwnsNothing DEF Leaving, Helps, KernelTypes, Section0
  <2>2. Freed
    BY <1>3, <2>1 DEF Helps, Freed, Runs
  <2> QED
    BY <1>1, <2>2
<1>4. CASE t = Base
  <2>1. CASE donateTarget[selected] # None
    <3>1. selected \in Going(t)
      BY <1>2, <1>4, <2>1 DEF Base, Going, DonorsOf, RunsRight
    <3> QED
      BY <1>1, <3>1
  <2>2. CASE donateTarget[selected] = None
    <3>1. t = Choice /\ Choice = IF lockLevel > 0 THEN locked ELSE First(eligible)
      BY <1>2, <1>4, <2>2 DEF Base, RunsRight, Choice, HandlerRuns, KernelTypes
    <3>2. CASE lockLevel > 0
      <4>1. StopsLocked(Stopping(t))
        BY <1>2, <3>1, <3>2 DEF StopsLocked
      <4> QED
        BY <1>1, <4>1
    <3>3. CASE ~(lockLevel > 0)
      <4>1. eligible' \in Seq(Threads) /\ ToSet(eligible') = ToSet(eligible) \ Stopping(t)
        BY <1>1, <1>2, WithoutOK DEF KernelTypes
      <4>2. First(eligible') # t
        <5>1. CASE eligible' = <<>>
          BY <5>1, ThreadsAssumption DEF First
        <5>2. CASE eligible' # <<>>
          <6>1. 1 \in 1 .. Len(eligible') /\ First(eligible') = eligible'[1]
            BY <4>1, <5>2 DEF First
          <6>2. eligible'[1] \in ToSet(eligible')
            BY <4>1, <6>1, Members
          <6> QED
            BY <1>2, <4>1, <6>1, <6>2
        <5> QED
          BY <5>1, <5>2
      <4> QED
        BY <1>1, <3>1, <3>3, <4>2
    <3> QED
      BY <3>2, <3>3
  <2> QED
    BY <2>1, <2>2
<1> QED
  BY <1>2, <1>3, <1>4 DEF RunsRight

(* jet_resched of a thread that is to stop.                                  *)
LEMMA ReschedStopsStep ==
  ASSUME SectionsInv, NEW t \in Threads, pc[t] = "resched", ReschedStops(t), GoOut({t} \union Stopped),
         UNCHANGED <<queue, partition, kind>>
  PROVE  SectionsInv'
<1>1. ReschedKernel(t) /\ Runs(t)
  BY ReschedIs DEF ReschedStops, SysCall, Runs
<1>2. Owned(t) /\ RunsRight(t) /\ LibraryTypes /\ KernelTypes /\ t # None
  BY <1>1, RunnerOwns, ThreadsAssumption DEF SectionsInv, Owned
<1>3. /\ using[t] \in Sections /\ userEntering[t] = None
      /\ msectionCount[t] = 0 /\ entering[t] = None /\ state[t] # "stopped" /\ donateTarget[t] = None
  BY <1>2 DEF LibraryTypes, Owned, InLibrary, RunsRight, Outside, Announcing
<1> DEFINE S == Stopping(t)
<1>4. /\ \A d \in S : d \in Threads /\ (d = t \/ (pc[d] = "idle" /\ entering[d] = None)) /\ entering[d] = None
      /\ t \in S /\ S \subseteq Threads
  BY <1>3, GoingIdle
<1>5. /\ disabled' = TRUE /\ UNCHANGED <<choice, shared, queue, partition, kind, suspended, priority>>
      /\ eligible' = Without(eligible, S)
      /\ \A u \in Threads : state'[u] = IF u \in S THEN "stopped" ELSE state[u]
      /\ state' \in [Threads -> {"stopped", "runnable", "waiting"}]
      /\ entering' = entering
      /\ lockLevel' = IF StopsLocked(S) THEN 0 ELSE lockLevel
      /\ locked' = IF StopsLocked(S) THEN None ELSE locked
  <2> HIDE DEF S
  <2>1. StopAll(S, Freed \/ selected \in Going(t))
    BY <1>1 DEF ReschedKernel, S
  <2>2. entering' = entering
    <3>1. entering' = [u \in Threads |-> IF u \in S THEN None ELSE entering[u]]
      BY <2>1 DEF StopAll
    <3> QED
      BY <1>2, <1>4, <3>1 DEF KernelTypes
  <2>3. state' = [u \in Threads |-> IF u \in S THEN "stopped" ELSE state[u]]
    BY <2>1 DEF StopAll
  <2>4. /\ \A u \in Threads : state'[u] = IF u \in S THEN "stopped" ELSE state[u]
        /\ state' \in [Threads -> {"stopped", "runnable", "waiting"}]
    BY <1>2, <2>3 DEF KernelTypes
  <2> QED
    BY <1>1, <2>1, <2>2, <2>4 DEF ReschedKernel, StopAll, Requeue
<1>6. recheck' = TRUE
  BY <1>1, ReschedRechecks
<1> HIDE DEF S
<1>7. pc' = [pc EXCEPT ![t] = "idle"] /\ using' = [using EXCEPT ![t] = None]
  <2>1. \A u \in Threads \ {t} : u \in {t} \union Stopped => pc[u] = "idle"
    BY <1>4, <1>5 DEF Stopped, SectionsInv, InLibrary
  <2> QED
    BY <2>1, OutExactly
<1>8. \A u \in Threads : /\ pc'[u] = IF u = t THEN "idle" ELSE pc[u]
                         /\ using'[u] = IF u = t THEN None ELSE using[u]
  BY <1>2, <1>7 DEF LibraryTypes
<1>9. eligible' \in Seq(Threads) /\ ToSet(eligible') = ToSet(eligible) \ S
  BY <1>2, <1>5, WithoutOK DEF KernelTypes
<1>10. Live'
  <2>1. \A u \in ToSet(eligible') : state'[u] = "runnable"
    BY <1>5, <1>9, Members DEF SectionsInv, Live
  <2>2. ASSUME lockLevel' > 0 PROVE locked' # None /\ state'[locked'] = "runnable"
    <3>1. ~StopsLocked(S) /\ lockLevel > 0 /\ locked' = locked /\ locked \notin S
      BY <1>5, <2>2 DEF StopsLocked
    <3>2. locked \in Threads /\ state[locked] = "runnable" /\ locked # None
      BY <1>2, <3>1 DEF SectionsInv, Live, KernelTypes, Thread0
    <3> QED
      BY <1>5, <3>1, <3>2
  <2> QED
    BY <2>1, <2>2 DEF Live
<1>11. KernelTypes'
  <2>1. lockLevel' \in Nat /\ locked' \in Thread0
    BY <1>2, <1>5 DEF KernelTypes, Thread0
  <2>2. /\ donateTarget' \in [Threads -> Thread0] /\ firstDonator' \in [Threads -> Thread0]
        /\ nextDonator' \in [Threads -> Thread0]
    BY <1>1, <1>2 DEF ReschedKernel, KernelTypes, Thread0
  <2> QED
    BY <1>2, <1>5, <1>6, <1>9, <2>1, <2>2 DEF KernelTypes, choice, partition
<1>12. LibraryTypes'
  BY <1>2, <1>5, <1>7 DEF LibraryTypes, Places, Section0, shared
<1>13. ASSUME NEW u \in Threads PROVE InLibrary(u)'
  <2>1. CASE u = t
    BY <1>3, <1>5, <1>8, <2>1 DEF InLibrary, Inside, Announcing, Outside, shared
  <2>2. CASE u # t
    <3>1. state'[u] = "stopped" => pc[u] = "idle"
      BY <1>4, <1>5, <2>2 DEF SectionsInv, InLibrary
    <3>2. InLibrary(u) /\ ~Runs(u)
      BY <1>1, <2>2 DEF SectionsInv, Runs
    <3> QED
      BY <1>5, <1>8, <2>2, <3>1, <3>2 DEF InLibrary, shared
  <2> QED
    BY <2>1, <2>2
<1>14. Owners'
  <2> SUFFICES ASSUME NEW s \in Sections, owner'[s] # None PROVE Owns(owner[s], s)' /\ owner' = owner
    BY DEF Owners
  <2>1. owner' = owner
    BY <1>5 DEF shared
  <2>2. PICK o \in Threads : o = owner[s] /\ Owns(o, s) /\ o # t
    BY <1>2, <2>1, OwnsNothing DEF SectionsInv, Owners, LibraryTypes, Thread0, Leaving
  <2>3. o \notin S
    BY <1>4, <2>2 DEF Owns, Announcing, Inside
  <2>4. Owns(o, s)'
    BY <1>5, <1>8, <2>2, <2>3 DEF Owns
  <2> QED
    BY <2>1, <2>2, <2>4
<1>15. Awoken'
  BY <1>5, <1>8 DEF SectionsInv, Awoken
<1>16. Due'
  BY <1>5, <1>6 DEF Due
<1> QED
  BY <1>1, <1>3, <1>7, <1>10, <1>11, <1>12, <1>13, <1>14, <1>15, <1>16, ReschedDonates DEF SectionsInv

--------------------------------------------------------------------------------
(* STOP.  A thread joins a list at the place k.                              *)
Joins(q, k, t, next, then, first, start) ==
  /\ then[t] = IF k = Len(q) + 1 THEN None ELSE q[k]
  /\ \A i \in 1 .. Len(q) : then[q[i]] = IF i = k - 1 THEN t ELSE next[q[i]]
  /\ start = IF k = 1 THEN t ELSE first

LEMMA ListInserted ==
  ASSUME NEW q \in Seq(Threads), OnceEach(q), NEW t \in Threads, t \notin ToSet(q),
         NEW k \in 1 .. Len(q) + 1, NEW next, NEW then, NEW first, NEW start,
         Linked(q, first, next), Joins(q, k, t, next, then, first, start)
  PROVE  \E r \in Seq(Threads) :
           OnceEach(r) /\ ToSet(r) = ToSet(q) \union {t} /\ Linked(r, start, then)
<1> DEFINE L == Len(q)
<1>1. PICK r : r = InsertAt(q, k, t)
  OBVIOUS
<1>a. Insertion(r, q, k, t)
  BY <1>1, Inserted
<1>2. /\ r \in Seq(Threads) /\ Len(r) = L + 1 /\ L \in Nat /\ k \in 1 .. L + 1
      /\ \A i \in 1 .. L + 1 : r[i] = IF i < k THEN q[i] ELSE IF i = k THEN t ELSE q[i - 1]
  <2>1. Len(q) \in Nat
    OBVIOUS
  <2> QED
    BY <1>a, <2>1 DEF Insertion
<1>b. ASSUME NEW i \in 1 .. L + 1, i > k
      PROVE  i - 1 \in 1 .. L /\ r[i] = q[i - 1] /\ i - 1 >= k
  <2> HIDE DEF L
  <2>1. i - 1 \in 1 .. L /\ i - 1 >= k /\ ~(i < k) /\ i # k
    BY <1>2, <1>b
  <2> QED
    BY <1>2, <2>1
<1>3. \A i \in 1 .. L : q[i] \in Threads /\ q[i] # t /\ next[q[i]] = IF i = L THEN None ELSE q[i + 1]
  BY Members DEF Linked
<1>4. /\ then[t] = IF k = L + 1 THEN None ELSE q[k]
      /\ \A i \in 1 .. L : then[q[i]] = IF i = k - 1 THEN t ELSE next[q[i]]
      /\ start = IF k = 1 THEN t ELSE first
  BY DEF Joins
<1>5. \A i, j \in 1 .. L : i < j => q[i] # q[j]
  BY DEF OnceEach
<1>6. first = IF L = 0 THEN None ELSE q[1]
  BY DEF Linked, First
<1>7. /\ \A u : u \in ToSet(q) <=> \E i \in 1 .. L : q[i] = u
      /\ \A u : u \in ToSet(r) <=> \E i \in 1 .. L + 1 : r[i] = u
  <2>1. ToSet(q) = {q[i] : i \in 1 .. L} /\ ToSet(r) = {r[i] : i \in 1 .. L + 1}
    BY <1>2, Members
  <2> QED
    BY <2>1
<1> HIDE DEF L
<1>8. OnceEach(r)
  <2> SUFFICES ASSUME NEW i \in 1 .. L + 1, NEW j \in 1 .. L + 1, i < j PROVE r[i] # r[j]
    BY <1>2 DEF OnceEach
  <2>1. CASE j < k
    BY <1>2, <1>5, <2>1
  <2>2. CASE j = k
    BY <1>2, <1>3, <2>2
  <2>3. CASE j > k /\ i < k
    <3>1. i \in 1 .. L /\ j - 1 \in 1 .. L /\ i < j - 1
      BY <1>2, <2>3
    <3> QED
      BY <1>2, <1>5, <2>3, <3>1
  <2>4. CASE j > k /\ i = k
    <3>1. j - 1 \in 1 .. L /\ r[j] = q[j - 1] /\ r[i] = t
      BY <1>2, <1>b, <2>4
    <3> QED
      BY <1>3, <3>1
  <2>5. CASE j > k /\ i > k
    <3>1. i - 1 \in 1 .. L /\ j - 1 \in 1 .. L /\ r[i] = q[i - 1] /\ r[j] = q[j - 1]
      BY <1>b, <2>5
    <3>2. i - 1 < j - 1
      BY <1>2
    <3> QED
      BY <1>5, <3>1, <3>2
  <2> QED
    BY <1>2, <2>1, <2>2, <2>3, <2>4, <2>5
<1>9. ToSet(r) = ToSet(q) \union {t}
  <2>1. ASSUME NEW u, u \in ToSet(r) PROVE u \in ToSet(q) \union {t}
    <3>1. PICK i \in 1 .. L + 1 : r[i] = u
      BY <1>7, <2>1
    <3>2. CASE i < k
      <4>1. i \in 1 .. L
        BY <1>2, <3>2
      <4> QED
        BY <1>2, <1>7, <3>1, <3>2, <4>1
    <3>3. CASE i > k
      <4>1. i - 1 \in 1 .. L
        BY <1>2, <3>3
      <4> QED
        BY <1>2, <1>7, <3>1, <3>3, <4>1
    <3> QED
      BY <1>2, <3>1, <3>2, <3>3
  <2>2. ASSUME NEW u, u \in ToSet(q) PROVE u \in ToSet(r)
    <3>1. PICK i \in 1 .. L : q[i] = u
      BY <1>7, <2>2
    <3>2. CASE i < k
      BY <1>2, <1>7, <3>1, <3>2
    <3>3. CASE i >= k
      <4>1. i + 1 \in 1 .. L + 1 /\ i + 1 - 1 = i /\ ~(i + 1 < k) /\ i + 1 # k
        BY <1>2, <3>3
      <4>2. r[i + 1] = q[i]
        BY <1>2, <4>1
      <4> QED
        BY <1>7, <3>1, <4>1, <4>2
    <3> QED
      BY <1>2, <3>2, <3>3
  <2>3. t \in ToSet(r)
    BY <1>2, <1>7
  <2> QED
    BY <2>1, <2>2, <2>3
<1>10. start = First(r)
  <2>1. First(r) = r[1]
    BY <1>2 DEF First
  <2> QED
    BY <1>2, <1>4, <1>6, <2>1
<1>11. ASSUME NEW i \in 1 .. L + 1 PROVE then[r[i]] = IF i = L + 1 THEN None ELSE r[i + 1]
  <2>1. CASE i = k
    <3>1. i # L + 1 => i + 1 \in 1 .. L + 1 /\ r[i + 1] = q[k]
      BY <1>2, <2>1
    <3> QED
      BY <1>2, <1>4, <2>1, <3>1
  <2>2. CASE i = k - 1
    <3>1. i \in 1 .. L /\ r[i] = q[i] /\ r[i + 1] = t /\ i # L + 1
      BY <1>2, <2>2
    <3> QED
      BY <1>4, <2>2, <3>1
  <2>3. CASE i < k - 1
    <3>1. i \in 1 .. L /\ r[i] = q[i] /\ r[i + 1] = q[i + 1] /\ i # L + 1 /\ i # L /\ i # k - 1
      BY <1>2, <2>3
    <3> QED
      BY <1>3, <1>4, <3>1
  <2>4. CASE i > k
    <3>1. i - 1 \in 1 .. L /\ r[i] = q[i - 1] /\ i - 1 # k - 1 /\ (i - 1 = L <=> i = L + 1) /\ i - 1 + 1 = i
      BY <1>2, <2>4
    <3>2. then[r[i]] = IF i = L + 1 THEN None ELSE q[i]
      BY <1>3, <1>4, <3>1
    <3>3. ASSUME i # L + 1 PROVE r[i + 1] = q[i]
      <4>1. i + 1 \in 1 .. L + 1 /\ i + 1 > k /\ i + 1 - 1 = i
        BY <1>2, <2>4, <3>3
      <4> QED
        BY <1>b, <4>1
    <3> QED
      BY <3>2, <3>3
  <2> QED
    BY <1>2, <2>1, <2>2, <2>3, <2>4
<1>12. Linked(r, start, then)
  BY <1>2, <1>10, <1>11 DEF Linked
<1> QED
  BY <1>2, <1>8, <1>9, <1>12

(* A thread outside of the library waits for another to stop: it joins the   *)
(* list q of its donators.                                                   *)
WaitsFor(t, v, q, k) ==
  /\ v # t /\ donateTarget[v] = None
  /\ q \in Seq(Threads) /\ OnceEach(q) /\ ToSet(q) = DonorsOf(v)
  /\ Linked(q, firstDonator[v], nextDonator) /\ k \in 1 .. Len(q) + 1
  /\ Joins(q, k, t, nextDonator, nextDonator', firstDonator[v], firstDonator'[v])
  /\ donateTarget' = [donateTarget EXCEPT ![t] = v]
  /\ \A d \in Threads \ {t, v} : donateTarget[d] = None => firstDonator'[d] = firstDonator[d]
  /\ \A d \in Threads \ {t} : donateTarget[d] # v => nextDonator'[d] = nextDonator[d]
  /\ killed'[v] /\ pc[v] \notin {"idle", "testFlag"} /\ state'[v] = "runnable"

(* The lists of donators stay right.                                         *)
LEMMA WaitsDonates ==
  ASSUME SectionsInv, NEW t \in Threads, Runs(t), pc[t] = "idle", NEW v \in Threads, NEW q, NEW k,
         WaitsFor(t, v, q, k), pc' = pc,
         \A u \in Threads : /\ killed[u] => killed'[u]
                            /\ state'[u] = state[u] \/ state'[u] = "runnable",
         NEW d \in Threads
  PROVE  Donates(d)' /\ Listed(d)'
<1>1. donateTarget[t] = None /\ state[t] # "stopped" /\ t # None /\ v # None
  BY RunningThread, ThreadsAssumption DEF RunsRight
<1>2. \A e \in Threads : donateTarget'[e] = IF e = t THEN v ELSE donateTarget[e]
  BY DEF WaitsFor, SectionsInv, KernelTypes
<1>3. ASSUME donateTarget'[d] # None PROVE Donates(d)'
  <2>1. CASE d = t
    <3>1. donateTarget'[d] = v /\ pc'[d] = "idle" /\ state'[d] # "stopped"
      BY <1>1, <1>2, <2>1
    <3> QED
      BY <3>1 DEF Donates, WaitsFor
  <2>2. CASE d # t
    <3> DEFINE u == donateTarget[d]
    <3>1. /\ pc[d] = "idle" /\ state[d] # "stopped" /\ u \in Threads /\ donateTarget'[d] = u
          /\ killed[u] /\ pc[u] \notin {"idle", "testFlag"} /\ state[u] = "runnable"
      BY <1>2, <1>3, <2>2 DEF SectionsInv, Donates, KernelTypes, Thread0
    <3> HIDE DEF u
    <3>2. killed'[u] /\ state'[u] = "runnable" /\ state'[d] # "stopped"
      BY <3>1
    <3> QED
      BY <3>1, <3>2 DEF Donates
  <2> QED
    BY <2>1, <2>2
<1>4. ASSUME donateTarget'[d] = None
      PROVE  \E r \in Seq(Threads) :
               OnceEach(r) /\ ToSet(r) = DonorsOf(d)' /\ Linked(r, firstDonator'[d], nextDonator')
  <2>1. d # t /\ donateTarget[d] = None
    BY <1>1, <1>2, <1>4
  <2>2. CASE d = v
    <3>1. t \notin ToSet(q)
      BY <1>1 DEF WaitsFor, DonorsOf
    <3>2. PICK r \in Seq(Threads) :
            OnceEach(r) /\ ToSet(r) = ToSet(q) \union {t} /\ Linked(r, firstDonator'[v], nextDonator')
      BY <3>1, ListInserted DEF WaitsFor
    <3>3. DonorsOf(v)' = DonorsOf(v) \union {t}
      <4>1. \A e \in Threads : donateTarget'[e] = v <=> (e = t \/ donateTarget[e] = v)
        BY <1>2
      <4> QED
        BY <4>1 DEF DonorsOf
    <3> QED
      BY <2>2, <3>2, <3>3 DEF WaitsFor
  <2>3. CASE d # v
    <3>1. PICK r \in Seq(Threads) :
            OnceEach(r) /\ ToSet(r) = DonorsOf(d) /\ Linked(r, firstDonator[d], nextDonator)
      BY <2>1 DEF SectionsInv, Listed
    <3>2. \A e \in Threads : donateTarget'[e] = d <=> donateTarget[e] = d
      BY <1>1, <1>2, <2>3, ThreadsAssumption
    <3>3. DonorsOf(d)' = DonorsOf(d)
      BY <3>2 DEF DonorsOf
    <3>4. ASSUME NEW i \in 1 .. Len(r) PROVE nextDonator'[r[i]] = nextDonator[r[i]]
      <4>1. r[i] \in Threads /\ donateTarget[r[i]] = d
        BY <3>1, Members DEF DonorsOf
      <4>2. r[i] # t /\ donateTarget[r[i]] # v
        BY <1>1, <2>3, <4>1, ThreadsAssumption
      <4> QED
        BY <4>1, <4>2 DEF WaitsFor
    <3>5. firstDonator'[d] = firstDonator[d]
      BY <2>1, <2>3 DEF WaitsFor
    <3>6. Linked(r, firstDonator'[d], nextDonator')
      BY <3>1, <3>4, <3>5 DEF Linked
    <3> QED
      BY <3>1, <3>3, <3>6
  <2> QED
    BY <2>2, <2>3
<1> QED
  BY <1>3, <1>4 DEF Donates, Listed

(* A thread that begins to donate keeps the invariant.                       *)
LEMMA WaitsStep ==
  ASSUME SectionsInv, NEW t \in Threads, Runs(t), pc[t] = "idle", NEW v \in Threads, NEW q, NEW k,
         WaitsFor(t, v, q, k), pc' = pc, using' = using, disabled' = TRUE, recheck' = TRUE,
         UNCHANGED <<entering, owner, reschedAfterLeave, msectionCount, userEntering, lock, choice,
                     queue, partition, kind, suspended, priority>>,
         \A u \in Threads : /\ killed[u] => killed'[u]
                            /\ state'[u] = state[u] \/ state'[u] = "runnable",
         eligible' \in Seq(Threads), state' \in [Threads -> {"stopped", "runnable", "waiting"}],
         firstDonator' \in [Threads -> Thread0], nextDonator' \in [Threads -> Thread0],
         killed' \in [Threads -> BOOLEAN], Live'
  PROVE  SectionsInv'
<1>1. Still(t)
  BY DEF Still, Announcing
<1>2. KernelTypes'
  <2>1. donateTarget' \in [Threads -> Thread0]
    BY DEF WaitsFor, SectionsInv, KernelTypes, Thread0
  <2> QED
    BY <2>1 DEF SectionsInv, KernelTypes, lock, choice, partition
<1>3. LibraryTypes' /\ Awoken'
  BY DEF SectionsInv, LibraryTypes, Awoken
<1>4. Due'
  BY DEF Due
<1> QED
  BY <1>1, <1>2, <1>3, <1>4, StillInLibrary, StillOwners, WaitsDonates DEF SectionsInv

(* What all these calls have in common.                                      *)
StopCall(t, u) ==
  /\ Runs(t) /\ disabled' = TRUE /\ pc[t] = "idle" /\ u \in Threads \ {t} /\ state[u] # "stopped"
  /\ GoOut(Stopped) /\ UNCHANGED <<queue, partition, kind>>

LEMMA StopIs ==
  ASSUME SectionsInv, NEW t \in Threads, NEW u, SysCall(t), Target(t, u), Outer(t)
  PROVE  StopCall(t, u)
<1>1. u \in Threads \ {t} /\ state[u] # "stopped"
  BY DEF Target, Processes, SectionsInv, KernelTypes
<1> QED
  BY <1>1 DEF SysCall, Outer, StopCall, Runs

(* STOP of a thread in a section to which nobody donates yet.                *)
LEMMA StopLaterStep ==
  ASSUME SectionsInv, NEW t \in Threads, NEW u \in Threads, StopLater(t, u), Outer(t)
  PROVE  SectionsInv'
<1> DEFINE woken == IF state[u] = "waiting" THEN <<u>> ELSE <<>>
<1>1. /\ StopCall(t, u)
      /\ donateTarget[u] = None /\ firstDonator[u] = None /\ msectionCount[u] > 0
      /\ WakeUp(woken, "cancelled", TRUE)
      /\ donateTarget' = [donateTarget EXCEPT ![t] = u]
      /\ nextDonator' = [nextDonator EXCEPT ![t] = None]
      /\ firstDonator' = [firstDonator EXCEPT ![u] = t]
      /\ killed' = [killed EXCEPT ![u] = TRUE]
      /\ UNCHANGED <<lock, choice, owner, reschedAfterLeave, msectionCount, userEntering>>
  BY StopIs DEF StopLater, InSection, Donate
<1>2. woken \in Seq(Threads) /\ \A v \in Threads : v \in ToSet(woken) <=> (v = u /\ state[u] = "waiting")
  <2>1. ToSet(<<u>>) = {u} /\ ToSet(<<>>) = {} /\ <<u>> \in Seq(Threads) /\ <<>> \in Seq(Threads)
    BY DEF ToSet
  <2> QED
    BY <2>1
<1>3. RunsRight(t) /\ KernelTypes /\ LibraryTypes /\ InLibrary(u) /\ t # None
  BY <1>1, RunningThread, ThreadsAssumption DEF StopCall, SectionsInv
<1> HIDE DEF woken
<1>4. /\ Live' /\ eligible' \in Seq(Threads)
      /\ state' \in [Threads -> {"stopped", "runnable", "waiting"}]
      /\ \A v \in Threads : state'[v] = IF v = u /\ state[u] = "waiting" THEN "runnable" ELSE state[v]
      /\ UNCHANGED <<suspended, priority, entering>> /\ recheck' = TRUE
  <2>1. UNCHANGED <<lock, partition>>
    BY <1>1 DEF StopCall
  <2>2. recheck' = TRUE
    BY <1>1 DEF WakeUp, Requeue
  <2> QED
    BY <1>1, <1>2, <2>1, <2>2, WokenUp
<1>5. pc' = pc /\ using' = using
  <2>1. \A v \in Threads : state'[v] = "stopped" => state[v] = "stopped"
    BY <1>4
  <2> QED
    BY <1>1, <2>1, GoOutNobody DEF StopCall
<1>6. pc[u] \notin {"idle", "testFlag"} /\ state'[u] = "runnable"
  <2>1. pc[u] \notin Outside
    BY <1>1, <1>3 DEF InLibrary
  <2>2. state[u] \in {"runnable", "waiting"}
    BY <1>1, <1>3 DEF StopCall, KernelTypes
  <2> QED
    BY <1>4, <2>1, <2>2 DEF Outside
<1>7. WaitsFor(t, u, <<>>, 1)
  <2>1. DonorsOf(u) = {}
    BY <1>1, NoDonors DEF DonorsOf
  <2>2. /\ <<>> \in Seq(Threads) /\ ToSet(<<>>) = {} /\ OnceEach(<<>>) /\ 1 \in 1 .. Len(<<>>) + 1
        /\ First(<<>>) = None
    BY EmptySorted DEF OnceEach, First
  <2>3. Linked(<<>>, firstDonator[u], nextDonator)
    BY <1>1, <2>2 DEF Linked
  <2>4. Joins(<<>>, 1, t, nextDonator, nextDonator', firstDonator[u], firstDonator'[u])
    BY <1>1, <1>3 DEF Joins, KernelTypes
  <2>5. u # t /\ killed'[u] = TRUE
    BY <1>1, <1>3 DEF StopCall, LibraryTypes
  <2>6. /\ \A d \in Threads \ {t, u} : firstDonator'[d] = firstDonator[d]
        /\ \A d \in Threads \ {t} : nextDonator'[d] = nextDonator[d]
    BY <1>1, <1>3 DEF KernelTypes
  <2> QED
    BY <1>1, <1>6, <2>1, <2>2, <2>3, <2>4, <2>5, <2>6 DEF WaitsFor
<1>8. /\ \A v \in Threads : /\ killed[v] => killed'[v]
                            /\ state'[v] = state[v] \/ state'[v] = "runnable"
      /\ firstDonator' \in [Threads -> Thread0] /\ nextDonator' \in [Threads -> Thread0]
      /\ killed' \in [Threads -> BOOLEAN]
  BY <1>1, <1>3, <1>4 DEF KernelTypes, LibraryTypes, Thread0
<1> QED
  BY <1>1, <1>4, <1>5, <1>7, <1>8, WaitsStep DEF StopCall

(* The two other ways: nothing changes but the lists.                        *)
LEMMA ListChangesStep ==
  ASSUME SectionsInv, NEW t \in Threads, NEW u, StopCall(t, u),
         NEW v \in Threads, NEW q, NEW k, WaitsFor(t, v, q, k), recheck' = TRUE,
         firstDonator' \in [Threads -> Thread0], nextDonator' \in [Threads -> Thread0],
         UNCHANGED <<state, suspended, priority, entering, eligible, lock, choice, shared>>
  PROVE  SectionsInv'
<1>1. pc' = pc /\ using' = using
  BY GoOutNobody DEF StopCall
<1>2. KernelTypes /\ LibraryTypes /\ Live
  BY DEF SectionsInv
<1>3. /\ eligible' \in Seq(Threads) /\ state' \in [Threads -> {"stopped", "runnable", "waiting"}]
      /\ killed' \in [Threads -> BOOLEAN] /\ Live'
  BY <1>2 DEF KernelTypes, LibraryTypes, Live, lock, shared
<1>4. Runs(t) /\ pc[t] = "idle" /\ disabled' = TRUE /\ UNCHANGED <<queue, partition, kind>>
  BY DEF StopCall
<1>5. /\ UNCHANGED <<entering, owner, reschedAfterLeave, msectionCount, userEntering, lock, choice,
                     queue, partition, kind, suspended, priority>>
      /\ \A w \in Threads : /\ killed[w] => killed'[w]
                            /\ state'[w] = state[w] \/ state'[w] = "runnable"
  BY <1>4 DEF shared
<1> QED
  BY <1>1, <1>3, <1>4, <1>5, WaitsStep

(* STOP of a thread to which others donate already.                          *)
LEMMA StopAgainStep ==
  ASSUME SectionsInv, NEW t \in Threads, NEW u \in Threads, StopAgain(t, u), Outer(t)
  PROVE  SectionsInv'
<1>1. /\ StopCall(t, u)
      /\ donateTarget[u] = None /\ firstDonator[u] # None /\ recheck' = TRUE
      /\ donateTarget' = [donateTarget EXCEPT ![t] = u]
      /\ nextDonator' = [nextDonator EXCEPT ![t] = firstDonator[u]]
      /\ firstDonator' = [firstDonator EXCEPT ![u] = t]
      /\ UNCHANGED <<state, suspended, priority, entering, eligible, lock, choice, shared>>
  BY StopIs DEF StopAgain, Donate
<1>2. RunsRight(t) /\ KernelTypes /\ u # t /\ t # None
  BY <1>1, RunningThread, ThreadsAssumption DEF StopCall, SectionsInv
<1>3. killed[u] /\ pc[u] \notin {"idle", "testFlag"} /\ state[u] = "runnable"
  BY <1>1, HasDonor
<1>4. PICK q \in Seq(Threads) :
        OnceEach(q) /\ ToSet(q) = DonorsOf(u) /\ Linked(q, firstDonator[u], nextDonator)
  BY <1>1 DEF SectionsInv, Listed
<1>5. q # <<>> /\ firstDonator[u] = q[1] /\ Len(q) \in Nat /\ Len(q) # 0
  BY <1>1, <1>4 DEF Linked, First
<1>6. t \notin ToSet(q)
  BY <1>2, <1>4, ThreadsAssumption DEF RunsRight, DonorsOf
<1>7. \A d \in Threads : /\ nextDonator'[d] = IF d = t THEN q[1] ELSE nextDonator[d]
                         /\ firstDonator'[d] = IF d = u THEN t ELSE firstDonator[d]
  BY <1>1, <1>2, <1>5 DEF KernelTypes
<1>8. Joins(q, 1, t, nextDonator, nextDonator', firstDonator[u], firstDonator'[u])
  <2>1. \A i \in 1 .. Len(q) : nextDonator'[q[i]] = nextDonator[q[i]]
    BY <1>6, <1>7, Members
  <2>2. \A i \in 1 .. Len(q) : i # 1 - 1
    OBVIOUS
  <2> QED
    BY <1>5, <1>7, <2>1, <2>2 DEF Joins
<1>9. WaitsFor(t, u, q, 1)
  <2>1. killed'[u] /\ state'[u] = "runnable"
    BY <1>1, <1>3 DEF shared
  <2>2. 1 \in 1 .. Len(q) + 1
    BY <1>5
  <2> QED
    BY <1>1, <1>2, <1>3, <1>4, <1>7, <1>8, <2>1, <2>2 DEF WaitsFor
<1>10. firstDonator' \in [Threads -> Thread0] /\ nextDonator' \in [Threads -> Thread0]
  BY <1>1, <1>2 DEF KernelTypes, Thread0
<1> QED
  BY <1>1, <1>9, <1>10, ListChangesStep

(* STOP of a thread that donates itself.                                     *)
LEMMA StopDonatorStep ==
  ASSUME SectionsInv, NEW t \in Threads, NEW u \in Threads, StopDonator(t, u), Outer(t)
  PROVE  SectionsInv'
<1> DEFINE v == donateTarget[u]
<1>1. /\ StopCall(t, u) /\ v # None /\ recheck' = TRUE
      /\ firstDonator' = [firstDonator EXCEPT ![u] = IF firstDonator[u] = None THEN t ELSE firstDonator[u]]
      /\ donateTarget' = [donateTarget EXCEPT ![t] = v]
      /\ nextDonator' = [nextDonator EXCEPT ![t] = nextDonator[u], ![u] = t]
      /\ UNCHANGED <<state, suspended, priority, entering, eligible, lock, choice, shared>>
  BY StopIs DEF StopDonator
<1>2. RunsRight(t) /\ KernelTypes /\ u # t /\ t # None /\ pc[t] = "idle"
  BY <1>1, RunningThread, ThreadsAssumption DEF StopCall, SectionsInv
<1>3. /\ v \in Threads /\ pc[u] = "idle" /\ killed[v] /\ pc[v] \notin {"idle", "testFlag"}
      /\ state[v] = "runnable"
  BY <1>1, <1>2 DEF SectionsInv, Donates, KernelTypes, Thread0
<1>4. donateTarget[v] = None /\ v # t /\ v # u
  BY <1>2, <1>3 DEF SectionsInv, Donates
<1>5. PICK q \in Seq(Threads) :
        OnceEach(q) /\ ToSet(q) = DonorsOf(v) /\ Linked(q, firstDonator[v], nextDonator)
  BY <1>3, <1>4 DEF SectionsInv, Listed
<1>6. PICK i \in 1 .. Len(q) : q[i] = u
  <2>1. u \in ToSet(q)
    BY <1>5 DEF DonorsOf
  <2> QED
    BY <2>1, Members
<1>7. t \notin ToSet(q)
  BY <1>2, <1>3, <1>5, ThreadsAssumption DEF RunsRight, DonorsOf
<1>8. \A d \in Threads :
        /\ nextDonator'[d] = IF d = u THEN t ELSE IF d = t THEN nextDonator[u] ELSE nextDonator[d]
        /\ d # u => firstDonator'[d] = firstDonator[d]
  BY <1>1, <1>2 DEF KernelTypes
<1>9. Len(q) \in Nat /\ i \in 1 .. Len(q) /\ i + 1 \in 1 .. Len(q) + 1 /\ i + 1 # 1 /\ i + 1 - 1 = i
      /\ (i + 1 = Len(q) + 1 <=> i = Len(q))
  OBVIOUS
<1>10. Joins(q, i + 1, t, nextDonator, nextDonator', firstDonator[v], firstDonator'[v])
  <2>1. nextDonator'[t] = IF i = Len(q) THEN None ELSE q[i + 1]
    BY <1>2, <1>5, <1>6, <1>8 DEF Linked
  <2>2. \A j \in 1 .. Len(q) : nextDonator'[q[j]] = IF j = i THEN t ELSE nextDonator[q[j]]
    <3>1. \A j \in 1 .. Len(q) : q[j] \in Threads /\ q[j] # t /\ (q[j] = u <=> j = i)
      <4>1. \A j \in 1 .. Len(q) : q[j] \in Threads /\ q[j] # t
        BY <1>7, Members
      <4>2. ASSUME NEW j \in 1 .. Len(q), q[j] = u PROVE j = i
        <5>1. ~(i < j) /\ ~(j < i)
          BY <1>5, <1>6, <4>2 DEF OnceEach
        <5> QED
          BY <5>1
      <4> QED
        BY <1>6, <4>1, <4>2
    <3> QED
      BY <1>8, <3>1
  <2>3. firstDonator'[v] = firstDonator[v]
    BY <1>3, <1>4, <1>8
  <2> QED
    BY <1>9, <2>1, <2>2, <2>3 DEF Joins
<1> HIDE DEF v
<1>11. WaitsFor(t, v, q, i + 1)
  <2>1. killed'[v] /\ state'[v] = "runnable"
    BY <1>1, <1>3 DEF shared
  <2>2. \A d \in Threads \ {t, v} : donateTarget[d] = None => firstDonator'[d] = firstDonator[d]
    BY <1>1, <1>8 DEF v
  <2>3. \A d \in Threads \ {t} : donateTarget[d] # v => nextDonator'[d] = nextDonator[d]
    BY <1>8 DEF v
  <2> QED
    BY <1>1, <1>3, <1>4, <1>5, <1>9, <1>10, <2>1, <2>2, <2>3 DEF WaitsFor
<1>12. firstDonator' \in [Threads -> Thread0] /\ nextDonator' \in [Threads -> Thread0]
  BY <1>1, <1>2 DEF KernelTypes, Thread0
<1> QED
  BY <1>1, <1>3, <1>11, <1>12, ListChangesStep

(* STOP of a thread outside of any section, which stops at once.             *)
LEMMA StopNowStep ==
  ASSUME SectionsInv, NEW t \in Threads, NEW u \in Threads, StopNow(t, u), Outer(t)
  PROVE  SectionsInv'
<1>1. /\ StopCall(t, u)
      /\ donateTarget[u] = None /\ firstDonator[u] = None /\ ~(msectionCount[u] > 0)
      /\ StopAll({u}, FALSE) /\ UNCHANGED <<stops, choice, shared>>
  BY StopIs DEF StopNow, InSection
<1>2. RunsRight(t) /\ KernelTypes /\ LibraryTypes /\ u # t /\ t # None /\ Runs(t) /\ pc[t] = "idle"
  BY <1>1, RunningThread, ThreadsAssumption DEF StopCall, SectionsInv
<1>3. pc[u] \in Outside /\ entering[u] = None /\ userEntering[u] = None /\ msectionCount[u] = 0
  <2>1. InLibrary(u) /\ ~(1 = 0)
    BY DEF SectionsInv
  <2>2. pc[u] \in Outside
    BY <1>1, <2>1 DEF InLibrary
  <2> QED
    BY <2>1, <2>2 DEF InLibrary, Outside, Announcing
<1>4. /\ eligible' = Without(eligible, {u}) /\ entering' = entering
      /\ recheck' = (recheck \/ (FALSE \/ StopsLocked({u})) \/ First(eligible') # First(eligible))
      /\ lockLevel' = IF StopsLocked({u}) THEN 0 ELSE lockLevel
      /\ locked' = IF StopsLocked({u}) THEN None ELSE locked
      /\ UNCHANGED <<suspended, priority>>
      /\ state' \in [Threads -> {"stopped", "runnable", "waiting"}]
      /\ \A v \in Threads : state'[v] = IF v = u THEN "stopped" ELSE state[v]
  <2>1. state' = [v \in Threads |-> IF v \in {u} THEN "stopped" ELSE state[v]]
    BY <1>1 DEF StopAll
  <2>2. entering' = [v \in Threads |-> IF v \in {u} THEN None ELSE entering[v]]
    BY <1>1 DEF StopAll
  <2>3. entering' = entering
    BY <1>2, <1>3, <2>2 DEF KernelTypes
  <2>4. /\ state' \in [Threads -> {"stopped", "runnable", "waiting"}]
        /\ \A v \in Threads : state'[v] = IF v = u THEN "stopped" ELSE state[v]
    BY <1>2, <2>1 DEF KernelTypes
  <2> QED
    BY <1>1, <2>3, <2>4 DEF StopAll, Requeue, FirstChanges
<1>5. pc' = [pc EXCEPT ![u] = "idle"] /\ using' = [using EXCEPT ![u] = None]
  <2>1. u \in Stopped /\ \A v \in Threads \ {u} : v \in Stopped => pc[v] = "idle"
    BY <1>4 DEF Stopped, SectionsInv, InLibrary
  <2>2. GoOut(Stopped)
    BY <1>1 DEF StopCall
  <2> HIDE DEF Stopped
  <2> QED
    BY <2>1, <2>2, OutExactly
<1>6. \A v \in Threads : /\ pc'[v] = IF v = u THEN "idle" ELSE pc[v]
                         /\ using'[v] = IF v = u THEN None ELSE using[v]
  BY <1>2, <1>5 DEF LibraryTypes
<1>7. eligible' \in Seq(Threads) /\ ToSet(eligible') = ToSet(eligible) \ {u}
  BY <1>2, <1>4, WithoutOK DEF KernelTypes
<1>8. Live'
  <2>1. \A v \in ToSet(eligible') : state'[v] = "runnable"
    BY <1>4, <1>7, Members DEF SectionsInv, Live
  <2>2. ASSUME lockLevel' > 0 PROVE locked' # None /\ state'[locked'] = "runnable"
    <3>1. ~StopsLocked({u}) /\ lockLevel > 0 /\ locked' = locked /\ locked # u
      BY <1>4, <2>2 DEF StopsLocked
    <3>2. locked \in Threads /\ state[locked] = "runnable" /\ locked # None
      BY <1>2, <3>1 DEF SectionsInv, Live, KernelTypes, Thread0
    <3> QED
      BY <1>4, <3>1, <3>2
  <2> QED
    BY <2>1, <2>2 DEF Live
<1>9. recheck' \in BOOLEAN
  BY <1>2, <1>4 DEF RunsRight
<1>10. KernelTypes'
  <2>1. lockLevel' \in Nat /\ locked' \in Thread0
    BY <1>2, <1>4 DEF KernelTypes, Thread0
  <2> QED
    BY <1>1, <1>2, <1>4, <1>7, <1>9, <2>1 DEF KernelTypes, choice, partition, stops, StopCall
<1>11. LibraryTypes'
  BY <1>1, <1>2, <1>5 DEF LibraryTypes, Places, Section0, shared, StopCall
<1>12. ASSUME NEW v \in Threads PROVE InLibrary(v)'
  <2>1. CASE v = u
    BY <1>1, <1>3, <1>4, <1>6, <2>1 DEF InLibrary, Inside, Announcing, Outside, shared
  <2>2. CASE v # u
    <3>1. InLibrary(v) /\ (Runs(v) => pc[v] \notin Announcing)
      BY <1>2 DEF SectionsInv, Runs, Announcing
    <3> QED
      BY <1>1, <1>4, <1>6, <2>2, <3>1 DEF InLibrary, shared, Announcing
  <2> QED
    BY <2>1, <2>2
<1>13. Owners'
  <2> SUFFICES ASSUME NEW s \in Sections, owner'[s] # None PROVE Owns(owner[s], s)' /\ owner' = owner
    BY DEF Owners
  <2>1. owner' = owner
    BY <1>1 DEF shared
  <2>2. PICK o \in Threads : o = owner[s] /\ Owns(o, s)
    BY <2>1 DEF SectionsInv, Owners, LibraryTypes, Thread0
  <2>3. o # u
    BY <1>3, <2>2 DEF Owns, Announcing, Inside, Outside
  <2>4. Owns(o, s)'
    BY <1>4, <1>6, <2>2, <2>3 DEF Owns
  <2> QED
    BY <2>1, <2>2, <2>4
<1>14. ASSUME NEW d \in Threads PROVE Donates(d)' /\ Listed(d)'
  <2>1. UNCHANGED <<donateTarget, firstDonator, nextDonator, killed>>
    BY <1>1 DEF stops, shared
  <2>2. Listed(d)'
    <3>1. DonorsOf(d)' = DonorsOf(d)
      BY <2>1 DEF DonorsOf
    <3>2. Listed(d)
      BY DEF SectionsInv
    <3> QED
      BY <2>1, <3>1, <3>2 DEF Listed, Linked
  <2>3. ASSUME donateTarget[d] # None PROVE Donates(d)'
    <3>1. /\ d # u /\ donateTarget[d] # u /\ donateTarget[d] \in Threads /\ Donates(d)
      BY <1>1, <1>2, <2>3, NoDonors DEF SectionsInv, KernelTypes, Thread0
    <3> QED
      BY <1>4, <1>6, <2>1, <2>3, <3>1 DEF Donates
  <2> QED
    BY <2>1, <2>2, <2>3 DEF Donates
<1>15. Awoken'
  BY <1>1, <1>6 DEF SectionsInv, Awoken, StopCall
<1>16. Due'
  <2>1. disabled' = TRUE /\ UNCHANGED <<current, selected, waitingSection, donateTarget>>
    BY <1>1 DEF StopCall, choice, stops
  <2>2. selected = t /\ current = t /\ t = Choice /\ Base = t
    BY <1>2 DEF RunsRight, Runs, Base
  <2>3. ASSUME ~recheck' PROVE Choice' = Choice
    <3>1. ~StopsLocked({u}) /\ First(eligible') = First(eligible)
      BY <1>4, <2>3
    <3>2. lockLevel' = lockLevel /\ locked' = locked /\ UNCHANGED <<mode, handler, errors>>
      BY <1>1, <1>4, <3>1 DEF StopCall, partition
    <3> QED
      BY <1>2, <3>1, <3>2 DEF Choice, HandlerRuns, KernelTypes
  <2> QED
    BY <1>2, <2>1, <2>2, <2>3 DEF Due, Base
<1> QED
  BY <1>8, <1>10, <1>11, <1>12, <1>13, <1>14, <1>15, <1>16 DEF SectionsInv

(* START of a stopped thread.                                                *)
LEMMA StartStep ==
  ASSUME SectionsInv, NEW t \in Threads, NEW u \in Threads, Start(t, u, FALSE), Outer(t)
  PROVE  SectionsInv'
<1> DEFINE q == IF suspended[u] THEN eligible ELSE Enqueue(eligible, u, priority')
<1>1. /\ Runs(t) /\ disabled' = TRUE /\ pc[t] = "idle" /\ state[u] = "stopped"
      /\ priority' = [priority EXCEPT ![u] = BasePriority[u]]
      /\ msectionCount' = [msectionCount EXCEPT ![u] = 0]
      /\ userEntering' = [userEntering EXCEPT ![u] = None]
      /\ killed' = [killed EXCEPT ![u] = FALSE]
      /\ state' = [state EXCEPT ![u] = "runnable"]
      /\ Requeue(q, FALSE)
      /\ UNCHANGED <<suspended, entering, stops, lock, choice, owner, reschedAfterLeave>>
      /\ GoOut(Stopped) /\ UNCHANGED <<queue, partition, kind>>
  BY DEF Start, SysCall, Runs, Outer
<1>2. KernelTypes /\ LibraryTypes /\ Live /\ ToSet(eligible) \subseteq Threads
  BY Members DEF SectionsInv, KernelTypes
<1>3. pc[u] = "idle" /\ msectionCount[u] = 0 /\ userEntering[u] = None
  BY <1>1 DEF SectionsInv, InLibrary, Outside, Announcing
<1>4. msectionCount' = msectionCount /\ userEntering' = userEntering
  BY <1>1, <1>2, <1>3 DEF LibraryTypes
<1>5. \A v \in Threads : state'[v] = IF v = u THEN "runnable" ELSE state[v]
  BY <1>1, <1>2 DEF KernelTypes
<1>6. pc' = pc /\ using' = using
  <2>1. \A v \in Threads : state'[v] = "stopped" => state[v] = "stopped"
    BY <1>5
  <2> QED
    BY <1>1, <2>1, GoOutNobody
<1>7. priority' \in [Threads -> Nat]
  BY <1>1, <1>2, ThreadsAssumption DEF KernelTypes
<1>8. q \in Seq(Threads) /\ \A v \in ToSet(q) : state'[v] = "runnable"
  <2>1. \A v \in ToSet(eligible) : state'[v] = "runnable"
    BY <1>2, <1>5 DEF Live
  <2>2. CASE suspended[u]
    BY <1>2, <2>1, <2>2 DEF KernelTypes
  <2>3. CASE ~suspended[u]
    <3>1. /\ Enqueue(eligible, u, priority') \in Seq(Threads)
          /\ ToSet(Enqueue(eligible, u, priority')) = ToSet(eligible) \union {u}
      BY <1>2, <1>7, EnqueueOK DEF KernelTypes
    <3> QED
      BY <1>5, <2>1, <2>3, <3>1
  <2> QED
    BY <2>2, <2>3
<1> HIDE DEF q
<1>9. lockLevel > 0 => state'[locked] = "runnable"
  BY <1>2, <1>5 DEF Live, KernelTypes, Thread0
<1>10. ChosenAgain /\ Live' /\ eligible' \in Seq(Threads) /\ recheck' \in BOOLEAN
  <2>1. UNCHANGED <<lock, partition>>
    BY <1>1
  <2> QED
    BY <1>1, <1>8, <1>9, <2>1, Requeued
<1>11. KernelTypes'
  BY <1>1, <1>2, <1>7, <1>10 DEF KernelTypes, lock, choice, stops, partition
<1>12. LibraryTypes' /\ Awoken'
  BY <1>1, <1>2, <1>4, <1>6 DEF SectionsInv, LibraryTypes, Awoken
<1>13. Calm(t)
  <2>1. \A v \in Threads : pc[v] # "idle" => killed'[v] = killed[v]
    BY <1>1, <1>2, <1>3 DEF LibraryTypes
  <2> QED
    BY <1>1, <1>4, <1>5, <1>6, <2>1 DEF Calm, Still, Announcing
<1> QED
  BY <1>10, <1>11, <1>12, <1>13, CalmStep

--------------------------------------------------------------------------------
(* An event interrupts the running thread: the kernel takes note of the      *)
(* section that this thread was about to enter.                              *)
LEMMA EventStep ==
  ASSUME SectionsInv, Interrupt, UNCHANGED <<library, partition, kind>>
  PROVE  SectionsInv'
<1>1. /\ ~disabled /\ disabled' = TRUE /\ recheck' = recheck
      /\ UNCHANGED <<state, suspended, priority, eligible, mode, handler, created, errors>>
      /\ UNCHANGED <<lockLevel, locked, current, selected, waitingSection>>
      /\ UNCHANGED <<donateTarget, firstDonator, nextDonator>>
      /\ UNCHANGED <<owner, reschedAfterLeave, msectionCount, userEntering, killed>>
      /\ UNCHANGED <<pc, using, queue, kind>>
  BY DEF Interrupt, library, partition, stops, lock, choice, shared
<1>2. KernelTypes /\ LibraryTypes
  BY DEF SectionsInv
<1>3. \A t \in Threads :
        entering'[t] = IF t = current /\ userEntering[t] # None THEN userEntering[t] ELSE entering[t]
  BY DEF Interrupt
<1>4. KernelTypes' /\ LibraryTypes'
  <2>1. entering' \in [Threads -> Section0]
    BY <1>2 DEF Interrupt, KernelTypes, LibraryTypes
  <2> QED
    BY <1>1, <1>2, <2>1 DEF KernelTypes, LibraryTypes
<1>5. ASSUME NEW t \in Threads PROVE InLibrary(t)'
  <2>1. InLibrary(t) /\ (pc[t] # "idle" => using[t] # None)
    BY DEF SectionsInv, InLibrary
  <2>2. ~(pc[t] = "idle" /\ pc[t] \in Announcing) /\ {"test", "claim", "help"} \subseteq Announcing
    BY DEF Announcing
  <2>3. CASE t = current
    <3>1. CASE userEntering[t] # None
      <4>1. entering'[t] = using[t] /\ pc[t] \in Announcing /\ entering'[t] # None
        BY <1>3, <2>1, <2>3, <3>1 DEF InLibrary
      <4> QED
        BY <1>1, <2>1, <4>1 DEF InLibrary
    <3>2. CASE userEntering[t] = None
      <4>1. pc[t] \notin Announcing
        BY <2>1, <2>2, <3>2 DEF InLibrary
      <4>2. entering'[t] = entering[t] /\ pc[t] \notin {"test", "claim", "help"}
        BY <1>3, <2>2, <3>2, <4>1
      <4> QED
        BY <1>1, <2>1, <4>2 DEF InLibrary
    <3> QED
      BY <3>1, <3>2
  <2>4. CASE t # current
    <3>1. entering'[t] = entering[t] /\ ~Runs(t)
      BY <1>3, <2>4 DEF Runs
    <3> QED
      BY <1>1, <2>1, <3>1 DEF InLibrary
  <2> QED
    BY <2>3, <2>4
<1>6. ASSUME NEW t \in Threads PROVE Donates(t)' /\ Listed(t)'
  BY <1>1 DEF SectionsInv, Donates, Listed, DonorsOf, Linked
<1>7. Owners' /\ Awoken' /\ Live'
  BY <1>1 DEF SectionsInv, Owners, Owns, Awoken, Live
<1>8. Base' = Base /\ Choice' = Choice
  BY <1>1 DEF Base, Choice, HandlerRuns
<1>9. ASSUME selected # None, Helps PROVE Helps'
  <2>1. selected \in Threads /\ Base \in Threads
    BY <1>2, <1>9 DEF Base, KernelTypes, Thread0
  <2>2. entering'[Base] = entering[Base]
    BY <1>3, <1>9, <2>1 DEF Helps
  <2> QED
    BY <1>1, <1>8, <1>9, <2>2 DEF Helps
<1>10. Due'
  BY <1>1, <1>8, <1>9 DEF SectionsInv, Due
<1> QED
  BY <1>4, <1>5, <1>6, <1>7, <1>10 DEF SectionsInv

(* The scheduler finds nothing to do.                                        *)
LEMMA SelectAgainStep ==
  ASSUME SectionsInv, Select, ~recheck, current # None => entering[current] = None,
         UNCHANGED <<library, partition, kind>>
  PROVE  SectionsInv'
<1>1. /\ disabled /\ disabled' = FALSE /\ recheck' = recheck
      /\ UNCHANGED <<state, suspended, priority, entering, eligible, mode, handler, created, errors>>
      /\ UNCHANGED <<lockLevel, locked, current, selected, waitingSection>>
      /\ UNCHANGED <<donateTarget, firstDonator, nextDonator>>
      /\ UNCHANGED <<owner, reschedAfterLeave, msectionCount, userEntering, killed>>
      /\ UNCHANGED <<pc, using, queue, kind>>
  BY DEF Select, library, partition, stops, lock, choice
<1>2. KernelTypes' /\ LibraryTypes'
  BY <1>1 DEF SectionsInv, KernelTypes, LibraryTypes
<1>3. ASSUME NEW t \in Threads PROVE InLibrary(t)'
  BY <1>1 DEF SectionsInv, InLibrary, Runs
<1>4. ASSUME NEW t \in Threads PROVE Donates(t)' /\ Listed(t)'
  BY <1>1 DEF SectionsInv, Donates, Listed, DonorsOf, Linked
<1>5. Owners' /\ Awoken' /\ Live'
  BY <1>1 DEF SectionsInv, Owners, Owns, Awoken, Live
<1>6. Base' = Base /\ Choice' = Choice
  BY <1>1 DEF Base, Choice, HandlerRuns
<1>7. Due'
  BY <1>1, <1>6 DEF SectionsInv, Due, Helps
<1> QED
  BY <1>2, <1>3, <1>4, <1>5, <1>7 DEF SectionsInv

(* It selects a thread, for which r runs: the entry of r is finished, and    *)
(* nothing else that matters here changes.                                   *)
Entry(r) ==
  /\ owner' = IF r # None /\ entering[r] # None THEN [owner EXCEPT ![entering[r]] = r] ELSE owner
  /\ entering' = IF r # None /\ entering[r] # None THEN [entering EXCEPT ![r] = None] ELSE entering

Selects(c, r) ==
  /\ disabled /\ ~disabled' /\ recheck' = FALSE
  /\ selected' = c /\ current' = r /\ waitingSection' = WaitedSection(c)
  /\ Entry(r)
  /\ UNCHANGED <<state, suspended, priority, eligible, mode, handler, created, errors>>
  /\ UNCHANGED <<lockLevel, locked, donateTarget, firstDonator, nextDonator>>
  /\ UNCHANGED <<msectionCount, userEntering, killed>>
  /\ UNCHANGED <<pc, using, queue, kind>>
  /\ reschedAfterLeave' \in [Sections -> BOOLEAN]
  /\ waitingSection' \in Sections => reschedAfterLeave'[waitingSection']

LEMMA SelectIs ==
  ASSUME SectionsInv, Select, recheck, UNCHANGED <<library, partition, kind>>
  PROVE  Selects(Choice, Runner(Choice))
<1>1. /\ disabled /\ disabled' = FALSE /\ recheck' = FALSE /\ isErrorHandler' = FALSE
      /\ selected' = Choice /\ current' = Runner(Choice) /\ waitingSection' = WaitedSection(Choice)
  BY DEF Select, SectionsInv, KernelTypes
<1>2. state' = state
  BY <1>1 DEF Select, SectionsInv, KernelTypes
<1>3. reschedAfterLeave' = [s \in Sections |->
             s = waitingSection' \/ (s # waitingSection /\ reschedAfterLeave[s])]
  BY DEF Select
<1>4. /\ reschedAfterLeave' \in [Sections -> BOOLEAN]
      /\ waitingSection' \in Sections => reschedAfterLeave'[waitingSection']
  <2>1. reschedAfterLeave \in [Sections -> BOOLEAN]
    BY DEF SectionsInv, LibraryTypes
  <2> QED
    BY <1>3, <2>1
<1>5. Entry(Runner(Choice))
  BY <1>1 DEF Select, Entry
<1>6. /\ UNCHANGED <<suspended, priority, eligible, mode, handler, created, errors>>
      /\ UNCHANGED <<lockLevel, locked, donateTarget, firstDonator, nextDonator>>
      /\ UNCHANGED <<msectionCount, userEntering, killed>>
      /\ UNCHANGED <<pc, using, queue, kind>>
  BY DEF Select, library, partition, stops, lock
<1> QED
  BY <1>1, <1>2, <1>4, <1>5, <1>6 DEF Selects

(* Whoever is chosen, the thread that runs for it may run.                   *)
RunnerFor(c, r) ==
  /\ c \in Threads /\ r \in Threads /\ r # None /\ ~Blocked(r) /\ state[r] = "runnable"
  /\ BaseOf(c) \in Threads
  /\ WaitedSection(c) \in Section0
  /\ \/ r = BaseOf(c)
     \/ /\ r # BaseOf(c) /\ WaitedSection(c) \in Sections
        /\ entering[BaseOf(c)] = WaitedSection(c) /\ owner[WaitedSection(c)] = r

LEMMA ChosenRuns ==
  ASSUME SectionsInv, Choice # None
  PROVE  RunnerFor(Choice, Runner(Choice))
<1> DEFINE c == Choice
           b == BaseOf(c)
           r == Runner(c)
<1>1. c \in Threads /\ state[c] = "runnable" /\ None \notin Threads
  BY ChoiceLives, ThreadsAssumption
<1> HIDE DEF c
<1>2. RunsFor(c)
  BY <1>1, ChainIs DEF SectionsInv
<1>3. b \in Threads
  BY <1>2 DEF RunsFor
<1>4. CASE ~Blocked(b)
  <2>1. r = b /\ WaitedSection(c) = None
    BY <1>2, <1>4 DEF RunsFor
  <2>2. state[b] = "runnable"
    BY <1>1 DEF SectionsInv, Donates, BaseOf
  <2> QED
    BY <1>1, <1>3, <1>4, <2>1, <2>2 DEF RunnerFor, Section0, c
<1>5. CASE Blocked(b)
  <2>1. /\ r \in Threads /\ r = owner[entering[b]] /\ r # b /\ ~Blocked(r)
        /\ WaitedSection(c) = entering[b]
    BY <1>2, <1>5 DEF RunsFor
  <2>2. entering[b] \in Sections
    BY <1>3, <1>5 DEF Blocked, SectionsInv, KernelTypes, Section0
  <2>3. state[r] = "runnable"
    BY <1>1, <2>1, <2>2 DEF SectionsInv, Owners, Owns
  <2> HIDE DEF r, b
  <2> QED
    BY <1>1, <1>3, <2>1, <2>2, <2>3 DEF RunnerFor, Section0, c, r, b
<1> QED
  BY <1>4, <1>5

(* Its entry is finished: it owns the section that it was entering.          *)
LEMMA EntryInLibrary ==
  ASSUME SectionsInv, NEW c, NEW r \in Threads, r # None, ~Blocked(r), Selects(c, r),
         NEW t \in Threads
  PROVE  InLibrary(t)'
<1>1. /\ InLibrary(t) /\ InLibrary(r) /\ ~Runs(t) /\ ~Runs(r) /\ ~disabled' /\ current' = r
      /\ UNCHANGED <<pc, using, state, userEntering, msectionCount>>
  BY DEF SectionsInv, Selects, Runs
<1>2. owner \in [Sections -> Thread0] /\ entering \in [Threads -> Section0]
  BY DEF SectionsInv, LibraryTypes, KernelTypes
<1>3. CASE entering[r] = None
  <2>1. owner' = owner /\ entering' = entering
    BY <1>3 DEF Selects, Entry
  <2> QED
    BY <1>1, <2>1 DEF InLibrary
<1>4. CASE entering[r] # None
  <2>1. /\ owner' = [owner EXCEPT ![using[r]] = r] /\ entering' = [entering EXCEPT ![r] = None]
        /\ using[r] \in Sections /\ pc[r] \in Announcing \union {"result"} /\ using[r] = entering[r]
    BY <1>1, <1>2, <1>4 DEF Selects, Entry, InLibrary, Section0
  <2>2. owner[using[r]] \in {None, r}
    BY <1>4, <2>1 DEF Blocked
  <2>3. CASE t = r
    <3>1. owner'[using[t]] = t /\ entering'[t] = None /\ Runs(t)'
      BY <1>1, <1>2, <2>1, <2>3 DEF Runs
    <3> QED
      BY <1>1, <2>3, <3>1 DEF InLibrary
  <2>4. CASE t # r
    <3>1. entering'[t] = entering[t]
      BY <1>2, <2>1, <2>4
    <3>2. ASSUME owner[using[t]] = t, using[t] # None PROVE owner'[using[t]] = t
      <4>1. using[t] # using[r]
        BY <2>2, <2>4, <3>2, ThreadsAssumption
      <4> QED
        BY <2>1, <3>2, <4>1, <1>2
    <3>3. pc[t] \in Inside \union {"entered", "result"} => pc[t] # "idle"
      BY DEF Inside
    <3>4. entering[t] = None => pc[t] \notin {"test", "claim", "help"}
      BY <1>1 DEF InLibrary
    <3> QED
      BY <1>1, <3>1, <3>2, <3>3, <3>4 DEF InLibrary
  <2> QED
    BY <2>3, <2>4
<1> QED
  BY <1>3, <1>4

(* The choice keeps the invariant.                                           *)
LEMMA SelectStep ==
  ASSUME SectionsInv, Select, recheck, UNCHANGED <<library, partition, kind>>
  PROVE  SectionsInv'
<1> DEFINE c == Choice
           r == Runner(c)
<1>1. Selects(c, r)
  BY SelectIs
<1>2. /\ UNCHANGED <<state, suspended, priority, eligible, mode, handler, created, errors>>
      /\ UNCHANGED <<lockLevel, locked, donateTarget, firstDonator, nextDonator>>
      /\ UNCHANGED <<msectionCount, userEntering, killed, pc, using, queue, kind>>
      /\ disabled /\ ~disabled' /\ disabled' = FALSE /\ recheck' = FALSE
      /\ selected' = c /\ current' = r /\ waitingSection' = WaitedSection(c)
      /\ reschedAfterLeave' \in [Sections -> BOOLEAN]
      /\ waitingSection' \in Sections => reschedAfterLeave'[waitingSection']
  BY <1>1 DEF Selects, Select
<1>3. Choice' = c /\ None \notin Threads /\ None \notin Sections
  BY <1>2, ThreadsAssumption DEF Choice, HandlerRuns
<1>4. KernelTypes /\ LibraryTypes
  BY DEF SectionsInv
<1>5. ASSUME NEW t \in Threads PROVE Donates(t)' /\ Listed(t)'
  BY <1>2 DEF SectionsInv, Donates, Listed, DonorsOf, Linked
<1>6. Awoken' /\ Live'
  BY <1>2 DEF SectionsInv, Awoken, Live
<1>7. c = None => r = None /\ WaitedSection(c) = None
  BY DEF Runner, WaitedSection
<1>8. c # None => RunnerFor(c, r)
  BY ChosenRuns
<1> HIDE DEF c, r
<1>9. CASE c = None
  <2>1. owner' = owner /\ entering' = entering
    BY <1>1, <1>7, <1>9 DEF Selects, Entry
  <2>2. KernelTypes' /\ LibraryTypes'
    BY <1>2, <1>4, <1>7, <1>9, <2>1 DEF KernelTypes, LibraryTypes, Thread0, Section0
  <2>3. ASSUME NEW t \in Threads PROVE InLibrary(t)'
    BY <1>2, <2>1 DEF SectionsInv, InLibrary, Runs
  <2>4. Owners'
    BY <1>2, <2>1 DEF SectionsInv, Owners, Owns
  <2>5. Due'
    BY <1>2, <1>3, <1>7, <1>9 DEF Due
  <2> QED
    BY <1>5, <1>6, <2>2, <2>3, <2>4, <2>5 DEF SectionsInv
<1>10. CASE c # None
  <2>1. RunnerFor(c, r)
    BY <1>8, <1>10
  <2>2. r \in Threads /\ r # None /\ ~Blocked(r) /\ state[r] = "runnable" /\ c \in Threads
    BY <2>1 DEF RunnerFor
  <2>3. \/ owner' = owner /\ entering' = entering /\ entering[r] = None
        \/ /\ owner' = [owner EXCEPT ![entering[r]] = r] /\ entering' = [entering EXCEPT ![r] = None]
           /\ entering[r] \in Sections
    BY <1>1, <1>4, <2>2 DEF Selects, Entry, KernelTypes, Section0
  <2>4. KernelTypes' /\ LibraryTypes'
    <3>1. owner' \in [Sections -> Thread0] /\ entering' \in [Threads -> Section0]
      <4>1. owner \in [Sections -> Thread0] /\ entering \in [Threads -> Section0]
        BY <1>4 DEF KernelTypes, LibraryTypes
      <4>2. r \in Thread0 /\ None \in Section0
        BY <2>2 DEF Thread0, Section0
      <4> QED
        BY <2>2, <2>3, <4>1, <4>2
    <3>2. current' \in Thread0 /\ selected' \in Thread0 /\ waitingSection' \in Section0
      BY <1>2, <2>1 DEF RunnerFor, Thread0
    <3> QED
      BY <1>2, <1>4, <3>1, <3>2 DEF KernelTypes, LibraryTypes
  <2>5. ASSUME NEW t \in Threads PROVE InLibrary(t)'
    BY <1>1, <2>2, EntryInLibrary
  <2>6. ASSUME NEW s \in Sections, owner'[s] # None PROVE Owns(owner[s], s)'
    <3>1. CASE owner'[s] = owner[s]
      BY <1>2, <2>6, <3>1 DEF SectionsInv, Owners, Owns
    <3>2. CASE owner'[s] # owner[s]
      <4>1. s = entering[r] /\ owner'[s] = r
        BY <1>4, <2>3, <2>6, <3>2 DEF LibraryTypes
      <4>2. using[r] = s /\ pc[r] \in Announcing \union {"result"}
        BY <1>3, <2>2, <4>1, <2>6 DEF SectionsInv, InLibrary
      <4> QED
        BY <1>2, <2>2, <4>1, <4>2 DEF Owns
    <3> QED
      BY <3>1, <3>2
  <2>7. Owners'
    BY <2>6 DEF Owners
  <2>8. Base' = BaseOf(c)
    BY <1>2 DEF Base, BaseOf
  <2>9. entering'[r] = None
    BY <1>4, <2>2, <2>3 DEF KernelTypes
  <2>10. r = BaseOf(c) \/ Helps'
    <3> SUFFICES ASSUME r # BaseOf(c) PROVE Helps'
      OBVIOUS
    <3> DEFINE b == BaseOf(c)
               s == WaitedSection(c)
    <3>1. b \in Threads /\ s \in Sections /\ entering[b] = s /\ owner[s] = r
      BY <2>1 DEF RunnerFor
    <3> HIDE DEF b, s
    <3>2. entering'[b] = s /\ owner'[s] = r
      BY <1>4, <2>2, <2>3, <3>1 DEF KernelTypes, LibraryTypes, b
    <3>3. waitingSection' = s /\ Base' = b /\ reschedAfterLeave'[s]
      BY <1>2, <2>8, <3>1 DEF b, s
    <3> QED
      BY <1>2, <1>3, <2>2, <3>1, <3>2, <3>3 DEF Helps, b
  <2>11. Due'
    BY <1>2, <1>3, <1>10, <2>8, <2>9, <2>10 DEF Due
  <2> QED
    BY <1>5, <1>6, <2>4, <2>5, <2>7, <2>11 DEF SectionsInv
<1> QED
  BY <1>9, <1>10

--------------------------------------------------------------------------------
(* At first all the threads are ready, and outside of the library.           *)
LEMMA InitStep ==
  ASSUME ObjInit
  PROVE  SectionsInv
<1>1. /\ AllReady /\ None \notin Threads
      /\ owner = [s \in Sections |-> None] /\ reschedAfterLeave = [s \in Sections |-> FALSE]
      /\ msectionCount = [t \in Threads |-> 0] /\ killed = [t \in Threads |-> FALSE]
      /\ userEntering = [t \in Threads |-> None]
      /\ pc = [t \in Threads |-> "idle"] /\ using = [t \in Threads |-> None]
      /\ queue = [first |-> [s \in Sections |-> None], last |-> [s \in Sections |-> None],
                  next |-> [t \in Threads |-> None], prev |-> [t \in Threads |-> None],
                  priority |-> [t \in Threads |-> None]]
  BY ThreadsAssumption DEF ObjInit, LibraryInit
<1>2. Typed
  BY <1>1, ThreadsAssumption DEF AllReady, Typed
<1>3. eligible \in Seq(Threads)
  <2>1. PICK q \in SetToSeqs(Threads) : eligible = ReadyAll(<<>>, q)
    BY <1>1 DEF AllReady
  <2>2. q \in Seq(Threads) /\ ToSet(q) = Threads
    BY <2>1, SeqsOK
  <2>3. <<>> \in Seq(Threads) /\ ToSet(<<>>) \subseteq Threads
    BY EmptySorted
  <2> QED
    BY <1>2, <2>1, <2>2, <2>3, ReadyAllWithin
<1>4. KernelTypes
  BY <1>1, <1>3, ThreadsAssumption DEF AllReady, KernelTypes, Thread0, Section0
<1>5. LibraryTypes
  <2>1. queue \in Queues
    BY <1>1 DEF Queues, Thread0
  <2> QED
    BY <1>1, <2>1 DEF LibraryTypes, Places, Thread0, Section0
<1>6. ASSUME NEW t \in Threads PROVE InLibrary(t) /\ Donates(t)
  BY <1>1 DEF AllReady, InLibrary, Donates, Inside, Announcing, Outside
<1>7. ASSUME NEW t \in Threads PROVE Listed(t)
  <2>1. OnceEach(<<>>) /\ ToSet(<<>>) = {} /\ <<>> \in Seq(Threads)
    BY EmptySorted, Members DEF OnceEach, Before
  <2>2. DonorsOf(t) = {}
    BY <1>1 DEF AllReady, DonorsOf
  <2>3. Linked(<<>>, firstDonator[t], nextDonator)
    BY <1>1 DEF AllReady, Linked, First
  <2> QED
    BY <2>1, <2>2, <2>3 DEF Listed
<1>8. Owners /\ Awoken /\ Due
  BY <1>1 DEF Owners, Awoken, Due, AllReady
<1>9. Live
  BY <1>1, <1>3, Members DEF Live, AllReady
<1> QED
  BY <1>4, <1>5, <1>6, <1>7, <1>8, <1>9 DEF SectionsInv

(* The calls of the library and of the kernel.                               *)
LEMMA OperateStep ==
  ASSUME SectionsInv, NEW t \in Threads, Operate(t), UNCHANGED partition
  PROVE  SectionsInv'
<1>1. UNCHANGED <<partition, kind>>
  BY DEF Operate, Keep, objects
<1>2. ASSUME NEW s \in Sections, Enter(t, s) PROVE SectionsInv'
  BY <1>1, <1>2, EnterStepOK
<1>3. CASE EnterStep(t)
  BY <1>1, <1>3, AnnounceStep, TestStep, ClaimStep, HelpStep, EnteredStep DEF EnterStep
<1>4. CASE LeaveStep(t)
  <2>1. CASE Release(t) \/ Uncount(t) \/ TestFlag(t)
    BY <1>1, <2>1, ReleaseStep, UncountStep, TestFlagStep
  <2>2. CASE Reschedule(t)
    <3>1. /\ pc[t] = "resched" /\ (ReschedStays(t) \/ ReschedStops(t)) /\ GoOut({t} \union Stopped)
          /\ UNCHANGED <<queue, partition, kind>>
      BY <1>1, <2>2 DEF Reschedule
    <3> QED
      BY <3>1, ReschedStaysStep, ReschedStopsStep
  <2> QED
    BY <1>4, <2>1, <2>2 DEF LeaveStep
<1>5. ASSUME NEW timed, BlockWaits(t, timed) PROVE SectionsInv'
  BY <1>1, <1>5, WaitRefusedStep, WaitStep DEF BlockWaits
<1> QED
  BY <1>2, <1>3, <1>4, <1>5 DEF Operate

(* The calls about threads.                                                  *)
LEMMA ThreadCallStep ==
  ASSUME SectionsInv, NEW t \in Threads, ThreadCall(t), UNCHANGED partition
  PROVE  SectionsInv'
<1>1. Outer(t)
  BY DEF ThreadCall, Keep, objects, Outer
<1>2. CASE Sleep(t) \/ Lock(t) \/ Unlock(t)
  BY <1>1, <1>2, SleepStep, LockStep
<1>3. ASSUME NEW u \in Threads, Stop(t, u) PROVE SectionsInv'
  BY <1>1, <1>3, StopNowStep, StopLaterStep, StopDonatorStep, StopAgainStep DEF Stop
<1>4. ASSUME NEW u \in Threads, Start(t, u, FALSE) PROVE SectionsInv'
  BY <1>1, <1>4, StartStep
<1>5. ASSUME NEW u \in Threads, NEW p \in Priorities, SetPriority(t, u, p) PROVE SectionsInv'
  BY <1>1, <1>5, SetPriorityStep
<1>6. ASSUME NEW u \in Threads, Suspend(t, u) \/ Resume(t, u) PROVE SectionsInv'
  BY <1>1, <1>6, SuspendStep, ResumeStep
<1> QED
  BY <1>2, <1>3, <1>4, <1>5, <1>6 DEF ThreadCall

(* The operations of the objects.                                            *)
LEMMA WithinBody ==
  ASSUME SectionsInv, NEW t \in Threads, UNCHANGED partition,
         NotAvailable(t) \/ \E new : Body(t, new)
  PROVE  SectionsInv'
<1>1. "body" \in Inside
  BY DEF Inside
<1>2. Step(t, "body", "release") /\ UNCHANGED <<shared, using, queue, partition, kind>>
  BY DEF NotAvailable, Body, Keep, KeepBut, objects
<1> QED
  BY <1>1, <1>2, BodyStep

(* WAIT_SEMAPHORE, SIGNAL_SEMAPHORE.                                         *)
LEMMA SemaphoreStepOK ==
  ASSUME SectionsInv, NEW t \in Threads, SemaphoreStep(t), UNCHANGED partition
  PROVE  SectionsInv'
<1>1. kind = "semaphore" /\ {"woken", "nobody", "release"} \subseteq Inside
      /\ "nobody" \notin {"woken", "refill"}
  BY DEF SemaphoreStep, Inside
<1>2. CASE WaitSemaphore(t)
  BY <1>2, WithinBody, BlockStep DEF WaitSemaphore
<1>3. CASE SignalSemaphore(t)
  <2>1. Notify(t, FALSE, "woken", "nobody") /\ UNCHANGED <<partition, kind>>
    BY <1>3 DEF SignalSemaphore, Keep, objects
  <2> QED
    BY <1>1, <2>1, NotifyStep
<1>4. CASE Served(t)
  <2>1. /\ Step(t, "woken", "release") /\ queue' = FirstOut(t)
        /\ UNCHANGED <<shared, using, partition, kind>>
    BY <1>4 DEF Served, Keep, objects
  <2> QED
    BY <1>1, <2>1, FirstOutStep
<1>5. CASE Add(t)
  <2>1. Step(t, "nobody", "release") /\ UNCHANGED <<shared, using, queue, partition, kind>>
    BY <1>5 DEF Add, KeepBut
  <2> QED
    BY <1>1, <2>1, BodyStep
<1> QED
  BY <1>2, <1>3, <1>4, <1>5 DEF SemaphoreStep

(* SEND_BUFFER, RECEIVE_BUFFER.                                              *)
LEMMA BufferStepOK ==
  ASSUME SectionsInv, NEW t \in Threads, BufferStep(t), UNCHANGED partition
  PROVE  SectionsInv'
<1>1. /\ kind = "buffer" /\ {"woken", "nobody", "refill", "release"} \subseteq Inside
      /\ "nobody" \notin {"woken", "refill"} /\ "release" \notin {"woken", "refill"}
  BY DEF BufferStep, Inside
<1>2. ASSUME NEW m, SendBuffer(t, m) PROVE SectionsInv'
  <2>1. Notify(t, FALSE, "woken", "nobody") /\ UNCHANGED <<partition, kind>>
    BY <1>2 DEF SendBuffer, KeepBut
  <2> QED
    BY <1>1, <2>1, NotifyStep
<1>3. ASSUME NEW m, SendWaits(t, m) PROVE SectionsInv'
  BY <1>3, WithinBody, BlockStep DEF SendWaits
<1>4. CASE ReceiveBuffer(t)
  <2>1. Notify(t, FALSE, "refill", "release") /\ UNCHANGED <<partition, kind>>
    BY <1>4 DEF ReceiveBuffer, KeepBut
  <2> QED
    BY <1>1, <2>1, NotifyStep
<1>5. CASE ReceiveWaits(t)
  BY <1>5, WithinBody, BlockStep DEF ReceiveWaits
<1>6. CASE Handover(t) \/ Refill(t)
  <2>1. /\ Step(t, "woken", "release") \/ Step(t, "refill", "release")
        /\ queue' = FirstOut(t) /\ UNCHANGED <<shared, using, partition, kind>>
    BY <1>6 DEF Handover, Refill, KeepBut
  <2> QED
    BY <1>1, <2>1, FirstOutStep
<1>7. CASE Store(t)
  <2>1. Step(t, "nobody", "release") /\ UNCHANGED <<shared, using, queue, partition, kind>>
    BY <1>7 DEF Store, KeepBut
  <2> QED
    BY <1>1, <2>1, BodyStep
<1> QED
  BY <1>2, <1>3, <1>4, <1>5, <1>6, <1>7 DEF BufferStep

(* DISPLAY_BLACKBOARD, READ_BLACKBOARD, and the calls of events.             *)
LEMMA BoardStepOK ==
  ASSUME SectionsInv, NEW t \in Threads, BoardStep(t), UNCHANGED partition
  PROVE  SectionsInv'
<1>1. /\ kind \notin {"semaphore", "buffer"} /\ {"woken", "release"} \subseteq Inside
      /\ "release" \notin {"woken", "refill"}
  BY DEF BoardStep, Inside
<1>2. ASSUME NEW n, Display(t, n) PROVE SectionsInv'
  <2>1. Notify(t, TRUE, "woken", "release") /\ UNCHANGED <<partition, kind>>
    BY <1>2 DEF Display, KeepBut
  <2> QED
    BY <1>1, <2>1, NotifyStep
<1>3. CASE Copy(t)
  BY <1>3, CopyStep
<1>4. CASE Clear(t) \/ Read(t)
  BY <1>4, WithinBody, BlockStep DEF Clear, Read
<1> QED
  BY <1>2, <1>3, <1>4 DEF BoardStep

(* The choice of the next thread: only an interrupt of msection_enter that   *)
(* asks for no new choice would leave the mark of the thread that runs.      *)
LEMMA SelectNextStep ==
  ASSUME MarkUsed', SectionsInv, SelectNext, UNCHANGED partition
  PROVE  SectionsInv'
<1>1. Select /\ UNCHANGED <<library, partition, kind>>
  BY DEF SelectNext, Keep, objects
<1>2. CASE recheck
  BY <1>1, <1>2, SelectStep
<1>3. CASE ~recheck
  <2>1. current # None => entering[current] = None
    BY <1>1, <1>3 DEF MarkUsed, Select, choice
  <2> QED
    BY <1>1, <1>3, <2>1, SelectAgainStep
<1> QED
  BY <1>2, <1>3

(* Every step keeps the invariant.                                           *)
LEMMA NextStep ==
  ASSUME MarkUsed', SectionsInv, [ObjNext]_objVars
  PROVE  SectionsInv'
<1>1. CASE UNCHANGED objVars
  <2>1. /\ UNCHANGED <<state, suspended, priority, entering, eligible, mode, handler, created, errors>>
        /\ UNCHANGED <<lockLevel, locked, current, selected, waitingSection, recheck, disabled>>
        /\ UNCHANGED <<donateTarget, firstDonator, nextDonator>>
        /\ UNCHANGED <<owner, reschedAfterLeave, msectionCount, userEntering, killed>>
        /\ UNCHANGED <<pc, using, queue, kind>>
    BY <1>1 DEF objVars, vars, library, objects, stops, lock, choice, partition, shared
  <2>2. KernelTypes' /\ LibraryTypes'
    BY <2>1 DEF SectionsInv, KernelTypes, LibraryTypes
  <2>3. ASSUME NEW t \in Threads PROVE (InLibrary(t) /\ Donates(t) /\ Listed(t))'
    BY <2>1 DEF SectionsInv, InLibrary, Runs, Donates, Listed, DonorsOf, Linked
  <2>4. Owners' /\ Awoken' /\ Live'
    BY <2>1 DEF SectionsInv, Owners, Owns, Awoken, Live
  <2>5. Base' = Base /\ Choice' = Choice
    BY <2>1 DEF Base, Choice, HandlerRuns
  <2>6. Due'
    BY <2>1, <2>5 DEF SectionsInv, Due, Helps
  <2> QED
    BY <2>2, <2>3, <2>4, <2>6 DEF SectionsInv
<1>2. ASSUME NEW t \in Threads, ObjectStep(t), UNCHANGED partition PROVE SectionsInv'
  <2>1. CASE Operate(t) \/ Back(t) \/ ThreadCall(t)
    BY <1>2, <2>1, OperateStep, BackStep, ThreadCallStep
  <2>2. CASE Status(t)
    <3>1. Size(t) /\ UNCHANGED <<partition, kind>>
      BY <1>2, <2>2 DEF Status, Keep, objects
    <3> QED
      BY <3>1, SizeStep
  <2>3. CASE ExpireNext(t)
    <3>1. Expire(t) /\ UNCHANGED <<pc, using, queue, partition, kind>>
      BY <1>2, <2>3 DEF ExpireNext, Keep, objects, library
    <3> QED
      BY <3>1, ExpireStep
  <2> QED
    BY <1>2, <2>1, <2>2, <2>3 DEF ObjectStep
<1>3. ASSUME NEW t \in Threads, SemaphoreStep(t) \/ BufferStep(t) \/ BoardStep(t), UNCHANGED partition
      PROVE  SectionsInv'
  BY <1>3, SemaphoreStepOK, BufferStepOK, BoardStepOK
<1>4. ASSUME Event, UNCHANGED partition PROVE SectionsInv'
  <2>1. Interrupt /\ UNCHANGED <<library, partition, kind>>
    BY <1>4 DEF Event, Keep, objects
  <2> QED
    BY <2>1, EventStep
<1>5. ASSUME SelectNext, UNCHANGED partition PROVE SectionsInv'
  BY <1>5, SelectNextStep
<1> QED
  BY <1>1, <1>2, <1>3, <1>4, <1>5 DEF ObjNext

--------------------------------------------------------------------------------
(* The inductive invariant always holds, in the behaviours in which no event *)
(* that interrupts msection_enter leaves msection_entering set.              *)
THEOREM SectionsKept ==
  ObjSpec /\ []MarkUsed => []SectionsInv
<1>1. ObjInit => SectionsInv
  BY InitStep
<1>2. SectionsInv /\ MarkUsed' /\ [ObjNext]_objVars => SectionsInv'
  BY NextStep
<1> QED
  BY <1>1, <1>2, PTL DEF ObjSpec

(* A thread that runs inside a critical section owns it, whether it took the *)
(* section itself in msection_enter, or the kernel finished its entry, or    *)
(* gave the section back to it after a wait: any number of threads exclude   *)
(* each other, as long as MarkUsed holds.                                    *)
THEOREM SectionsExclude ==
  ObjSpec /\ []MarkUsed => []Alone
<1>1. ASSUME SectionsInv PROVE Alone
  <2> SUFFICES ASSUME NEW t \in Threads,
                      pc[t] \in Inside \/ (pc[t] \in {"entered", "result"} /\ current = t /\ ~disabled)
               PROVE  owner[using[t]] = t
    BY DEF Alone
  <2>1. InLibrary(t)
    BY <1>1 DEF SectionsInv
  <2>2. CASE pc[t] \in Inside
    BY <2>1, <2>2 DEF InLibrary
  <2>3. CASE pc[t] \in {"entered", "result"} /\ current = t /\ ~disabled
    <3>1. entering[t] = None
      BY <1>1, <2>3, RunningThread DEF Runs, RunsRight
    <3> QED
      BY <2>1, <2>3, <3>1 DEF InLibrary
  <2> QED
    BY <2>2, <2>3
<1> QED
  BY <1>1, SectionsKept, PTL

(* The kernel never makes a thread the owner of a section that this thread is*)
(* not entering or waiting in, if that of the thread that runs is always     *)
(* NULL (MarkUsed): no other thread->msection_entering is ever stale.        *)
THEOREM EnteringNeverStale ==
  ObjSpec /\ []MarkUsed => []EnteringIsTrue
<1>1. ASSUME SectionsInv PROVE EnteringIsTrue
  <2> SUFFICES ASSUME NEW t \in Threads, entering[t] # None
               PROVE  /\ using[t] = entering[t]
                      /\ pc[t] \in {"test", "claim", "help", "entered", "result"}
    BY DEF EnteringIsTrue
  <2>1. entering[t] = using[t] /\ pc[t] \in Announcing \union {"result"}
    BY <1>1 DEF SectionsInv, InLibrary
  <2> QED
    BY <2>1 DEF Announcing
<1> QED
  BY <1>1, SectionsKept, PTL

(* The assertions of select_thread fail only after MarkUsed has: while that  *)
(* of the thread that runs is NULL, select_thread finds, whoever it starts   *)
(* from, a thread that can run, after at most one owner.                     *)
THEOREM SelectionNeverFails ==
  ObjSpec /\ []MarkUsed => []SelectionAllowed
<1>1. ASSUME SectionsInv, Choice # None PROVE CanRun(Choice)
  <2> DEFINE c == Choice
             r == Runner(c)
  <2>1. RunnerFor(c, r) /\ RunsFor(c)
    <3>1. c \in Threads
      BY <1>1, ChoiceLives
    <3> QED
      BY <1>1, <3>1, ChosenRuns, ChainIs DEF SectionsInv
  <2> HIDE DEF c
  <2>2. ~Blocked(r) /\ state[r] = "runnable" /\ \A i \in 1 .. MaxHops : Chain(c)[i] = r
    BY <2>1 DEF RunnerFor, RunsFor
  <2>3. CanRun(c)
    BY <2>2 DEF CanRun
  <2> QED
    BY <2>3 DEF c
<1>2. ASSUME SectionsInv PROVE SelectionAllowed
  BY <1>1, <1>2 DEF SelectionAllowed, CanRun
<1> QED
  BY <1>2, SectionsKept, PTL

(* Outside of the kernel, the thread that runs is the one that select_thread *)
(* would choose now, or the one that has just released the section that this *)
(* choice waits for and has still to test reschedAfterLeave (under MarkUsed).*)
THEOREM ReleasesAreSeen ==
  ObjSpec /\ []MarkUsed => []NoReleaseMissed
<1>1. ASSUME SectionsInv, ~disabled
      PROVE  /\ selected = Choice
             /\ current = Runner(Choice) \/ pc[current] \in {"uncount", "testFlag", "resched"}
  <2>1. selected = Choice /\ ~recheck /\ (current # None => entering[current] = None)
    BY <1>1 DEF SectionsInv, Due
  <2>2. CASE selected = None
    <3>1. current = None
      BY <1>1, <2>1, <2>2 DEF SectionsInv, Due
    <3> QED
      BY <2>1, <2>2, <3>1 DEF Runner
  <2>3. CASE selected # None
    <3>1. selected \in Threads /\ None \notin Threads
      BY <1>1, <2>3, ThreadsAssumption DEF SectionsInv, KernelTypes, Thread0
    <3>2. RunsFor(selected) /\ Base = BaseOf(selected)
      BY <1>1, <3>1, ChainIs DEF SectionsInv, Base, BaseOf
    <3>3. CASE current = Base
      <4>1. ~Blocked(Base)
        BY <2>1, <3>1, <3>2, <3>3 DEF RunsFor, Blocked
      <4> QED
        BY <2>1, <3>2, <3>3, <4>1 DEF RunsFor
    <3>4. CASE Helps /\ owner[waitingSection] = current
      <4>1. Blocked(Base) /\ owner[entering[Base]] = current
        BY <3>4 DEF Helps, Blocked
      <4> QED
        BY <2>1, <3>2, <4>1 DEF RunsFor
    <3>5. CASE Helps /\ owner[waitingSection] # current
      BY <2>1, <3>5 DEF Helps, Leaving
    <3> QED
      BY <1>1, <2>1, <2>3, <3>3, <3>4, <3>5 DEF SectionsInv, Due
  <2> QED
    BY <2>2, <2>3
<1>2. ASSUME SectionsInv PROVE NoReleaseMissed
  BY <1>1, <1>2 DEF NoReleaseMissed
<1> QED
  BY <1>2, SectionsKept, PTL

(* STOP of a thread that is in a section: whoever called it is in the list   *)
(* that jet_resched goes through, does not run, and waits for a thread that  *)
(* has not stopped; a stopped thread has no such list (under MarkUsed).      *)
THEOREM DonatorsKept ==
  ObjSpec /\ []MarkUsed => []DonatorsWait
<1>1. ASSUME SectionsInv, NEW t \in Threads, donateTarget[t] # None
      PROVE  /\ state[donateTarget[t]] # "stopped" /\ t \in Donators(donateTarget[t])
             /\ ~(current = t /\ ~disabled)
  <2> DEFINE u == donateTarget[t]
  <2>1. u \in Threads /\ state[u] = "runnable" /\ pc[u] # "idle"
    BY <1>1 DEF SectionsInv, KernelTypes, Thread0, Donates
  <2>2. donateTarget[u] = None
    BY <1>1, <2>1 DEF SectionsInv, Donates
  <2>3. t \in DonorsOf(u)
    BY DEF DonorsOf
  <2> HIDE DEF u
  <2>4. PICK q \in Seq(Threads) :
          OnceEach(q) /\ ToSet(q) = DonorsOf(u) /\ Linked(q, firstDonator[u], nextDonator)
    BY <1>1, <2>1, <2>2 DEF SectionsInv, Listed
  <2>5. Donators(u) = ToSet(q)
    BY <1>1, <2>1, <2>4, DonatorsAre DEF SectionsInv, KernelTypes
  <2>6. ~Runs(t)
    BY <1>1, RunningThread DEF RunsRight
  <2> QED
    BY <2>1, <2>3, <2>4, <2>5, <2>6 DEF Runs, u
<1>2. ASSUME SectionsInv, NEW t \in Threads, state[t] = "stopped" PROVE firstDonator[t] = None
  BY <1>2, HasDonor DEF SectionsInv, Donates
<1>3. ASSUME SectionsInv PROVE DonatorsWait
  BY <1>1, <1>2, <1>3 DEF DonatorsWait
<1> QED
  BY <1>3, SectionsKept, PTL

--------------------------------------------------------------------------------
(* The wait queues.  Where a thread that may be linked is: from before its    *)
(* wait until it is back.                                                    *)
AtQueue == {"wait", "denied", "result"}
Where == [t \in Threads |-> IF pc[t] \in AtQueue THEN using[t] ELSE None]

(* The links lead back, and stay among the threads of one section; nothing    *)
(* leads to the first thread of a queue, and the last one leads nowhere.  A   *)
(* thread that takes itself out twice makes other threads unreachable, and    *)
(* this is all that is left of the order of a queue.                         *)
Tidy(q, w) ==
  /\ \A x, y \in Threads : q.next[x] = y <=> q.prev[y] = x
  /\ \A x, y \in Threads : q.next[x] = y => w[x] = w[y] /\ w[x] # None
  /\ \A s \in Sections, x \in Threads : q.first[s] = x => q.prev[x] = None /\ w[x] = s
  /\ \A s \in Sections, x \in Threads : q.last[s] = x => q.next[x] = None /\ w[x] = s

(* A thread without links.                                                   *)
Out(q, t) ==
  /\ q.next[t] = None /\ q.prev[t] = None
  /\ \A s \in Sections : t \notin {q.first[s], q.last[s]}

(* Only the queue of a section changes.                                      *)
Aside(q, r, s, w) ==
  /\ \A z \in Sections \ {s} : r.first[z] = q.first[z] /\ r.last[z] = q.last[z]
  /\ \A u \in Threads : w[u] # s => r.next[u] = q.next[u] /\ r.prev[u] = q.prev[u]

(* msection_wq_del on links that are any: those beside the thread meet.      *)
LEMMA WqDelIs ==
  ASSUME NEW q \in Queues, NEW s \in Sections, NEW t \in Threads
  PROVE  LET r == WqDel(q, s, t) IN
         /\ r.next[t] = None /\ r.prev[t] = None
         /\ \A u \in Threads \ {t} :
              /\ r.next[u] = IF u = q.prev[t] THEN q.next[t] ELSE q.next[u]
              /\ r.prev[u] = IF u = q.next[t] THEN q.prev[t] ELSE q.prev[u]
         /\ \A z \in Sections :
              /\ r.first[z] = IF z = s /\ q.prev[t] = None THEN q.next[t] ELSE q.first[z]
              /\ r.last[z] = IF z = s /\ q.next[t] = None THEN q.prev[t] ELSE q.last[z]
<1> DEFINE n == q.next[t]
           p == q.prev[t]
           r == WqDel(q, s, t)
<1>1. n \in Thread0 /\ p \in Thread0 /\ None \notin Threads
  BY ThreadsAssumption DEF Queues
<1>2. /\ q.next \in [Threads -> Thread0] /\ q.prev \in [Threads -> Thread0]
      /\ q.first \in [Sections -> Thread0] /\ q.last \in [Sections -> Thread0]
      /\ DOMAIN q = {"first", "last", "next", "prev", "priority"}
  BY DEF Queues
<1>3. CASE n = None /\ p = None
  <2>1. r = [q EXCEPT !.last[s] = p, !.first[s] = n,
                      !.next[t] = None, !.prev[t] = None, !.priority[t] = None]
    BY <1>1, <1>3 DEF WqDel, SetNext, SetPrev
  <2> HIDE DEF n, p, r
  <2>2. /\ r.next = [q.next EXCEPT ![t] = None] /\ r.prev = [q.prev EXCEPT ![t] = None]
        /\ r.first = [q.first EXCEPT ![s] = n] /\ r.last = [q.last EXCEPT ![s] = p]
    BY <1>2, <2>1
  <2> QED
    BY <1>1, <1>2, <1>3, <2>2 DEF n, p, r
<1>4. CASE n # None /\ p = None
  <2>1. r = [q EXCEPT !.prev[n] = p, !.first[s] = n,
                      !.next[t] = None, !.prev[t] = None, !.priority[t] = None]
    BY <1>1, <1>4 DEF WqDel, SetNext, SetPrev
  <2>2. n \in Threads
    BY <1>1, <1>4 DEF Thread0
  <2> HIDE DEF n, p, r
  <2>3. /\ r.next = [q.next EXCEPT ![t] = None] /\ r.prev = [q.prev EXCEPT ![n] = p, ![t] = None]
        /\ r.first = [q.first EXCEPT ![s] = n] /\ r.last = q.last
    BY <1>2, <2>1
  <2> QED
    BY <1>1, <1>2, <1>4, <2>2, <2>3 DEF n, p, r
<1>5. CASE n = None /\ p # None
  <2>1. r = [q EXCEPT !.last[s] = p, !.next[p] = n,
                      !.next[t] = None, !.prev[t] = None, !.priority[t] = None]
    BY <1>1, <1>5 DEF WqDel, SetNext, SetPrev
  <2>2. p \in Threads
    BY <1>1, <1>5 DEF Thread0
  <2> HIDE DEF n, p, r
  <2>3. /\ r.next = [q.next EXCEPT ![p] = n, ![t] = None] /\ r.prev = [q.prev EXCEPT ![t] = None]
        /\ r.first = q.first /\ r.last = [q.last EXCEPT ![s] = p]
    BY <1>2, <2>1
  <2> QED
    BY <1>1, <1>2, <1>5, <2>2, <2>3 DEF n, p, r
<1>6. CASE n # None /\ p # None
  <2>1. r = [q EXCEPT !.prev[n] = p, !.next[p] = n,
                      !.next[t] = None, !.prev[t] = None, !.priority[t] = None]
    BY <1>1, <1>6 DEF WqDel, SetNext, SetPrev
  <2>2. n \in Threads /\ p \in Threads
    BY <1>1, <1>6 DEF Thread0
  <2> HIDE DEF n, p, r
  <2>3. /\ r.next = [q.next EXCEPT ![p] = n, ![t] = None]
        /\ r.prev = [q.prev EXCEPT ![n] = p, ![t] = None]
        /\ r.first = q.first /\ r.last = q.last
    BY <1>2, <2>1
  <2> QED
    BY <1>1, <1>2, <1>6, <2>2, <2>3 DEF n, p, r
<1> QED
  BY <1>3, <1>4, <1>5, <1>6

(* A thread is linked between two others, or at an end.                      *)
LEMMA WqAddIs ==
  ASSUME NEW q \in Queues, NEW s \in Sections, NEW t \in Threads,
         NEW p \in Thread0, NEW n \in Thread0, p # t, n # t
  PROVE  LET r == WqAdd(q, s, t, p, n) IN
         /\ \A u \in Threads :
              /\ r.next[u] = IF u = p THEN t ELSE IF u = t THEN n ELSE q.next[u]
              /\ r.prev[u] = IF u = n THEN t ELSE IF u = t THEN p ELSE q.prev[u]
         /\ \A z \in Sections :
              /\ r.first[z] = IF z = s /\ p = None THEN t ELSE q.first[z]
              /\ r.last[z] = IF z = s /\ n = None THEN t ELSE q.last[z]
<1> DEFINE r == WqAdd(q, s, t, p, n)
<1>1. None \notin Threads
  BY ThreadsAssumption
<1>2. /\ q.next \in [Threads -> Thread0] /\ q.prev \in [Threads -> Thread0]
      /\ q.first \in [Sections -> Thread0] /\ q.last \in [Sections -> Thread0]
      /\ DOMAIN q = {"first", "last", "next", "prev", "priority"}
  BY DEF Queues
<1>3. CASE n = None /\ p = None
  <2>1. r = [q EXCEPT !.next[t] = n, !.prev[t] = p, !.last[s] = t, !.first[s] = t]
    BY <1>1, <1>3 DEF WqAdd, SetNext, SetPrev
  <2> HIDE DEF r
  <2>2. /\ r.next = [q.next EXCEPT ![t] = n] /\ r.prev = [q.prev EXCEPT ![t] = p]
        /\ r.first = [q.first EXCEPT ![s] = t] /\ r.last = [q.last EXCEPT ![s] = t]
    BY <1>2, <2>1
  <2> QED
    BY <1>1, <1>2, <1>3, <2>2 DEF r
<1>4. CASE n # None /\ p = None
  <2>1. r = [q EXCEPT !.next[t] = n, !.prev[t] = p, !.prev[n] = t, !.first[s] = t]
    BY <1>1, <1>4 DEF WqAdd, SetNext, SetPrev
  <2>2. n \in Threads
    BY <1>1, <1>4 DEF Thread0
  <2> HIDE DEF r
  <2>3. /\ r.next = [q.next EXCEPT ![t] = n] /\ r.prev = [q.prev EXCEPT ![t] = p, ![n] = t]
        /\ r.first = [q.first EXCEPT ![s] = t] /\ r.last = q.last
    BY <1>2, <2>1
  <2> QED
    BY <1>1, <1>2, <1>4, <2>2, <2>3 DEF r
<1>5. CASE n = None /\ p # None
  <2>1. r = [q EXCEPT !.next[t] = n, !.prev[t] = p, !.last[s] = t, !.next[p] = t]
    BY <1>1, <1>5 DEF WqAdd, SetNext, SetPrev
  <2>2. p \in Threads
    BY <1>1, <1>5 DEF Thread0
  <2> HIDE DEF r
  <2>3. /\ r.next = [q.next EXCEPT ![t] = n, ![p] = t] /\ r.prev = [q.prev EXCEPT ![t] = p]
        /\ r.first = q.first /\ r.last = [q.last EXCEPT ![s] = t]
    BY <1>2, <2>1
  <2> QED
    BY <1>1, <1>2, <1>5, <2>2, <2>3 DEF r
<1>6. CASE n # None /\ p # None
  <2>1. r = [q EXCEPT !.next[t] = n, !.prev[t] = p, !.prev[n] = t, !.next[p] = t]
    BY <1>1, <1>6 DEF WqAdd, SetNext, SetPrev
  <2>2. n \in Threads /\ p \in Threads
    BY <1>1, <1>6 DEF Thread0
  <2> HIDE DEF r
  <2>3. /\ r.next = [q.next EXCEPT ![t] = n, ![p] = t]
        /\ r.prev = [q.prev EXCEPT ![t] = p, ![n] = t]
        /\ r.first = q.first /\ r.last = q.last
    BY <1>2, <2>1
  <2> QED
    BY <1>1, <1>2, <1>6, <2>2, <2>3 DEF r
<1> QED
  BY <1>3, <1>4, <1>5, <1>6

(* msection_wq_del.                                                          *)
LEMMA WqDelTidy ==
  ASSUME NEW q \in Queues, NEW w, Tidy(q, w), NEW s \in Sections, NEW t \in Threads, w[t] = s
  PROVE  LET r == WqDel(q, s, t) IN
         /\ Tidy(r, w) /\ Out(r, t) /\ Aside(q, r, s, w)
         /\ \A y \in Threads : Out(q, y) => Out(r, y)
<1> DEFINE r == WqDel(q, s, t)
           n == q.next[t]
           p == q.prev[t]
<1>1. /\ r.next[t] = None /\ r.prev[t] = None
      /\ \A u \in Threads \ {t} : /\ r.next[u] = IF u = p THEN n ELSE q.next[u]
                                  /\ r.prev[u] = IF u = n THEN p ELSE q.prev[u]
      /\ \A z \in Sections : /\ r.first[z] = IF z = s /\ p = None THEN n ELSE q.first[z]
                             /\ r.last[z] = IF z = s /\ n = None THEN p ELSE q.last[z]
  BY WqDelIs
<1>2. n \in Threads \union {None} /\ p \in Threads \union {None} /\ None \notin Threads
      /\ s # None
  BY ThreadsAssumption DEF Queues, Thread0
<1>3. /\ \A x, y \in Threads : q.next[x] = y <=> q.prev[y] = x
      /\ \A x, y \in Threads : q.next[x] = y => w[x] = w[y] /\ w[x] # None
      /\ \A z \in Sections, x \in Threads : q.first[z] = x => q.prev[x] = None /\ w[x] = z
      /\ \A z \in Sections, x \in Threads : q.last[z] = x => q.next[x] = None /\ w[x] = z
  BY DEF Tidy
<1>4. \A x \in Threads : q.next[x] = t <=> p = x
  BY <1>3
<1>5. \A y \in Threads : q.prev[y] = t <=> n = y
  BY <1>3
<1>6. /\ n # None => w[n] = s
      /\ p # None => w[p] = s
  BY <1>2, <1>3
<1> HIDE DEF r, n, p
<1>7. \A x, y \in Threads : r.next[x] = y <=> r.prev[y] = x
  <2> TAKE x, y \in Threads
  <2>1. CASE x = t /\ y = t
    BY <1>1, <1>2, <2>1
  <2>3. CASE x = t /\ y # t
    <3>1. r.prev[y] = IF y = n THEN p ELSE q.prev[y]
      BY <1>1, <2>3
    <3>2. (p = t <=> n = t) /\ (q.prev[y] = t <=> n = y)
      BY <1>4, <1>5 DEF n
    <3> QED
      BY <1>1, <1>2, <2>3, <3>1, <3>2
  <2>4. CASE x # t /\ y = t
    <3>1. r.next[x] = IF x = p THEN n ELSE q.next[x]
      BY <1>1, <2>4
    <3>2. (p = t <=> n = t) /\ (q.next[x] = t <=> p = x)
      BY <1>4, <1>5 DEF n
    <3> QED
      BY <1>1, <1>2, <2>4, <3>1, <3>2
  <2>2. CASE x # t /\ y # t
    <3>1. r.next[x] = IF x = p THEN n ELSE q.next[x]
      BY <1>1, <2>2
    <3>2. r.prev[y] = IF y = n THEN p ELSE q.prev[y]
      BY <1>1, <2>2
    <3>3. q.next[x] = y <=> q.prev[y] = x
      BY <1>3
    <3>4. (q.next[x] = t <=> p = x) /\ (q.prev[y] = t <=> n = y)
      BY <1>4, <1>5
    <3> QED
      BY <1>2, <2>2, <3>1, <3>2, <3>3, <3>4
  <2> QED
    BY <2>1, <2>2, <2>3, <2>4
<1>8. \A x, y \in Threads : r.next[x] = y => w[x] = w[y] /\ w[x] # None
  BY <1>1, <1>2, <1>3, <1>4, <1>5, <1>6
<1>9. \A z \in Sections, x \in Threads : r.first[z] = x => r.prev[x] = None /\ w[x] = z
  BY <1>1, <1>2, <1>3, <1>5, <1>6
<1>10. \A z \in Sections, x \in Threads : r.last[z] = x => r.next[x] = None /\ w[x] = z
  BY <1>1, <1>2, <1>3, <1>4, <1>6
<1>11. \A z \in Sections : t # r.first[z] /\ t # r.last[z]
  BY <1>1, <1>2, <1>3, <1>4, <1>5
<1>12. Aside(q, r, s, w)
  BY <1>1, <1>2, <1>6 DEF Aside
<1>13. ASSUME NEW y \in Threads, Out(q, y) PROVE Out(r, y)
  <2>1. CASE y = t
    BY <1>1, <1>11, <2>1 DEF Out
  <2>2. CASE y # t
    <3>1. y # n /\ y # p
      BY <1>2, <1>4, <1>5, <1>13 DEF Out
    <3> QED
      BY <1>1, <1>13, <2>2, <3>1 DEF Out
  <2> QED
    BY <2>1, <2>2
<1> QED
  BY <1>1, <1>7, <1>8, <1>9, <1>10, <1>11, <1>12, <1>13 DEF Tidy, Out, r

(* A walk stays where its start is and the links do not leave.               *)
LEMMA WalkStays ==
  ASSUME NEW start \in Thread0, NEW link \in [Threads -> Thread0], NEW C,
         start \in C \union {None}, \A c \in Threads : c \in C => link[c] \in C \union {None}
  PROVE  ToSet(Walk(start, link)) \subseteq C
<1> DEFINE q == Walk(start, link)
           G == {n \in 0 .. Len(q) : n = 0 \/ q[n] \in C}
<1>1. /\ q \in Seq(Threads) /\ (q # <<>> => q[1] = start)
      /\ \A i \in 1 .. Len(q) - 1 : q[i + 1] = link[q[i]]
  BY WalkOK DEF Follows
<1> HIDE DEF q
<1>2. Len(q) \in Nat /\ \A i \in 1 .. Len(q) : q[i] \in Threads /\ q[i] # None
  BY <1>1, ThreadsAssumption
<1>3. 0 \in G
  BY <1>2
<1>4. ASSUME NEW n \in 1 .. Len(q), n - 1 \in G PROVE n \in G
  <2>1. q[n] \in C
    <3>1. CASE n = 1
      BY <1>1, <1>2, <3>1
    <3>2. CASE n # 1
      <4>1. n - 1 \in 1 .. Len(q) - 1 /\ n - 1 \in 1 .. Len(q) /\ (n - 1) + 1 = n /\ q[n - 1] \in C
        BY <1>2, <1>4, <3>2
      <4> QED
        BY <1>1, <1>2, <4>1
    <3> QED
      BY <3>1, <3>2
  <2> QED
    BY <1>2, <2>1
<1> HIDE DEF G
<1>5. \A n \in 0 .. Len(q) : n \in G
  BY <1>2, <1>3, <1>4, Upwards
<1>6. \A n \in 1 .. Len(q) : q[n] \in C
  BY <1>2, <1>5 DEF G
<1>7. ToSet(q) \subseteq C
  BY <1>1, <1>6, Members
<1> QED
  BY <1>7 DEF q

(* Nothing leads to or from a thread that is not at the queue.               *)
LEMMA Unlinked ==
  ASSUME NEW q \in Queues, NEW w, Tidy(q, w), NEW t \in Threads, w[t] = None
  PROVE  Out(q, t)
<1>1. q.next[t] \in Threads \union {None} /\ q.prev[t] \in Threads \union {None}
  BY DEF Queues, Thread0
<1>2. q.next[t] = None
  BY <1>1 DEF Tidy
<1>3. q.prev[t] = None
  <2>1. ASSUME q.prev[t] \in Threads PROVE FALSE
    <3>1. q.next[q.prev[t]] = t
      BY <2>1 DEF Tidy
    <3> QED
      BY <2>1, <3>1 DEF Tidy
  <2> QED
    BY <1>1, <2>1
<1>4. \A s \in Sections : t # q.first[s] /\ t # q.last[s]
  BY ThreadsAssumption DEF Tidy
<1> QED
  BY <1>2, <1>3, <1>4 DEF Out

(* msection_wq_add: behind a thread of the queue, or at its head.            *)
LEMMA WqAddTidy ==
  ASSUME NEW q \in Queues, NEW w, NEW v, Tidy(q, w), NEW s \in Sections, NEW t \in Threads,
         w[t] = None, v[t] = s, \A u \in Threads \ {t} : v[u] = w[u],
         NEW p \in Thread0, NEW n \in Thread0,
         p # None => w[p] = s /\ q.next[p] = n /\ ~Out(q, p),
         p = None => n \in {None, q.first[s]}
  PROVE  LET r == WqAdd(q, s, t, p, n) IN
         /\ Tidy(r, v) /\ Aside(q, r, s, v)
         /\ \A y \in Threads \ {t} : Out(q, y) => Out(r, y)
<1> DEFINE r == WqAdd(q, s, t, p, n)
<1>1. Out(q, t) /\ None \notin Threads /\ s # None
  BY Unlinked, ThreadsAssumption
<1>2. /\ \A x, y \in Threads : q.next[x] = y <=> q.prev[y] = x
      /\ \A x, y \in Threads : q.next[x] = y => w[x] = w[y] /\ w[x] # None
      /\ \A z \in Sections, x \in Threads : q.first[z] = x => q.prev[x] = None /\ w[x] = z
      /\ \A z \in Sections, x \in Threads : q.last[z] = x => q.next[x] = None /\ w[x] = z
  BY DEF Tidy
<1>3. p # t /\ n # t /\ p \in Threads \union {None} /\ n \in Threads \union {None}
  BY <1>1, <1>2 DEF Out, Thread0
<1>4. /\ \A u \in Threads : /\ r.next[u] = IF u = p THEN t ELSE IF u = t THEN n ELSE q.next[u]
                            /\ r.prev[u] = IF u = n THEN t ELSE IF u = t THEN p ELSE q.prev[u]
      /\ \A z \in Sections : /\ r.first[z] = IF z = s /\ p = None THEN t ELSE q.first[z]
                             /\ r.last[z] = IF z = s /\ n = None THEN t ELSE q.last[z]
  BY <1>3, WqAddIs
<1>5. /\ n # None => w[n] = s /\ v[n] = s /\ q.prev[n] = p
      /\ p # None => w[p] = s /\ v[p] = s
  <2>1. CASE p = None
    <3>1. n # None => n = q.first[s]
      BY <2>1
    <3> QED
      BY <1>2, <1>3, <2>1, <3>1
  <2>2. CASE p # None
    BY <1>2, <1>3, <2>2
  <2> QED
    BY <2>1, <2>2
<1>6. \A u \in Threads : q.next[u] # t /\ q.prev[u] # t
  <2> TAKE u \in Threads
  <2>1. q.next[t] = None /\ q.prev[t] = None
    BY <1>1 DEF Out
  <2> QED
    BY <1>1, <1>2, <2>1
<1> HIDE DEF r
<1>7. ASSUME NEW x \in Threads, NEW y \in Threads PROVE r.next[x] = y <=> r.prev[y] = x
  <2>1. r.next[x] = IF x = p THEN t ELSE IF x = t THEN n ELSE q.next[x]
    BY <1>4
  <2>2. r.prev[y] = IF y = n THEN t ELSE IF y = t THEN p ELSE q.prev[y]
    BY <1>4
  <2>3. (q.next[x] = y <=> q.prev[y] = x) /\ q.next[x] # t /\ q.prev[y] # t
    BY <1>2, <1>6
  <2>4. x = p => q.next[x] = n
    BY <1>1
  <2>5. y = n => q.prev[y] = p
    BY <1>1, <1>5
  <2>6. x # None /\ y # None
    BY <1>1
  <2> QED
    BY <1>3, <2>1, <2>2, <2>3, <2>4, <2>5, <2>6
<1>8. ASSUME NEW x \in Threads, NEW y \in Threads, r.next[x] = y PROVE v[x] = v[y] /\ v[x] # None
  <2>1. r.next[x] = IF x = p THEN t ELSE IF x = t THEN n ELSE q.next[x]
    BY <1>4
  <2>2. CASE x = p
    BY <1>1, <1>5, <1>8, <2>1, <2>2
  <2>3. CASE x = t
    BY <1>1, <1>3, <1>5, <1>8, <2>1, <2>3
  <2>4. CASE x # p /\ x # t
    <3>1. q.next[x] = y /\ y # t
      BY <1>6, <1>8, <2>1, <2>4
    <3> QED
      BY <1>2, <2>4, <3>1
  <2> QED
    BY <2>2, <2>3, <2>4
<1>9. ASSUME NEW z \in Sections, NEW x \in Threads, r.first[z] = x PROVE r.prev[x] = None /\ v[x] = z
  <2>1. r.prev[x] = IF x = n THEN t ELSE IF x = t THEN p ELSE q.prev[x]
    BY <1>4
  <2>2. r.first[z] = IF z = s /\ p = None THEN t ELSE q.first[z]
    BY <1>4
  <2>3. CASE z = s /\ p = None
    BY <1>3, <1>9, <2>1, <2>2, <2>3
  <2>4. CASE ~(z = s /\ p = None)
    <3>1. q.first[z] = x /\ q.prev[x] = None /\ w[x] = z /\ x # t
      BY <1>1, <1>2, <1>9, <2>2, <2>4 DEF Out
    <3>2. x # n
      <4> SUFFICES ASSUME x = n PROVE FALSE
        OBVIOUS
      <4>1. n # None /\ w[n] = s /\ q.prev[n] = p
        BY <1>1, <1>5
      <4> QED
        BY <2>4, <3>1, <4>1
    <3> QED
      BY <2>1, <3>1, <3>2
  <2> QED
    BY <2>3, <2>4
<1>10. ASSUME NEW z \in Sections, NEW x \in Threads, r.last[z] = x PROVE r.next[x] = None /\ v[x] = z
  <2>1. r.next[x] = IF x = p THEN t ELSE IF x = t THEN n ELSE q.next[x]
    BY <1>4
  <2>2. r.last[z] = IF z = s /\ n = None THEN t ELSE q.last[z]
    BY <1>4
  <2>3. CASE z = s /\ n = None
    BY <1>3, <1>10, <2>1, <2>2, <2>3
  <2>4. CASE ~(z = s /\ n = None)
    <3>1. q.last[z] = x /\ q.next[x] = None /\ w[x] = z /\ x # t
      BY <1>1, <1>2, <1>10, <2>2, <2>4 DEF Out
    <3>2. x # p
      <4> SUFFICES ASSUME x = p PROVE FALSE
        OBVIOUS
      <4>1. p # None /\ w[p] = s /\ q.next[p] = n
        BY <1>1
      <4> QED
        BY <2>4, <3>1, <4>1
    <3> QED
      BY <2>1, <3>1, <3>2
  <2> QED
    BY <2>3, <2>4
<1>11. Aside(q, r, s, v)
  <2>1. ASSUME NEW u \in Threads, v[u] # s PROVE r.next[u] = q.next[u] /\ r.prev[u] = q.prev[u]
    <3>1. u # t /\ u # p /\ u # n
      BY <1>1, <1>5, <2>1
    <3> QED
      BY <1>4, <3>1
  <2> QED
    BY <1>4, <2>1 DEF Aside
<1>12. ASSUME NEW y \in Threads \ {t}, Out(q, y) PROVE Out(r, y)
  <2>1. q.next[y] = None /\ q.prev[y] = None /\ \A z \in Sections : y # q.first[z] /\ y # q.last[z]
    BY <1>12 DEF Out
  <2>2. y # n
    <3> SUFFICES ASSUME y = n PROVE FALSE
      OBVIOUS
    <3>1. q.prev[y] = p
      BY <1>1, <1>5
    <3> QED
      BY <1>1, <2>1, <3>1
  <2>3. r.next[y] = None
    BY <1>1, <1>4, <1>12, <2>1
  <2>4. r.prev[y] = None
    BY <1>4, <2>1, <2>2
  <2>5. \A z \in Sections : y # r.first[z] /\ y # r.last[z]
    BY <1>4, <2>1
  <2> QED
    BY <2>3, <2>4, <2>5 DEF Out
<1> QED
  BY <1>7, <1>8, <1>9, <1>10, <1>11, <1>12 DEF Tidy, r

(* arinc_process_queue_add_common.                                           *)
LEMMA AddTidy ==
  ASSUME queue \in Queues, NEW w, NEW v, Tidy(queue, w), NEW s \in Sections, NEW t \in Threads,
         w[t] = None, v[t] = s, \A u \in Threads \ {t} : v[u] = w[u], NEW discipline
  PROVE  LET r == AddToQueue(s, t, discipline) IN
         /\ Tidy(r, v) /\ Aside(queue, r, s, v)
         /\ \A y \in Threads \ {t} : Out(queue, y) => Out(r, y)
<1>1. /\ None \in Thread0 /\ None \notin Threads /\ queue.last[s] \in Thread0
      /\ queue.prev \in [Threads -> Thread0] /\ queue.next \in [Threads -> Thread0]
      /\ queue.first[s] \in Thread0
  BY ThreadsAssumption DEF Queues, Thread0
<1>2. CASE ~discipline
  <2>1. queue.last[s] # None => /\ w[queue.last[s]] = s /\ queue.next[queue.last[s]] = None
                                /\ ~Out(queue, queue.last[s])
    BY <1>1 DEF Tidy, Out, Thread0
  <2>2. AddToQueue(s, t, discipline) = WqAdd(queue, s, t, queue.last[s], None)
    BY <1>2 DEF AddToQueue
  <2> QED
    BY <1>1, <2>1, <2>2, WqAddTidy
<1>3. CASE discipline
  <2> DEFINE back == Walk(queue.last[s], queue.prev)
             I == {j \in 1 .. Len(back) : StaysAhead(back[j], t)}
             i == SelectInSeq(back, LAMBDA u : StaysAhead(u, t))
             p == IF i = 0 THEN None ELSE back[i]
             n == IF p = None THEN queue.first[s] ELSE queue.next[p]
             q == WqAdd(queue, s, t, p, n)
             C == {x \in Threads : w[x] = s /\ ~Out(queue, x)}
  <2>1. AddToQueue(s, t, discipline) = [q EXCEPT !.priority[t] = priority[t]]
    BY <1>3 DEF AddToQueue, AddByPriority
  <2>2. back \in Seq(Threads) /\ Len(back) \in Nat
    BY <1>1, WalkOK
  <2>3. i = IF I # {} THEN Min(I) ELSE 0
    BY DEF SelectInSeq
  <2>4. I \in SUBSET Nat /\ I \in SUBSET (1 .. Len(back))
    OBVIOUS
  <2>5. ToSet(back) \subseteq C
    <3>1. queue.last[s] \in C \union {None}
      BY <1>1 DEF Tidy, Out, Thread0
    <3>2. ASSUME NEW c \in Threads, c \in C PROVE queue.prev[c] \in C \union {None}
      <4>1. CASE queue.prev[c] = None
        BY <4>1
      <4>2. CASE queue.prev[c] \in Threads
        <5>1. queue.next[queue.prev[c]] = c /\ w[queue.prev[c]] = w[c]
          BY <4>2 DEF Tidy
        <5> QED
          BY <1>1, <3>2, <4>2, <5>1 DEF Out
      <4> QED
        BY <1>1, <4>1, <4>2 DEF Thread0
    <3> HIDE DEF C
    <3> QED
      BY <1>1, <3>1, <3>2, WalkStays
  <2> HIDE DEF I, i, back
  <2>6. i = 0 \/ i \in 1 .. Len(back)
    BY <2>3, <2>4, MinIn
  <2>7. p = None \/ p \in C
    <3>1. i \in 1 .. Len(back) => back[i] \in ToSet(back)
      BY <2>2, Members
    <3> HIDE DEF C
    <3> QED
      BY <2>5, <2>6, <3>1
  <2> HIDE DEF p
  <2>8. p \in Thread0 /\ (p # None => w[p] = s /\ ~Out(queue, p))
    BY <1>1, <2>7 DEF Thread0
  <2>9. n \in Thread0 /\ (p # None => queue.next[p] = n) /\ (p = None => n \in {None, queue.first[s]})
    BY <1>1, <2>8 DEF Thread0
  <2> HIDE DEF n, C
  <2>10. Tidy(q, v) /\ Aside(queue, q, s, v) /\ \A y \in Threads \ {t} : Out(queue, y) => Out(q, y)
    BY <2>8, <2>9, WqAddTidy
  <2>11. q \in Queues
    BY <2>8, <2>9, WqAddTyped
  <2> HIDE DEF q
  <2> DEFINE r == [q EXCEPT !.priority[t] = priority[t]]
  <2>12. r.next = q.next /\ r.prev = q.prev /\ r.first = q.first /\ r.last = q.last
    BY <2>11 DEF Queues
  <2> HIDE DEF r
  <2>13. Tidy(r, v) /\ Aside(queue, r, s, v)
    BY <2>10, <2>12 DEF Tidy, Aside
  <2>14. \A y \in Threads : Out(q, y) => Out(r, y)
    BY <2>12 DEF Out
  <2> QED
    BY <2>1, <2>10, <2>13, <2>14 DEF r
<1> QED
  BY <1>2, <1>3

--------------------------------------------------------------------------------
(* What a walk from the first thread of a queue finds, without the walk: the  *)
(* threads of every set that holds the first one and that no link leaves.     *)
Closed(q, s, C) ==
  q.first[s] \in C \union {None} /\ \A c \in C : q.next[c] \in C \union {None}
Reach(q, s) == {x \in Threads : \A C \in SUBSET Threads : Closed(q, s, C) => x \in C}

(* The least such set is in all of them ...                                  *)
LEMMA ReachWithin ==
  ASSUME NEW q, NEW s, NEW C \in SUBSET Threads, Closed(q, s, C)
  PROVE  Reach(q, s) \subseteq C
BY DEF Reach

(* ... and is one of them.                                                   *)
LEMMA ReachClosed ==
  ASSUME NEW q \in Queues, NEW s \in Sections
  PROVE  Closed(q, s, Reach(q, s)) /\ Reach(q, s) \subseteq Threads
<1>1. /\ q.first[s] \in Threads \union {None} /\ None \notin Threads
      /\ \A c \in Threads : q.next[c] \in Threads \union {None}
  BY ThreadsAssumption DEF Queues, Thread0
<1>2. q.first[s] \in Reach(q, s) \union {None}
  <2>1. ASSUME q.first[s] # None, NEW C \in SUBSET Threads, Closed(q, s, C) PROVE q.first[s] \in C
    BY <2>1 DEF Closed
  <2> QED
    BY <1>1, <2>1 DEF Reach
<1>3. ASSUME NEW c \in Reach(q, s) PROVE q.next[c] \in Reach(q, s) \union {None}
  <2>1. c \in Threads /\ \A C \in SUBSET Threads : Closed(q, s, C) => c \in C
    BY DEF Reach
  <2>2. ASSUME q.next[c] # None, NEW C \in SUBSET Threads, Closed(q, s, C) PROVE q.next[c] \in C
    BY <2>1, <2>2 DEF Closed
  <2> QED
    BY <1>1, <2>1, <2>2 DEF Reach
<1> QED
  BY <1>2, <1>3 DEF Closed, Reach

(* Such a thread is at the queue of this section ...                         *)
LEMMA ReachAt ==
  ASSUME NEW q \in Queues, NEW w, Tidy(q, w), NEW s \in Sections
  PROVE  \A x \in Reach(q, s) : w[x] = s
<1> DEFINE C == {x \in Threads : w[x] = s}
<1>1. Closed(q, s, C)
  <2>1. /\ q.first[s] \in Threads \union {None} /\ None \notin Threads
        /\ \A c \in Threads : q.next[c] \in Threads \union {None}
    BY ThreadsAssumption DEF Queues, Thread0
  <2> QED
    BY <2>1 DEF Closed, Tidy
<1>2. Reach(q, s) \subseteq C
  <2> HIDE DEF C
  <2>1. C \in SUBSET Threads
    BY DEF C
  <2> QED
    BY <1>1, <2>1, ReachWithin
<1> QED
  BY <1>2

(* ... and is the first one or has one before it that is reached, too.       *)
LEMMA ReachBack ==
  ASSUME NEW q \in Queues, NEW w, Tidy(q, w), NEW s \in Sections, NEW t \in Reach(q, s)
  PROVE  IF q.prev[t] = None THEN q.first[s] = t ELSE q.prev[t] \in Reach(q, s)
<1> DEFINE R == Reach(q, s)
           C == R \ {t}
<1>1. /\ q.first[s] \in R \union {None} /\ R \subseteq Threads /\ t \in Threads
      /\ \A c \in R : q.next[c] \in R \union {None}
  BY ReachClosed DEF Closed
<1>2. ~Closed(q, s, C)
  <2> HIDE DEF C, R
  <2>1. Closed(q, s, C) => R \subseteq C
    BY <1>1, ReachWithin DEF R, C
  <2> QED
    BY <2>1 DEF C, R
<1>3. q.first[s] = t \/ \E c \in C : q.next[c] = t
  <2> HIDE DEF R
  <2> QED
    BY <1>1, <1>2 DEF Closed
<1>4. q.first[s] = t => q.prev[t] = None
  BY <1>1 DEF Tidy
<1>5. ASSUME NEW c \in C, q.next[c] = t PROVE q.prev[t] = c
  BY <1>1, <1>5 DEF Tidy
<1> QED
  BY <1>1, <1>3, <1>4, <1>5, ThreadsAssumption

(* A thread of the queue leaves it: the others are reached as before.        *)
LEMMA ReachDel ==
  ASSUME NEW q \in Queues, NEW w, Tidy(q, w), NEW s \in Sections, NEW t \in Reach(q, s)
  PROVE  Reach(q, s) \ {t} \subseteq Reach(WqDel(q, s, t), s)
<1> DEFINE r == WqDel(q, s, t)
           n == q.next[t]
           p == q.prev[t]
<1>1. t \in Threads /\ None \notin Threads /\ n \in Threads \union {None} /\ p \in Threads \union {None}
  BY ThreadsAssumption DEF Reach, Queues, Thread0
<1>2. r \in Queues
  BY <1>1, WqDelTyped
<1>3. /\ \A u \in Threads \ {t} : r.next[u] = IF u = p THEN n ELSE q.next[u]
      /\ r.first[s] = IF p = None THEN n ELSE q.first[s]
  BY <1>1, WqDelIs
<1>4. IF p = None THEN q.first[s] = t ELSE q.next[p] = t /\ p \in Reach(q, s) /\ p \in Threads
  BY <1>1, ReachBack DEF Tidy
<1>5. \A u \in Threads : q.next[u] = t <=> p = u
  BY <1>1 DEF Tidy
<1>6. t = p <=> t = n
  BY <1>1 DEF Tidy
<1> DEFINE D == Reach(r, s) \ {t}
           C == IF p = None \/ p \in D \/ p = t THEN D \union {t} ELSE D
<1>7. Closed(r, s, Reach(r, s))
  BY <1>2, ReachClosed
<1>8. D \subseteq Threads /\ C \in SUBSET Threads
  BY <1>1 DEF Reach
<1> HIDE DEF r, p, n
<1>9. /\ r.first[s] \in Reach(r, s) \union {None}
      /\ \A c \in Reach(r, s) : r.next[c] \in Reach(r, s) \union {None}
  BY <1>7 DEF Closed
<1> HIDE DEF D
<1>10. q.first[s] \in C \union {None}
  <2>1. CASE p = None
    BY <1>4, <2>1
  <2>2. CASE p # None
    <3>1. q.first[s] # t
      BY <1>1, <2>2 DEF Tidy, p
    <3>2. q.first[s] \in D \union {None}
      BY <1>3, <1>9, <2>2, <3>1 DEF D
    <3> HIDE DEF D
    <3> QED
      BY <3>2
  <2> QED
    BY <2>1, <2>2
<1>11. ASSUME NEW c \in C PROVE q.next[c] \in C \union {None}
  <2>1. CASE c = t
    <3>1. p = None => n = r.first[s]
      BY <1>3
    <3>2. p \in D => r.next[p] = n
      BY <1>3, <1>8 DEF D
    <3>3. n \in C \union {None}
      BY <1>1, <1>6, <1>9, <1>11, <2>1, <3>1, <3>2 DEF D
    <3> QED
      BY <2>1, <3>3 DEF n
  <2>2. CASE c # t
    <3>1. c \in D /\ c \in Reach(r, s) /\ c \in Threads
      BY <1>8, <1>11, <2>2 DEF D
    <3>2. CASE c = p
      BY <1>4, <1>5, <3>1, <3>2
    <3>3. CASE c # p
      <4>1. r.next[c] = q.next[c] /\ q.next[c] # t
        BY <1>3, <1>5, <2>2, <3>1, <3>3
      <4> QED
        BY <1>9, <3>1, <4>1 DEF D
    <3> QED
      BY <3>2, <3>3
  <2> QED
    BY <2>1, <2>2
<1>12. Closed(q, s, C)
  <2> HIDE DEF C
  <2> QED
    BY <1>10, <1>11 DEF Closed
<1>13. Reach(q, s) \subseteq C
  <2> HIDE DEF C
  <2> QED
    BY <1>8, <1>12, ReachWithin
<1> QED
  BY <1>13 DEF D, r

(* What happens to one queue does not change what is reached in another.     *)
LEMMA ReachAside ==
  ASSUME NEW q \in Queues, NEW r \in Queues, NEW w, NEW v, Tidy(q, w),
         NEW s \in Sections, NEW z \in Sections, z # s, Aside(q, r, s, v),
         \A x \in Threads : w[x] = z => v[x] # s
  PROVE  Reach(q, z) \subseteq Reach(r, z)
<1> DEFINE C == Reach(q, z) \intersect Reach(r, z)
<1>1. \A x \in Reach(q, z) : r.next[x] = q.next[x]
  BY ReachAt DEF Aside, Reach
<1>2. r.first[z] = q.first[z]
  BY DEF Aside
<1>3. /\ Closed(q, z, Reach(q, z)) /\ Closed(r, z, Reach(r, z))
      /\ Reach(q, z) \subseteq Threads /\ Reach(r, z) \subseteq Threads
  BY ReachClosed
<1>4. Closed(q, z, C)
  BY <1>1, <1>2, <1>3 DEF Closed
<1>5. C \in SUBSET Threads
  BY <1>3
<1> HIDE DEF C
<1>6. Reach(q, z) \subseteq C
  BY <1>4, <1>5, ReachWithin
<1> QED
  BY <1>6 DEF C

(* ... and a walk finds them all, once each.                                 *)
LEMMA QueuedOnce ==
  ASSUME queue \in Queues, NEW w, Tidy(queue, w), NEW s \in Sections,
         NEW a \in 1 .. Len(Queued(s)), NEW b \in 1 .. Len(Queued(s)), a < b
  PROVE  Queued(s)[a] # Queued(s)[b]
<1> DEFINE q == Queued(s)
           G == {n \in 0 .. Len(q) : \A i, j \in 1 .. Len(q) : i <= n /\ i < j => q[i] # q[j]}
<1>1. /\ q \in Seq(Threads) /\ Len(q) \in Nat /\ (q # <<>> => q[1] = queue.first[s])
      /\ \A i \in 1 .. Len(q) - 1 : q[i + 1] = queue.next[q[i]]
  BY QueuedOK DEF Follows
<1> HIDE DEF q
<1>2. \A i \in 1 .. Len(q) : q[i] \in Threads /\ q[i] # None
  BY <1>1, ThreadsAssumption
<1>3. \A i \in 1 .. Len(q) : i # 1 => i - 1 \in 1 .. Len(q) /\ queue.prev[q[i]] = q[i - 1]
  <2> TAKE i \in 1 .. Len(q)
  <2> HAVE i # 1
  <2>1. i - 1 \in 1 .. Len(q) - 1 /\ i - 1 \in 1 .. Len(q) /\ (i - 1) + 1 = i
    BY <1>1
  <2>2. q[i] = queue.next[q[i - 1]]
    BY <1>1, <2>1
  <2> QED
    BY <1>2, <2>1, <2>2 DEF Tidy
<1>4. q # <<>> => queue.prev[q[1]] = None
  <2>1. q # <<>> => 1 \in 1 .. Len(q)
    BY <1>1
  <2> QED
    BY <1>1, <1>2, <2>1 DEF Tidy
<1>5. 0 \in G
  BY <1>1
<1>6. ASSUME NEW n \in 1 .. Len(q), n - 1 \in G PROVE n \in G
  <2>1. ASSUME NEW i \in 1 .. Len(q), NEW j \in 1 .. Len(q), i <= n, i < j, q[i] = q[j] PROVE FALSE
    <3>1. j # 1 /\ j - 1 \in 1 .. Len(q) /\ queue.prev[q[j]] = q[j - 1]
      BY <1>1, <1>3, <2>1
    <3>2. CASE i = 1
      <4>1. q # <<>>
        BY <1>1
      <4> QED
        BY <1>2, <1>4, <2>1, <3>1, <3>2, <4>1
    <3>3. CASE i # 1
      <4>1. i - 1 \in 1 .. Len(q) /\ queue.prev[q[i]] = q[i - 1] /\ i - 1 <= n - 1 /\ i - 1 < j - 1
        BY <1>1, <1>3, <2>1, <3>3
      <4> QED
        BY <1>6, <2>1, <3>1, <4>1
    <3> QED
      BY <3>2, <3>3
  <2> QED
    BY <1>1, <2>1
<1> HIDE DEF G
<1>7. \A n \in 0 .. Len(q) : n \in G
  BY <1>1, <1>5, <1>6, Upwards
<1>8. Len(q) \in G
  BY <1>1, <1>7
<1> QED
  BY <1>1, <1>8 DEF G, q

(* The walk along a tidy queue ends, visits no thread twice and finds them   *)
(* all.                                                                      *)
LEMMA QueuedReach ==
  ASSUME queue \in Queues, NEW w, Tidy(queue, w), NEW s \in Sections
  PROVE  /\ ToSet(Queued(s)) = Reach(queue, s) /\ OnceEach(Queued(s))
         /\ Queued(s) \in Seq(Threads) /\ Reach(queue, s) \subseteq Threads
<1> DEFINE q == Queued(s)
           R == Reach(queue, s)
           C == ToSet(q)
<1>1. /\ q \in Seq(Threads) /\ Len(q) \in Nat /\ (q # <<>> => q[1] = queue.first[s])
      /\ \A i \in 1 .. Len(q) - 1 : q[i + 1] = queue.next[q[i]]
  BY QueuedOK DEF Follows
<1>2. Ends(q, queue.first[s], queue.next)
  BY WalkOK DEF Queued, Queues
<1>3. /\ queue.first[s] \in R \union {None} /\ R \subseteq Threads
      /\ \A c \in R : queue.next[c] \in R \union {None}
  BY ReachClosed DEF Closed
<1>4. C \subseteq R
  <2> HIDE DEF R
  <2>1. queue.first[s] \in Thread0 /\ queue.next \in [Threads -> Thread0]
    BY DEF Queues
  <2> QED
    BY <1>3, <2>1, WalkStays DEF Queued
<1>5. \A a, b \in 1 .. Len(q) : a < b => q[a] # q[b]
  BY QueuedOnce
<1> HIDE DEF q, C
<1>6. OnceEach(q)
  BY <1>1, <1>5, Members DEF OnceEach
<1>7. C \in SUBSET Threads /\ C = {q[i] : i \in 1 .. Len(q)}
  BY <1>1, Members DEF C
<1>8. Closed(queue, s, C)
  <2>1. CASE Len(q) = Cardinality(Threads)
    <3>1. Cardinality(C) = Cardinality(Threads)
      BY <1>1, <1>6, <2>1, OnceEachCardinality DEF C
    <3>2. C = Threads
      BY <1>7, <3>1, FS_Subset, ThreadsAssumption
    <3> QED
      BY <3>2 DEF Closed, Queues, Thread0
  <2>2. CASE (IF q = <<>> THEN queue.first[s] ELSE queue.next[q[Len(q)]]) = None
    <3>1. queue.first[s] \in C \union {None}
      <4>1. q # <<>> => 1 \in 1 .. Len(q)
        BY <1>1
      <4> QED
        BY <1>1, <1>7, <2>2, <4>1
    <3>2. ASSUME NEW i \in 1 .. Len(q) PROVE queue.next[q[i]] \in C \union {None}
      <4>1. CASE i = Len(q)
        <5>1. q # <<>>
          BY <1>1, <4>1
        <5> QED
          BY <2>2, <4>1, <5>1
      <4>2. CASE i # Len(q)
        <5>1. i \in 1 .. Len(q) - 1 /\ i + 1 \in 1 .. Len(q)
          BY <1>1, <4>2
        <5> QED
          BY <1>1, <1>7, <5>1
      <4> QED
        BY <4>1, <4>2
    <3> QED
      BY <1>7, <3>1, <3>2 DEF Closed
  <2> QED
    BY <1>2, <2>1, <2>2 DEF Ends
<1>9. R \subseteq C
  BY <1>7, <1>8, ReachWithin
<1> QED
  BY <1>1, <1>3, <1>4, <1>6, <1>9 DEF q, C

(* Two changes of one queue are a change of it,                              *)
LEMMA AsideTwice ==
  ASSUME NEW q, NEW r, NEW x, NEW s, NEW w, Aside(q, r, s, w), Aside(r, x, s, w)
  PROVE  Aside(q, x, s, w)
BY DEF Aside

(* and so is no change.                                                      *)
LEMMA AsideSame ==
  ASSUME NEW q, NEW s, NEW w
  PROVE  Aside(q, q, s, w)
BY DEF Aside

(* Several threads leave a queue.                                            *)
LEMMA DelAllTidy ==
  ASSUME queue \in Queues, NEW w, Tidy(queue, w), NEW s \in Sections, NEW q \in Seq(Threads),
         \A x \in ToSet(q) : w[x] = s
  PROVE  /\ Tidy(DelAll(s, q), w) /\ Aside(queue, DelAll(s, q), s, w)
         /\ \A x \in Threads : Out(queue, x) \/ x \in ToSet(q) => Out(DelAll(s, q), x)
<1>1. PICK after \in [0 .. Len(q) -> Queues] : Leaves(after, s, q)
  BY DelAllUnfolds
<1>2. /\ Len(q) \in Nat /\ after[0] = queue /\ DelAll(s, q) = after[Len(q)]
      /\ \A n \in 1 .. Len(q) : after[n] = WqDel(after[n - 1], s, q[n])
      /\ \A n \in 1 .. Len(q) : q[n] \in Threads /\ w[q[n]] = s
      /\ ToSet(q) = {q[i] : i \in 1 .. Len(q)}
  BY <1>1, Members DEF Leaves
<1> DEFINE N == Len(q)
           Gone(n) == {q[i] : i \in 1 .. n}
           Good(k, n) == /\ Tidy(k, w) /\ Aside(queue, k, s, w)
                         /\ \A x \in Threads : Out(queue, x) \/ x \in Gone(n) => Out(k, x)
           G == {n \in 0 .. N : Good(after[n], n)}
<1>3. 0 \in G
  BY <1>2, AsideSame
<1>4. ASSUME NEW n \in 1 .. N, n - 1 \in G PROVE n \in G
  <2> DEFINE k == after[n - 1]
             r == WqDel(k, s, q[n])
  <2>1. /\ n \in 0 .. N /\ n - 1 \in 0 .. N /\ k \in Queues /\ Good(k, n - 1)
        /\ q[n] \in Threads /\ w[q[n]] = s /\ after[n] = r
    BY <1>2, <1>4
  <2>2. Gone(n) = Gone(n - 1) \union {q[n]}
    BY <1>2
  <2> HIDE DEF k, Gone
  <2>3. /\ Tidy(r, w) /\ Out(r, q[n]) /\ Aside(k, r, s, w)
        /\ \A y \in Threads : Out(k, y) => Out(r, y)
    BY <2>1, WqDelTidy
  <2> HIDE DEF r
  <2>4. Good(r, n)
    BY <2>1, <2>2, <2>3, AsideTwice
  <2> QED
    BY <2>1, <2>4
<1> HIDE DEF G, N
<1>5. \A n \in 0 .. N : n \in G
  BY <1>2, <1>3, <1>4, Upwards DEF N
<1>6. Good(after[N], N)
  BY <1>2, <1>5 DEF G, N
<1> QED
  BY <1>2, <1>6 DEF N

(* Those that stay are still reached, if those that leave are in the queue.   *)
LEMMA DelAllReach ==
  ASSUME queue \in Queues, NEW w, Tidy(queue, w), NEW s \in Sections, NEW q \in Seq(Threads),
         OnceEach(q), ToSet(q) \subseteq Reach(queue, s)
  PROVE  Reach(queue, s) \ ToSet(q) \subseteq Reach(DelAll(s, q), s)
<1>1. PICK after \in [0 .. Len(q) -> Queues] : Leaves(after, s, q)
  BY DelAllUnfolds
<1>2. /\ Len(q) \in Nat /\ after[0] = queue /\ DelAll(s, q) = after[Len(q)]
      /\ \A n \in 1 .. Len(q) : after[n] = WqDel(after[n - 1], s, q[n])
      /\ \A n \in 1 .. Len(q) : q[n] \in Threads /\ q[n] \in Reach(queue, s)
      /\ ToSet(q) = {q[i] : i \in 1 .. Len(q)}
      /\ \A i, j \in 1 .. Len(q) : i < j => q[i] # q[j]
  BY <1>1, Members DEF Leaves, OnceEach
<1>3. \A n \in 1 .. Len(q) : w[q[n]] = s
  BY <1>2, ReachAt
<1> DEFINE N == Len(q)
           R == Reach(queue, s)
           Gone(n) == {q[i] : i \in 1 .. n}
           Good(k, n) == Tidy(k, w) /\ R \ Gone(n) \subseteq Reach(k, s)
           G == {n \in 0 .. N : Good(after[n], n)}
<1>4. 0 \in G
  BY <1>2
<1>5. ASSUME NEW n \in 1 .. N, n - 1 \in G PROVE n \in G
  <2> DEFINE k == after[n - 1]
             r == WqDel(k, s, q[n])
  <2>1. /\ n \in 0 .. N /\ n - 1 \in 0 .. N /\ k \in Queues /\ Good(k, n - 1)
        /\ q[n] \in Threads /\ q[n] \in R /\ w[q[n]] = s /\ after[n] = r
    BY <1>2, <1>3, <1>5
  <2>2. Gone(n) = Gone(n - 1) \union {q[n]} /\ q[n] \notin Gone(n - 1)
    <3>1. \A i \in 1 .. n - 1 : i \in 1 .. Len(q) /\ i < n
      BY <1>2
    <3> QED
      BY <1>2, <3>1
  <2> HIDE DEF k, Gone, R
  <2>3. q[n] \in Reach(k, s)
    BY <2>1, <2>2
  <2>4. Tidy(r, w)
    BY <2>1, WqDelTidy
  <2>5. Reach(k, s) \ {q[n]} \subseteq Reach(r, s)
    BY <2>1, <2>3, ReachDel
  <2> HIDE DEF r
  <2>6. Good(r, n)
    BY <2>1, <2>2, <2>4, <2>5
  <2> QED
    BY <2>1, <2>6
<1> HIDE DEF G, N
<1>6. \A n \in 0 .. N : n \in G
  BY <1>2, <1>4, <1>5, Upwards DEF N
<1>7. Good(after[N], N)
  BY <1>2, <1>6 DEF G, N
<1> QED
  BY <1>2, <1>7 DEF N

(* A notification of one thread leaves it the first of the queue.            *)
LEMMA FirstWoken ==
  ASSUME queue \in Queues, NEW w, Tidy(queue, w), NEW s \in Sections, NEW i, FirstWaiting(s, i)
  PROVE  Purged(s, SubSeq(Queued(s), 1, i)).first[s] = Queued(s)[i]
<1> DEFINE q == Queued(s)
           p == SubSeq(q, 1, i)
           L == Leavers(p)
           r == DelAll(s, L)
<1>1. /\ q \in Seq(Threads) /\ Len(q) \in Nat /\ i \in 1 .. Len(q)
      /\ \A j \in 1 .. Len(q) : j < i => ~Waiting(q[j])
      /\ \A j \in 1 .. Len(q) : w[q[j]] = s
  <2>1. q \in Seq(Threads) /\ ToSet(q) = Reach(queue, s)
    BY QueuedReach
  <2>2. \A j \in 1 .. Len(q) : w[q[j]] = s
    <3> HIDE DEF q
    <3> QED
      BY <2>1, Members, ReachAt
  <2> QED
    BY <2>1, <2>2 DEF FirstWaiting
<1>2. r.first[s] \in {q[j] : j \in 1 .. i}
  BY FirstStays DEF Purged
<1> HIDE DEF q
<1>3. p \in Seq(Threads) /\ Len(p) = i /\ \A j \in 1 .. i : p[j] = q[j] /\ q[j] \in Threads
  BY <1>1
<1> HIDE DEF p
<1>4. ToSet(p) = {q[j] : j \in 1 .. i}
  BY <1>3, Members
<1>5. L \in Seq(Threads) /\ ToSet(L) = ToSet(p) \ {t \in Threads : Waiting(t)}
  BY <1>3, WithoutOK DEF Leavers
<1> HIDE DEF L
<1>6. \A x \in ToSet(L) : w[x] = s
  BY <1>1, <1>4, <1>5
<1>7. \A x \in Threads : x \in ToSet(L) => Out(r, x)
  BY <1>5, <1>6, DelAllTidy
<1>8. r.first[s] = q[i]
  <2>1. PICK j \in 1 .. i : r.first[s] = q[j]
    BY <1>2
  <2>2. ~(q[j] \in ToSet(L))
    BY <1>3, <1>7, <2>1 DEF Out
  <2>3. Waiting(q[j])
    BY <1>3, <1>4, <1>5, <2>2
  <2>4. j = i
    BY <1>1, <2>3
  <2> QED
    BY <2>1, <2>4
<1> QED
  BY <1>8 DEF Purged, L, p, q, r

--------------------------------------------------------------------------------
(* What a queue is needed for.  A thread that was notified is without links   *)
(* when it runs again, because the one that has notified it takes it out      *)
(* before it leaves the section.                                             *)
Takes(u, x) ==
  /\ pc[u] \in {"woken", "refill"} /\ using[u] = using[x]
  /\ IF kind \in {"semaphore", "buffer"} THEN queue.first[using[u]] = x
     ELSE x \in Reach(queue, using[u])

(* No thread that was notified stays in a queue once the section is left.    *)
Released == \A x \in Threads : WokenBySet(x) => Out(queue, x) \/ \E u \in Threads : Takes(u, x)

(* The types of what a wait leaves behind.                                   *)
WaitTypes ==
  /\ delayed \in [Threads -> {"none", "wake"}]
  /\ waitResult \in [Threads -> {"ok", "timeout", "cancelled"}]

(* The inductive invariant of the wait queues.                               *)
LineInv == SectionsInv /\ Tidy(queue, Where) /\ Released /\ WaitTypes

(* A thread keeps its place in the queues ...                                *)
Placed(u) ==
  \/ pc'[u] = pc[u] /\ using'[u] = using[u]
  \/ pc[u] \notin AtQueue \union {"woken", "refill"} /\ pc'[u] \notin AtQueue
  \/ pc[u] \in AtQueue /\ pc'[u] \in AtQueue /\ using'[u] = using[u]

(* ... and is not notified.                                                  *)
Steady ==
  /\ queue' = queue /\ kind' = kind /\ WaitTypes'
  /\ \A u \in Threads : Placed(u) /\ (WokenBySet(u)' => WokenBySet(u))

(* The threads stay where they are ...                                       *)
LEMMA PlacedWhere ==
  ASSUME \A u \in Threads : Placed(u)
  PROVE  Where' = Where
<1>1. \A u \in Threads : (IF pc'[u] \in AtQueue THEN using'[u] ELSE None)
                           = (IF pc[u] \in AtQueue THEN using[u] ELSE None)
  BY DEF Placed
<1> QED
  BY <1>1 DEF Where

(* ... and the invariant is kept: most steps are of this kind.               *)
LEMMA SteadyStep ==
  ASSUME LineInv, Steady, SectionsInv'
  PROVE  LineInv'
<1>1. Where' = Where /\ queue' = queue
  BY PlacedWhere DEF Steady
<1>2. Tidy(queue, Where)'
  BY <1>1 DEF LineInv, Tidy
<1>3. ASSUME NEW x \in Threads, WokenBySet(x)'
      PROVE  Out(queue', x) \/ \E u \in Threads : Takes(u, x)'
  <2>1. WokenBySet(x) /\ Placed(x)
    BY <1>3 DEF Steady
  <2>2. pc[x] = "result" /\ pc'[x] = "result" /\ using'[x] = using[x]
    BY <1>3, <2>1 DEF WokenBySet, Placed, AtQueue
  <2>3. CASE Out(queue, x)
    BY <1>1, <2>3
  <2>4. ASSUME NEW u \in Threads, Takes(u, x) PROVE Takes(u, x)'
    <3>1. Placed(u) /\ kind' = kind
      BY DEF Steady
    <3>2. pc'[u] = pc[u] /\ using'[u] = using[u]
      BY <2>4, <3>1 DEF Placed, Takes, AtQueue
    <3> QED
      BY <1>1, <2>2, <2>4, <3>1, <3>2 DEF Takes
  <2> QED
    BY <2>1, <2>3, <2>4 DEF LineInv, Released
<1>4. Released'
  BY <1>3 DEF Released
<1> QED
  BY <1>2, <1>4 DEF LineInv, Steady

(* A thread that waits in a queue is entering its section, for the kernel.    *)
LEMMA WaitsEntering ==
  ASSUME SectionsInv, NEW x \in Threads, pc[x] = "result", entering[x] = None
  PROVE  ~Waiting(x)
<1>1. using[x] \in Sections /\ owner[using[x]] = x /\ x # None
  <2>1. InLibrary(x) /\ using[x] \in Section0 /\ pc[x] # "idle"
    BY DEF SectionsInv, LibraryTypes
  <2> QED
    BY <2>1, ThreadsAssumption DEF InLibrary, Section0
<1>2. Owns(x, using[x])
  BY <1>1 DEF SectionsInv, Owners
<1> QED
  BY <1>2 DEF Owns, Waiting

(* A step of the library outside of the queues.                              *)
LEMMA StepSteady ==
  ASSUME LineInv, NEW t \in Threads, NEW from, NEW to, Step(t, from, to),
         from \notin AtQueue \union {"woken", "refill"}, to \notin AtQueue,
         queue' = queue, kind' = kind, \A u \in Threads \ {t} : using'[u] = using[u]
  PROVE  Steady
<1>1. /\ pc[t] = from /\ pc' = [pc EXCEPT ![t] = to] /\ UNCHANGED <<state, delayed, waitResult>>
      /\ pc \in [Threads -> Places]
  BY DEF Step, GoTo, kernel, LineInv, SectionsInv, LibraryTypes
<1>2. pc'[t] = to /\ \A u \in Threads \ {t} : pc'[u] = pc[u]
  BY <1>1
<1>3. WaitTypes'
  BY <1>1 DEF LineInv, WaitTypes
<1>4. ASSUME NEW u \in Threads PROVE Placed(u) /\ (WokenBySet(u)' => WokenBySet(u))
  <2>1. CASE u = t
    BY <1>1, <1>2, <2>1 DEF Placed, WokenBySet, AtQueue
  <2>2. CASE u # t
    BY <1>1, <1>2, <2>2 DEF Placed, WokenBySet, Waiting
  <2> QED
    BY <2>1, <2>2
<1> QED
  BY <1>3, <1>4 DEF Steady

(* msection_enter, and msection_leave before its call of the kernel.         *)
LEMMA EnterLeaveSteady ==
  ASSUME LineInv, NEW t \in Threads, UNCHANGED kind,
         \/ \E s \in Sections : Enter(t, s)
         \/ Announce(t) \/ Test(t) \/ Claim(t) \/ Entered(t)
         \/ Release(t) \/ Uncount(t) \/ TestFlag(t)
  PROVE  Steady
<1> DEFINE Far(p) == p \notin AtQueue \union {"woken", "refill"}
           Others == \A u \in Threads \ {t} : using'[u] = using[u]
<1>1. using \in [Threads -> Section0]
  BY DEF LineInv, SectionsInv, LibraryTypes
<1>2. ASSUME NEW s \in Sections, Enter(t, s) PROVE Steady
  <2>1. Step(t, "idle", "announce") /\ queue' = queue /\ Others
    BY <1>1, <1>2 DEF Enter
  <2> QED
    BY <2>1, StepSteady DEF AtQueue
<1>3. CASE Announce(t)
  <2>1. Step(t, "announce", "test") /\ queue' = queue /\ Others
    BY <1>3 DEF Announce
  <2> QED
    BY <2>1, StepSteady DEF AtQueue
<1>4. CASE Test(t)
  <2>1. PICK to \in {"claim", "entered", "help"} : Step(t, "test", to) /\ queue' = queue /\ Others
    <3> DEFINE to == CASE owner[using[t]] = None -> "claim"
                       [] owner[using[t]] = t -> "entered"
                       [] OTHER -> "help"
    <3>1. to \in {"claim", "entered", "help"}
      OBVIOUS
    <3>2. Step(t, "test", to) /\ queue' = queue /\ Others
      BY <1>4 DEF Test
    <3> HIDE DEF to
    <3> QED
      BY <3>1, <3>2
  <2>2. "test" \notin AtQueue \union {"woken", "refill"} /\ to \notin AtQueue
    BY DEF AtQueue
  <2> QED
    BY <2>1, <2>2, StepSteady
<1>5. CASE Claim(t)
  <2>1. Step(t, "claim", "entered") /\ queue' = queue /\ Others
    BY <1>5 DEF Claim
  <2> QED
    BY <2>1, StepSteady DEF AtQueue
<1>6. CASE Entered(t)
  <2>1. Step(t, "entered", "body") /\ queue' = queue /\ Others
    BY <1>6 DEF Entered
  <2> QED
    BY <2>1, StepSteady DEF AtQueue
<1>7. CASE Release(t)
  <2>1. Step(t, "release", "uncount") /\ queue' = queue /\ Others
    BY <1>7 DEF Release
  <2> QED
    BY <2>1, StepSteady DEF AtQueue
<1>8. CASE Uncount(t)
  <2>1. PICK to \in {"resched", "testFlag"} : Step(t, "uncount", to) /\ queue' = queue /\ Others
    <3> DEFINE to == IF MustStop(t) THEN "resched" ELSE "testFlag"
    <3>1. to \in {"resched", "testFlag"}
      OBVIOUS
    <3>2. Step(t, "uncount", to) /\ queue' = queue /\ Others
      BY <1>8 DEF Uncount
    <3> HIDE DEF to
    <3> QED
      BY <3>1, <3>2
  <2>2. "uncount" \notin AtQueue \union {"woken", "refill"} /\ to \notin AtQueue
    BY DEF AtQueue
  <2> QED
    BY <2>1, <2>2, StepSteady
<1>9. CASE TestFlag(t)
  <2>1. PICK to \in {"resched", "idle"} : Step(t, "testFlag", to) /\ queue' = queue /\ Others
    <3> DEFINE to == IF reschedAfterLeave[using[t]] THEN "resched" ELSE "idle"
    <3>1. to \in {"resched", "idle"}
      OBVIOUS
    <3>2. Step(t, "testFlag", to) /\ queue' = queue /\ Others
      BY <1>1, <1>9 DEF TestFlag
    <3> HIDE DEF to
    <3> QED
      BY <3>1, <3>2
  <2>2. "testFlag" \notin AtQueue \union {"woken", "refill"} /\ to \notin AtQueue
    BY DEF AtQueue
  <2> QED
    BY <2>1, <2>2, StepSteady
<1> QED
  BY <1>2, <1>3, <1>4, <1>5, <1>6, <1>7, <1>8, <1>9

(* A step that wakes up nobody at a queue.                                    *)
LEMMA KeptSteady ==
  ASSUME LineInv, queue' = queue, kind' = kind, waitResult' = waitResult,
         delayed' \in [Threads -> {"none", "wake"}],
         \A v \in Threads : Placed(v),
         \A v \in Threads : pc'[v] = "result" => pc[v] = "result" /\ (Waiting(v) => state'[v] = "waiting")
  PROVE  Steady
<1>1. WaitTypes'
  BY DEF LineInv, WaitTypes
<1>2. ASSUME NEW v \in Threads, WokenBySet(v)' PROVE WokenBySet(v)
  BY <1>2 DEF WokenBySet, Waiting
<1> QED
  BY <1>1, <1>2 DEF Steady

(* The same for a step in which nobody moves.                                *)
LEMMA UnmovedSteady ==
  ASSUME LineInv, queue' = queue, kind' = kind, waitResult' = waitResult,
         delayed' \in [Threads -> {"none", "wake"}], pc' = pc, using' = using,
         \A v \in Threads : pc[v] = "result" /\ Waiting(v) => state'[v] = "waiting"
  PROVE  Steady
<1>1. \A v \in Threads : Placed(v)
  BY DEF Placed
<1> QED
  BY <1>1, KeptSteady

(* The threads woken up are not notified.                                    *)
LEMMA WakeSteady ==
  ASSUME LineInv, queue' = queue, kind' = kind, pc' = pc, using' = using,
         NEW q \in Seq(Threads), NEW result \in {"timeout", "cancelled"}, NEW force,
         WakeUp(q, result, force)
  PROVE  Steady
<1>1. /\ state' = [v \in Threads |-> IF v \in ToSet(q) THEN "runnable" ELSE state[v]]
      /\ delayed' = [v \in Threads |-> IF v \in ToSet(q) THEN "none" ELSE delayed[v]]
      /\ waitResult' = [v \in Threads |->
                          IF v \in ToSet(q) /\ entering[v] # None THEN result ELSE waitResult[v]]
  BY DEF WakeUp
<1>2. WaitTypes'
  <2>1. WaitTypes
    BY DEF LineInv
  <2>2. delayed' \in [Threads -> {"none", "wake"}]
    BY <1>1, <2>1 DEF WaitTypes
  <2>3. waitResult' \in [Threads -> {"ok", "timeout", "cancelled"}]
    BY <1>1, <2>1 DEF WaitTypes
  <2> QED
    BY <2>2, <2>3 DEF WaitTypes
<1>3. ASSUME NEW v \in Threads, WokenBySet(v)' PROVE WokenBySet(v)
  <2>1. pc[v] = "result" /\ waitResult'[v] = "ok" /\ state'[v] # "waiting"
    BY <1>3 DEF WokenBySet, Waiting
  <2>2. CASE v \notin ToSet(q)
    BY <1>1, <2>1, <2>2 DEF WokenBySet, Waiting
  <2>3. CASE v \in ToSet(q)
    <3>1. entering[v] = None /\ waitResult[v] = "ok"
      BY <1>1, <2>1, <2>3
    <3> QED
      BY <2>1, <3>1, WaitsEntering DEF LineInv, WokenBySet
  <2> QED
    BY <2>2, <2>3
<1>4. \A v \in Threads : Placed(v)
  BY DEF Placed
<1> QED
  BY <1>2, <1>3, <1>4 DEF Steady

(* jet_msection_enter_helper.                                                *)
LEMMA HelpSteady ==
  ASSUME LineInv, NEW t \in Threads, Help(t), UNCHANGED kind
  PROVE  Steady
<1>1. /\ pc[t] = "help" /\ pc' = [pc EXCEPT ![t] = "entered"]
      /\ UNCHANGED <<state, delayed, waitResult, using, queue>>
      /\ pc \in [Threads -> Places]
  BY DEF Help, GoTo, LineInv, SectionsInv, LibraryTypes
<1>2. \A v \in Threads : pc'[v] = IF v = t THEN "entered" ELSE pc[v]
  BY <1>1
<1>3. \A v \in Threads : Placed(v)
  BY <1>1, <1>2 DEF Placed, AtQueue
<1>4. \A v \in Threads : pc'[v] = "result" => pc[v] = "result" /\ (Waiting(v) => state'[v] = "waiting")
  BY <1>1, <1>2 DEF Waiting
<1>5. delayed' \in [Threads -> {"none", "wake"}]
  BY <1>1 DEF LineInv, WaitTypes
<1> QED
  BY <1>1, <1>3, <1>4, <1>5, KeptSteady

(* jet_msection_wait.                                                        *)
LEMMA WaitSteady ==
  ASSUME LineInv, NEW t \in Threads, NEW timed, WaitDenied(t) \/ WaitCancelled(t) \/ Wait(t, timed),
         UNCHANGED kind
  PROVE  Steady
<1>1. /\ pc[t] = "wait" /\ UNCHANGED <<using, queue>> /\ pc \in [Threads -> Places]
      /\ state \in [Threads -> {"stopped", "runnable", "waiting"}] /\ WaitTypes
  BY DEF WaitDenied, WaitCancelled, Wait, Step, GoTo, LineInv, SectionsInv, LibraryTypes, KernelTypes
<1>2. PICK to \in {"denied", "result"} : pc' = [pc EXCEPT ![t] = to]
  BY DEF WaitDenied, WaitCancelled, Wait, Step, GoTo
<1>3. \A v \in Threads : pc'[v] = IF v = t THEN to ELSE pc[v]
  BY <1>1, <1>2
<1>4. \A v \in Threads : Placed(v)
  BY <1>1, <1>3 DEF Placed, AtQueue
<1>5. CASE WaitDenied(t)
  <2>1. pc' = [pc EXCEPT ![t] = "denied"] /\ UNCHANGED <<state, delayed, waitResult>>
    BY <1>5 DEF WaitDenied, Step, GoTo, kernel
  <2>2. \A v \in Threads : pc'[v] = "result" => pc[v] = "result" /\ (Waiting(v) => state'[v] = "waiting")
    BY <1>1, <2>1 DEF Waiting
  <2> QED
    BY <1>1, <1>4, <2>1, <2>2, KeptSteady DEF WaitTypes
<1>6. CASE WaitCancelled(t)
  <2>1. waitResult' = [waitResult EXCEPT ![t] = "cancelled"] /\ UNCHANGED <<state, delayed>>
    BY <1>6 DEF WaitCancelled
  <2>2. WaitTypes'
    BY <1>1, <2>1 DEF WaitTypes
  <2>3. \A v \in Threads : WokenBySet(v)' => WokenBySet(v)
    BY <1>1, <1>3, <2>1 DEF WokenBySet, Waiting, WaitTypes
  <2> QED
    BY <1>1, <1>4, <2>2, <2>3 DEF Steady
<1>7. CASE Wait(t, timed)
  <2>1. /\ waitResult' = waitResult /\ state' = [state EXCEPT ![t] = "waiting"]
        /\ delayed' = [delayed EXCEPT ![t] = IF timed THEN "wake" ELSE "none"]
    BY <1>7 DEF Wait
  <2>2. WaitTypes'
    BY <1>1, <2>1 DEF WaitTypes
  <2>3. \A v \in Threads : WokenBySet(v)' => WokenBySet(v)
    BY <1>1, <1>3, <2>1 DEF WokenBySet, Waiting
  <2> QED
    BY <1>1, <1>4, <2>2, <2>3 DEF Steady
<1> QED
  BY <1>5, <1>6, <1>7

(* Threads that go out of the library, of which some stop, are not in it yet  *)
(* or are leaving it.                                                        *)
LEMMA OutSteady ==
  ASSUME LineInv, queue' = queue, kind' = kind, waitResult' = waitResult, NEW S, NEW X, GoOut(S),
         \A v \in Threads : v \in S => pc[v] \in Outside,
         \A v \in Threads : v \notin S => state'[v] = state[v],
         delayed' = delayed \/ delayed' = DelayedWithout(X)
  PROVE  Steady
<1>1. \A v \in Threads : /\ pc'[v] = IF v \in S THEN "idle" ELSE pc[v]
                         /\ using'[v] = IF v \in S THEN None ELSE using[v]
  BY DEF GoOut
<1>2. \A v \in Threads : Placed(v)
  BY <1>1 DEF Placed, AtQueue, Outside
<1>3. \A v \in Threads : pc'[v] = "result" => pc[v] = "result" /\ (Waiting(v) => state'[v] = "waiting")
  BY <1>1 DEF Waiting
<1>4. delayed' \in [Threads -> {"none", "wake"}]
  BY DEF DelayedWithout, LineInv, WaitTypes
<1> QED
  BY <1>2, <1>3, <1>4, KeptSteady

(* jet_resched.                                                              *)
LEMMA RescheduleSteady ==
  ASSUME LineInv, NEW t \in Threads, Reschedule(t), UNCHANGED <<partition, kind>>
  PROVE  Steady
<1>1. pc[t] = "resched" /\ GoOut({t} \union Stopped) /\ queue' = queue /\ SectionsInv
  BY DEF Reschedule, LineInv
<1>2. CASE ReschedStays(t)
  <2>1. UNCHANGED <<state, delayed, waitResult>>
    BY <1>2 DEF ReschedStays
  <2>2. \A v \in Threads : v \in {t} \union Stopped => pc[v] \in Outside
    BY <1>1, <2>1 DEF Stopped, SectionsInv, InLibrary, Outside
  <2> QED
    BY <1>1, <2>1, <2>2, OutSteady
<1>3. CASE ReschedStops(t)
  <2>1. ReschedKernel(t)
    BY <1>1, <1>3, ReschedIs
  <2>2. StopAll(Stopping(t), Freed \/ selected \in Going(t))
    BY <2>1 DEF ReschedKernel
  <2>3. /\ \A v \in Threads : state'[v] = IF v \in Stopping(t) THEN "stopped" ELSE state[v]
        /\ waitResult' = waitResult /\ delayed' = DelayedWithout(Stopping(t))
    BY <2>2 DEF StopAll
  <2>4. \A v \in Stopping(t) : v \in Threads /\ pc[v] \in Outside
    BY <1>1, GoingIdle DEF Outside
  <2>5. \A v \in Threads : v \in {t} \union Stopped => pc[v] \in Outside
    BY <1>1, <2>3, <2>4 DEF Stopped, SectionsInv, InLibrary, Outside
  <2>6. \A v \in Threads : v \notin {t} \union Stopped => state'[v] = state[v]
    BY <2>3 DEF Stopped
  <2> QED
    BY <1>1, <2>3, <2>5, <2>6, OutSteady
<1> QED
  BY <1>2, <1>3 DEF Reschedule

(* The calls about threads: one that waits at a queue goes on only if its     *)
(* wait is cancelled.                                                        *)
LEMMA CallUnmoved ==
  ASSUME LineInv, NEW t \in Threads, Outer(t),
         \A v \in Threads : state'[v] = "stopped" => state[v] = "stopped"
  PROVE  pc' = pc /\ using' = using /\ queue' = queue /\ kind' = kind
BY GoOutNobody DEF LineInv, Outer

(* STOP, now or after the section of the thread.                             *)
LEMMA StopSteady ==
  ASSUME LineInv, NEW t \in Threads, NEW u \in Threads, Stop(t, u), Outer(t)
  PROVE  Steady
<1>1. /\ SectionsInv /\ WaitTypes /\ queue' = queue /\ kind' = kind /\ GoOut(Stopped)
      /\ state \in [Threads -> {"stopped", "runnable", "waiting"}]
  BY DEF LineInv, Outer, SectionsInv, KernelTypes
<1>2. CASE StopNow(t, u)
  <2>1. ~(msectionCount[u] > 0) /\ StopAll({u}, FALSE)
    BY <1>2 DEF StopNow, InSection
  <2>2. /\ \A v \in Threads : state'[v] = IF v \in {u} THEN "stopped" ELSE state[v]
        /\ waitResult' = waitResult /\ delayed' = DelayedWithout({u})
    BY <2>1 DEF StopAll
  <2>3. pc[u] \in Outside
    <3>1. InLibrary(u) /\ ~(1 = 0)
      BY <1>1 DEF SectionsInv
    <3> QED
      BY <2>1, <3>1 DEF InLibrary
  <2>4. \A v \in Threads : v \in Stopped => pc[v] \in Outside
    BY <1>1, <2>2, <2>3 DEF Stopped, SectionsInv, InLibrary, Outside
  <2>5. \A v \in Threads : v \notin Stopped => state'[v] = state[v]
    BY <2>2 DEF Stopped
  <2> QED
    BY <1>1, <2>2, <2>4, <2>5, OutSteady
<1>3. CASE StopLater(t, u)
  <2> DEFINE woken == IF state[u] = "waiting" THEN <<u>> ELSE <<>>
  <2>1. WakeUp(woken, "cancelled", TRUE) /\ woken \in Seq(Threads)
    <3>1. WakeUp(woken, "cancelled", TRUE)
      BY <1>3 DEF StopLater
    <3>2. woken \in Seq(Threads)
      OBVIOUS
    <3> QED
      BY <3>1, <3>2
  <2> HIDE DEF woken
  <2>2. \A v \in Threads : state'[v] = "stopped" => state[v] = "stopped"
    BY <2>1 DEF WakeUp
  <2>3. pc' = pc /\ using' = using
    BY <2>2, CallUnmoved
  <2> QED
    BY <1>1, <2>1, <2>3, WakeSteady
<1>4. CASE StopDonator(t, u) \/ StopAgain(t, u)
  <2>1. UNCHANGED <<state, delayed, waitResult>>
    BY <1>4 DEF StopDonator, StopAgain
  <2>2. pc' = pc /\ using' = using
    BY <2>1, CallUnmoved
  <2> QED
    BY <1>1, <2>1, <2>2, UnmovedSteady DEF WaitTypes, Waiting
<1> QED
  BY <1>2, <1>3, <1>4 DEF Stop

(* A call of the thread services moves nobody in a queue.                    *)
LEMMA CallSteady ==
  ASSUME LineInv, NEW t \in Threads, ThreadCall(t), UNCHANGED partition
  PROVE  Steady
<1>1. Outer(t) /\ pc[t] = "idle"
  BY DEF ThreadCall, Keep, objects, Outer
<1>2. /\ SectionsInv /\ WaitTypes /\ state \in [Threads -> {"stopped", "runnable", "waiting"}]
  BY DEF LineInv, SectionsInv, KernelTypes
<1>3. ASSUME waitResult' = waitResult, delayed' \in [Threads -> {"none", "wake"}],
             \A v \in Threads : /\ state'[v] = "stopped" => state[v] = "stopped"
                                /\ pc[v] = "result" /\ Waiting(v) => state'[v] = "waiting"
      PROVE  Steady
  BY <1>1, <1>3, CallUnmoved, UnmovedSteady
<1>4. CASE Sleep(t)
  <2>1. PICK event \in {"wake", "none"} : WaitUntil(t, event)
    BY <1>4 DEF Sleep
  <2>2. delayed' \in [Threads -> {"none", "wake"}]
    BY <1>2, <2>1 DEF WaitUntil, WaitTypes
  <2>3. \A v \in Threads : /\ state'[v] = "stopped" => state[v] = "stopped"
                           /\ pc[v] = "result" /\ Waiting(v) => state'[v] = "waiting"
    BY <1>2, <2>1 DEF WaitUntil, Waiting
  <2>4. waitResult' = waitResult
    BY <2>1 DEF WaitUntil
  <2> QED
    BY <1>3, <2>2, <2>3, <2>4
<1>5. CASE Lock(t) \/ Unlock(t)
  <2>1. UNCHANGED <<state, delayed, waitResult>>
    BY <1>5 DEF Lock, Unlock
  <2> QED
    BY <1>2, <1>3, <2>1 DEF WaitTypes, Waiting
<1>6. ASSUME NEW u \in Threads, Stop(t, u) PROVE Steady
  BY <1>1, <1>6, StopSteady
<1>7. ASSUME NEW u \in Threads, Start(t, u, FALSE) PROVE Steady
  <2>1. /\ state[u] = "stopped" /\ state' = [state EXCEPT ![u] = "runnable"]
        /\ UNCHANGED <<delayed, waitResult>>
    BY <1>7 DEF Start
  <2>2. \A v \in Threads : /\ state'[v] = "stopped" => state[v] = "stopped"
                           /\ pc[v] = "result" /\ Waiting(v) => state'[v] = "waiting"
    BY <1>2, <2>1 DEF Waiting
  <2> QED
    BY <1>2, <1>3, <2>1, <2>2 DEF WaitTypes
<1>8. ASSUME NEW u \in Threads, NEW p \in Priorities, SetPriority(t, u, p) PROVE Steady
  <2>1. UNCHANGED <<state, delayed, waitResult>>
    BY <1>8 DEF SetPriority
  <2> QED
    BY <1>2, <1>3, <2>1 DEF WaitTypes, Waiting
<1>9. ASSUME NEW u \in Threads, Suspend(t, u) \/ Resume(t, u) PROVE Steady
  <2>1. delayed[u] # "resume"
    BY <1>2 DEF WaitTypes
  <2>2. UNCHANGED <<state, delayed, waitResult>>
    BY <1>9, <2>1 DEF Suspend, Resume
  <2> QED
    BY <1>2, <1>3, <2>2 DEF WaitTypes, Waiting
<1> QED
  BY <1>4, <1>5, <1>6, <1>7, <1>8, <1>9 DEF ThreadCall

(* The time of a thread is over; an event comes; a thread is selected.       *)
LEMMA KernelSteady ==
  ASSUME LineInv, UNCHANGED partition, \/ \E t \in Threads : ExpireNext(t)
                                       \/ Event \/ SelectNext
  PROVE  Steady
<1>1. /\ SectionsInv /\ WaitTypes /\ state \in [Threads -> {"stopped", "runnable", "waiting"}]
      /\ pc' = pc /\ using' = using /\ queue' = queue /\ kind' = kind
  BY DEF LineInv, SectionsInv, KernelTypes, ExpireNext, Event, SelectNext, library, Keep, objects
<1>2. ASSUME NEW t \in Threads, ExpireNext(t) PROVE Steady
  <2>1. delayed[t] # "resume"
    BY <1>1 DEF WaitTypes
  <2>2. WakeUp(<<t>>, "timeout", FALSE)
    BY <1>2, <2>1 DEF ExpireNext, Expire
  <2>3. <<t>> \in Seq(Threads)
    OBVIOUS
  <2> QED
    BY <1>1, <2>2, <2>3, WakeSteady
<1>3. CASE Event \/ SelectNext
  <2>1. UNCHANGED <<delayed, waitResult>>
    BY <1>3 DEF Event, SelectNext, Interrupt, Select
  <2>2. \A v \in Threads : state'[v] = state[v]
    <3>1. handler = None
      BY <1>1 DEF SectionsInv, KernelTypes
    <3>2. CASE Event
      BY <3>2 DEF Event, Interrupt
    <3>3. CASE SelectNext
      <4>1. state' = state \/ state' = [v \in Threads |-> IF isErrorHandler' /\ v = handler THEN "runnable"
                                                          ELSE state[v]]
        BY <3>3 DEF SelectNext, Select
      <4> QED
        BY <3>1, <4>1, ThreadsAssumption
    <3> QED
      BY <1>3, <3>2, <3>3
  <2> QED
    BY <1>1, <2>1, <2>2, UnmovedSteady DEF WaitTypes, Waiting
<1> QED
  BY <1>2, <1>3

--------------------------------------------------------------------------------
(* The owner of a section changes its queue: the threads that left it were    *)
(* needed by this owner at most.                                             *)
AtSection(t, s, v) ==
  /\ Runs(t) /\ pc[t] \in Inside \union {"result"} /\ using[t] = s
  /\ using' = using /\ kind' = kind /\ \A u \in Threads \ {t} : pc'[u] = pc[u]
  /\ queue' \in Queues /\ Tidy(queue', Where') /\ Aside(queue, queue', s, v)
  /\ \A y \in Threads \ {t} : v[y] = Where[y] /\ (Out(queue, y) => Out(queue', y))

(* Only the owner of a section has threads of its queue to take out.         *)
LEMMA TakesOwner ==
  ASSUME SectionsInv, NEW t \in Threads, Runs(t), pc[t] \in Inside \union {"result"},
         NEW u \in Threads, NEW x, Takes(u, x), using[x] = using[t]
  PROVE  u = t
<1>1. using[t] \in Sections /\ owner[using[t]] = t
  BY RunsInside
<1>2. owner[using[u]] = u
  BY DEF SectionsInv, InLibrary, Takes, Inside
<1> QED
  BY <1>1, <1>2 DEF Takes

(* The other sections keep their queue.                                      *)
LEMMA ApartKept ==
  ASSUME LineInv, NEW t \in Threads, NEW s, NEW v, AtSection(t, s, v),
         NEW x \in Threads, WokenBySet(x), using[x] # s, pc'[x] = "result"
  PROVE  Out(queue', x) \/ \E u \in Threads : Takes(u, x)'
<1>1. /\ SectionsInv /\ Tidy(queue, Where) /\ s \in Sections /\ x # t /\ queue \in Queues
      /\ pc[x] = "result"
  BY RunsInside DEF LineInv, AtSection, WokenBySet, SectionsInv, LibraryTypes
<1>2. using[x] \in Sections
  BY <1>1, UsesSection
<1>3. CASE Out(queue, x)
  BY <1>1, <1>3 DEF AtSection
<1>4. ASSUME NEW u \in Threads, Takes(u, x) PROVE Takes(u, x)'
  <2>1. u # t /\ using[u] = using[x] /\ pc'[u] = pc[u]
    BY <1>4 DEF Takes, AtSection
  <2> DEFINE z == using[x]
  <2>2. z \in Sections /\ z # s
    BY <1>2
  <2>3. queue'.first[z] = queue.first[z]
    BY <2>2 DEF AtSection, Aside
  <2>4. \A y \in Threads : Where[y] = z => v[y] # s
    <3>1. Where[t] \in {using[t], None} /\ None \notin Sections
      BY ThreadsAssumption DEF Where
    <3>2. Where[t] # z
      BY <2>2, <3>1 DEF AtSection
    <3> QED
      BY <2>2, <3>2 DEF AtSection
  <2> HIDE DEF z
  <2>5. Reach(queue, z) \subseteq Reach(queue', z)
    <3>1. queue' \in Queues /\ Aside(queue, queue', s, v)
      BY DEF AtSection
    <3> QED
      BY <1>1, <2>2, <2>4, <3>1, ReachAside
  <2> QED
    BY <1>4, <2>1, <2>3, <2>5 DEF Takes, AtSection, z
<1> QED
  BY <1>3, <1>4 DEF LineInv, Released

(* What a step of the owner has to show.                                     *)
LEMMA LineAt ==
  ASSUME LineInv, SectionsInv', NEW t \in Threads, NEW s, NEW v, AtSection(t, s, v), WaitTypes',
         \A x \in Threads : WokenBySet(x)' =>
            (WokenBySet(x) /\ using[x] # s) \/ Out(queue', x) \/ Takes(t, x)'
  PROVE  LineInv'
<1>1. ASSUME NEW x \in Threads, WokenBySet(x)' PROVE Out(queue', x) \/ \E u \in Threads : Takes(u, x)'
  <2>1. pc'[x] = "result"
    BY <1>1 DEF WokenBySet
  <2>2. CASE WokenBySet(x) /\ using[x] # s
    BY <2>1, <2>2, ApartKept
  <2>3. CASE Out(queue', x) \/ Takes(t, x)'
    BY <2>3
  <2> QED
    BY <1>1, <2>2, <2>3
<1>2. Released'
  BY <1>1 DEF Released
<1>3. Tidy(queue, Where)'
  BY DEF AtSection
<1> QED
  BY <1>2, <1>3 DEF LineInv

(* If nobody is notified, those that the owner was to take out are out.       *)
LEMMA LineTaken ==
  ASSUME LineInv, SectionsInv', NEW t \in Threads, NEW s, NEW v, AtSection(t, s, v), WaitTypes',
         \A x \in Threads : WokenBySet(x)' => WokenBySet(x) /\ x # t,
         \A x \in Threads : Takes(t, x) => Out(queue', x)
  PROVE  LineInv'
<1>1. ASSUME NEW x \in Threads, WokenBySet(x)', using[x] = s PROVE Out(queue', x)
  <2>1. WokenBySet(x) /\ x # t
    BY <1>1
  <2>2. CASE Out(queue, x)
    BY <2>1, <2>2 DEF AtSection
  <2>3. ASSUME NEW u \in Threads, Takes(u, x) PROVE Out(queue', x)
    <3>1. SectionsInv /\ Runs(t) /\ pc[t] \in Inside \union {"result"} /\ using[x] = using[t]
      BY <1>1 DEF LineInv, AtSection
    <3>2. u = t
      BY <2>3, <3>1, TakesOwner
    <3> QED
      BY <2>3, <3>2
  <2> QED
    BY <2>1, <2>2, <2>3 DEF LineInv, Released
<1> QED
  BY <1>1, LineAt

(* A thread without links comes out of its place.                            *)
LEMMA DropTidy ==
  ASSUME NEW q, NEW w, NEW v, Tidy(q, w), NEW t \in Threads, Out(q, t),
         \A y \in Threads \ {t} : v[y] = w[y]
  PROVE  Tidy(q, v)
<1>1. \A x \in Threads : q.next[x] # t /\ q.prev[x] # t /\ q.next[t] # x /\ q.prev[t] # x
  BY ThreadsAssumption DEF Tidy, Out
<1> QED
  BY <1>1 DEF Tidy, Out

(* A thread is back from its wait.                                           *)
LEMMA BackLine ==
  ASSUME LineInv, NEW t \in Threads, Back(t), SectionsInv'
  PROVE  LineInv'
<1>1. /\ Runs(t) /\ pc[t] \in {"denied", "result"} /\ pc' = [pc EXCEPT ![t] = "release"]
      /\ queue' = (IF LeavesQueue(t) THEN WqDel(queue, using[t], t) ELSE queue)
      /\ waitResult' = [waitResult EXCEPT ![t] = "ok"]
      /\ UNCHANGED <<state, delayed, using, kind>>
  BY DEF Back, Runs, GoTo, KeepBut
<1>2. /\ SectionsInv /\ Tidy(queue, Where) /\ Released /\ WaitTypes /\ queue \in Queues /\ queue' \in Queues
      /\ pc \in [Threads -> Places]
  BY DEF LineInv, SectionsInv, LibraryTypes
<1>3. pc[t] \in Inside \union {"result"} /\ pc[t] \in AtQueue
  BY <1>1 DEF Inside, AtQueue
<1>4. using[t] \in Sections /\ owner[using[t]] = t /\ state[t] = "runnable"
  BY <1>1, <1>2, <1>3, RunsInside
<1> DEFINE s == using[t]
<1>5. \A u \in Threads : pc'[u] = IF u = t THEN "release" ELSE pc[u]
  BY <1>1, <1>2
<1>6. Where[t] = s /\ \A y \in Threads \ {t} : Where'[y] = Where[y]
  BY <1>1, <1>3, <1>5 DEF Where
<1>7. ASSUME NEW x PROVE ~Takes(t, x)
  BY <1>1 DEF Takes
<1>8. /\ Tidy(queue', Where) /\ Out(queue', t) /\ Aside(queue, queue', s, Where)
      /\ \A y \in Threads : Out(queue, y) => Out(queue', y)
  <2>1. CASE LeavesQueue(t)
    <3>1. queue' = WqDel(queue, s, t)
      BY <1>1, <2>1
    <3> QED
      BY <1>2, <1>4, <1>6, <3>1, WqDelTidy
  <2>2. CASE ~LeavesQueue(t)
    <3>1. queue' = queue /\ WokenBySet(t)
      BY <1>1, <1>4, <2>2 DEF LeavesQueue, WokenBySet, Waiting
    <3>2. Out(queue, t)
      <4>1. ASSUME NEW u \in Threads, Takes(u, t) PROVE FALSE
        BY <1>1, <1>2, <1>3, <1>7, <4>1, TakesOwner
      <4> QED
        BY <1>2, <3>1, <4>1 DEF Released
    <3> QED
      BY <1>2, <3>1, <3>2, AsideSame
  <2> QED
    BY <2>1, <2>2
<1> HIDE DEF s
<1>9. Tidy(queue', Where')
  BY <1>6, <1>8, DropTidy
<1>10. AtSection(t, s, Where)
  BY <1>1, <1>2, <1>3, <1>5, <1>8, <1>9 DEF AtSection, s
<1>11. WaitTypes'
  BY <1>1, <1>2 DEF WaitTypes
<1>12. \A x \in Threads : WokenBySet(x)' => WokenBySet(x) /\ x # t
  BY <1>1, <1>2, <1>5 DEF WokenBySet, Waiting, WaitTypes
<1> QED
  BY <1>7, <1>10, <1>11, <1>12, LineTaken

(* A step between two calls of the kernel, or a call that wakes up nobody.    *)
Between(t, from, to) ==
  /\ Runs(t) /\ pc[t] = from /\ pc' = [pc EXCEPT ![t] = to]
  /\ from \in Inside \ AtQueue /\ to \in Inside
  /\ UNCHANGED <<state, delayed, waitResult, using, kind>>

(* Where the threads are before and after such a step,                       *)
LEMMA BetweenPlaces ==
  ASSUME LineInv, NEW t \in Threads, NEW from, NEW to, Between(t, from, to)
  PROVE  /\ \A u \in Threads : pc'[u] = IF u = t THEN to ELSE pc[u]
         /\ \A u \in Threads \ {t} : Where'[u] = Where[u]
         /\ Where[t] = None /\ Where'[t] = (IF to \in AtQueue THEN using[t] ELSE None)
         /\ to \notin AtQueue => Where' = Where
         /\ using[t] \in Sections /\ queue \in Queues /\ Tidy(queue, Where) /\ SectionsInv
<1>1. pc[t] = from /\ pc' = [pc EXCEPT ![t] = to] /\ using' = using /\ pc \in [Threads -> Places] /\ SectionsInv
  BY DEF Between, LineInv, SectionsInv, LibraryTypes
<1>2. \A u \in Threads : pc'[u] = IF u = t THEN to ELSE pc[u]
  BY <1>1
<1>3. from \notin AtQueue /\ from # "idle"
  BY DEF Between, Inside
<1>4. \A u \in Threads \ {t} : Where'[u] = Where[u]
  BY <1>1, <1>2 DEF Where
<1>5. Where[t] = None /\ Where'[t] = (IF to \in AtQueue THEN using[t] ELSE None)
  BY <1>1, <1>2, <1>3 DEF Where
<1>6. to \notin AtQueue => Where' = Where
  <2>1. ASSUME to \notin AtQueue
        PROVE  \A u \in Threads : (IF pc'[u] \in AtQueue THEN using'[u] ELSE None)
                                    = (IF pc[u] \in AtQueue THEN using[u] ELSE None)
    BY <1>1, <1>2, <1>3, <2>1
  <2> QED
    BY <2>1 DEF Where
<1>7. using[t] \in Sections /\ queue \in Queues
  BY <1>1, <1>3, UsesSection
<1> QED
  BY <1>1, <1>2, <1>4, <1>5, <1>6, <1>7 DEF LineInv

(* and what it has to show.                                                  *)
LEMMA BetweenLine ==
  ASSUME LineInv, SectionsInv', NEW t \in Threads, NEW from, NEW to, Between(t, from, to),
         Tidy(queue', Where'), Aside(queue, queue', using[t], Where'),
         \A y \in Threads \ {t} : Out(queue, y) => Out(queue', y),
         \A x \in Threads : Takes(t, x) => Out(queue', x)
  PROVE  LineInv'
<1>1. /\ \A u \in Threads : pc'[u] = IF u = t THEN to ELSE pc[u]
      /\ \A u \in Threads \ {t} : Where'[u] = Where[u]
  BY BetweenPlaces
<1>2. queue' \in Queues
  BY DEF SectionsInv, LibraryTypes
<1>3. AtSection(t, using[t], Where')
  BY <1>1, <1>2 DEF AtSection, Between
<1>4. WaitTypes'
  BY DEF Between, LineInv, WaitTypes
<1>5. \A x \in Threads : WokenBySet(x)' => WokenBySet(x) /\ x # t
  BY <1>1 DEF Between, WokenBySet, Waiting, Inside
<1> QED
  BY <1>3, <1>4, <1>5, LineTaken

(* An operation that waits joins the queue.                                  *)
LEMMA BlockLine ==
  ASSUME LineInv, NEW t \in Threads, NEW discipline, NEW message, Block(t, discipline, message), SectionsInv'
  PROVE  LineInv'
<1>1. Between(t, "body", "wait") /\ queue' = AddToQueue(using[t], t, discipline) /\ pc[t] = "body"
  BY DEF Block, Step, GoTo, kernel, KeepBut, Between, Runs, Inside, AtQueue
<1>2. /\ \A u \in Threads \ {t} : Where'[u] = Where[u]
      /\ Where[t] = None /\ Where'[t] = using[t]
      /\ using[t] \in Sections /\ queue \in Queues /\ Tidy(queue, Where)
  BY <1>1, BetweenPlaces DEF AtQueue
<1> DEFINE v == Where'
<1>3. Where[t] = None /\ v[t] = using[t] /\ \A u \in Threads \ {t} : v[u] = Where[u]
  BY <1>2
<1> HIDE DEF v
<1>4. /\ Tidy(queue', v) /\ Aside(queue, queue', using[t], v)
      /\ \A y \in Threads \ {t} : Out(queue, y) => Out(queue', y)
  BY <1>1, <1>2, <1>3, AddTidy
<1>5. \A x \in Threads : ~Takes(t, x)
  BY <1>1 DEF Takes
<1> QED
  BY <1>1, <1>4, <1>5, BetweenLine DEF v

(* Threads of the queue leave it, in a call that wakes up nobody.            *)
LEMMA DelLine ==
  ASSUME LineInv, SectionsInv', NEW t \in Threads, NEW from, NEW to \in Inside \ AtQueue, Between(t, from, to),
         NEW q \in Seq(Threads), ToSet(q) \subseteq Reach(queue, using[t]), queue' = DelAll(using[t], q),
         \A x \in Threads : Takes(t, x) => x \in ToSet(q)
  PROVE  LineInv'
<1>1. /\ Where' = Where /\ using[t] \in Sections /\ queue \in Queues /\ Tidy(queue, Where)
  BY BetweenPlaces
<1>2. \A x \in ToSet(q) : Where[x] = using[t]
  BY <1>1, ReachAt
<1>3. /\ Tidy(queue', Where) /\ Aside(queue, queue', using[t], Where)
      /\ \A x \in Threads : Out(queue, x) \/ x \in ToSet(q) => Out(queue', x)
  BY <1>1, <1>2, DelAllTidy
<1> QED
  BY <1>1, <1>3, BetweenLine

(* The status of an object.                                                  *)
LEMMA LeaversReached ==
  ASSUME queue \in Queues, NEW w, Tidy(queue, w), NEW s \in Sections, NEW q \in Seq(Threads),
         ToSet(q) \subseteq Reach(queue, s)
  PROVE  /\ Leavers(q) \in Seq(Threads) /\ ToSet(Leavers(q)) = ToSet(q) \ {t \in Threads : Waiting(t)}
         /\ ToSet(Leavers(q)) \subseteq Reach(queue, s)
BY WithoutOK DEF Leavers

(* jet_msection_wq_size takes out those that do not wait.                    *)
LEMMA SizeLine ==
  ASSUME LineInv, NEW t \in Threads, Size(t), UNCHANGED kind, SectionsInv'
  PROVE  LineInv'
<1> DEFINE q == Leavers(Queued(using[t]))
<1>1. Between(t, "body", "release") /\ queue' = DelAll(using[t], q) /\ pc[t] = "body"
  BY DEF Size, SysCall, GoTo, Between, Runs, Inside, AtQueue, Purged
<1>2. using[t] \in Sections /\ queue \in Queues /\ Tidy(queue, Where)
  BY <1>1, BetweenPlaces
<1>3. Queued(using[t]) \in Seq(Threads) /\ ToSet(Queued(using[t])) = Reach(queue, using[t])
  BY <1>2, QueuedReach
<1>4. q \in Seq(Threads) /\ ToSet(q) \subseteq Reach(queue, using[t])
  BY <1>2, <1>3, LeaversReached
<1>5. \A x \in Threads : ~Takes(t, x)
  BY <1>1 DEF Takes
<1> HIDE DEF q
<1>6. "release" \in Inside \ AtQueue
  BY DEF Inside, AtQueue
<1> QED
  BY <1>1, <1>4, <1>5, <1>6, DelLine

(* The first thread of the queue leaves it: it was the one notified.         *)
LEMMA FirstOutLine ==
  ASSUME LineInv, NEW t \in Threads, NEW from \in {"woken", "refill"}, Step(t, from, "release"),
         kind \in {"semaphore", "buffer"}, queue' = FirstOut(t), UNCHANGED <<using, kind>>, SectionsInv'
  PROVE  LineInv'
<1> DEFINE f == queue.first[using[t]]
<1>1. Between(t, from, "release") /\ queue' = WqDel(queue, using[t], f) /\ pc[t] = from
  BY DEF Step, GoTo, kernel, Between, Runs, Inside, AtQueue, FirstOut
<1>2. /\ Where' = Where /\ using[t] \in Sections /\ queue \in Queues /\ Tidy(queue, Where) /\ SectionsInv
  BY <1>1, BetweenPlaces DEF AtQueue
<1>3. f \in Threads /\ Where[f] = using[t]
  <2>1. f # None
    BY <1>1 DEF LineInv, SectionsInv, Awoken
  <2>2. f \in Threads
    BY <1>2, <2>1 DEF Queues, Thread0
  <2> QED
    BY <1>2, <2>2 DEF Tidy
<1>4. \A x \in Threads : Takes(t, x) => x = f
  BY DEF Takes
<1> HIDE DEF f
<1>5. /\ Tidy(queue', Where) /\ Out(queue', f) /\ Aside(queue, queue', using[t], Where)
      /\ \A y \in Threads : Out(queue, y) => Out(queue', y)
  BY <1>1, <1>2, <1>3, WqDelTidy
<1> QED
  BY <1>1, <1>2, <1>4, <1>5, BetweenLine

(* DISPLAY_BLACKBOARD copies the message to all that waited, and they leave.  *)
LEMMA CopyLine ==
  ASSUME LineInv, NEW t \in Threads, Copy(t), kind \notin {"semaphore", "buffer"}, SectionsInv'
  PROVE  LineInv'
<1> DEFINE q == Queued(using[t])
<1>1. Between(t, "woken", "release") /\ queue' = DelAll(using[t], q)
  BY DEF Copy, Step, GoTo, kernel, Between, Runs, Inside, AtQueue, AllOut, KeepBut
<1>2. using[t] \in Sections /\ queue \in Queues /\ Tidy(queue, Where)
  BY <1>1, BetweenPlaces
<1>3. q \in Seq(Threads) /\ ToSet(q) = Reach(queue, using[t])
  BY <1>2, QueuedReach
<1>4. \A x \in Threads : Takes(t, x) => x \in ToSet(q)
  BY <1>3 DEF Takes
<1> HIDE DEF q
<1>5. "release" \in Inside \ AtQueue
  BY DEF Inside, AtQueue
<1> QED
  BY <1>1, <1>3, <1>4, <1>5, DelLine

(* jet_msection_wq_notify: the thread that it passes and that waits is then   *)
(* the first one, or all of them are still in the queue.                     *)
LEMMA LeaversOnce ==
  ASSUME NEW q \in Seq(Threads), OnceEach(q)
  PROVE  OnceEach(Leavers(q))
<1> DEFINE L == Leavers(q)
<1>1. L \in Seq(Threads) /\ \A t, u \in Threads : Before(L, t, u) => Before(q, t, u)
  BY WithoutOK DEF Leavers
<1>2. \A t \in Threads : ~Before(q, t, t)
  BY Members DEF Before, OnceEach
<1> HIDE DEF L
<1>3. \A i, j \in 1 .. Len(L) : i < j => L[i] # L[j]
  BY <1>1, <1>2, Members DEF Before
<1> QED
  BY <1>3 DEF OnceEach, L

(* The thread that is woken up is still in the queue.                        *)
LEMMA NotifiedStays ==
  ASSUME queue \in Queues, NEW w, Tidy(queue, w), NEW s \in Sections, NEW all \in BOOLEAN,
         NEW x \in Threads, x \in ToSet(Passed(s, all)), Waiting(x)
  PROVE  IF all THEN x \in Reach(Purged(s, Passed(s, all)), s)
                ELSE Purged(s, Passed(s, all)).first[s] = x
<1> DEFINE q == Queued(s)
<1>1. q \in Seq(Threads) /\ Len(q) \in Nat /\ ToSet(q) = Reach(queue, s) /\ OnceEach(q)
  BY QueuedReach, QueuedOK
<1>2. CASE all
  <2>1. Passed(s, all) = q
    BY <1>2 DEF Passed
  <2> HIDE DEF q
  <2>2. /\ Leavers(q) \in Seq(Threads) /\ ToSet(Leavers(q)) \subseteq Reach(queue, s)
        /\ x \notin ToSet(Leavers(q)) /\ OnceEach(Leavers(q)) /\ x \in Reach(queue, s)
    <3>1. /\ Leavers(q) \in Seq(Threads) /\ ToSet(Leavers(q)) \subseteq Reach(queue, s)
          /\ ToSet(Leavers(q)) = ToSet(q) \ {t \in Threads : Waiting(t)}
      BY <1>1, LeaversReached
    <3> QED
      BY <1>1, <2>1, <3>1, LeaversOnce
  <2>3. x \in Reach(DelAll(s, Leavers(q)), s)
    BY <2>2, DelAllReach
  <2> QED
    BY <1>2, <2>1, <2>3 DEF Purged
<1>3. CASE ~all
  <2>1. PICK j \in 1 .. Len(Passed(s, all)) : Passed(s, all)[j] = x
    BY PassedTyped, Members
  <2>2. PICK i \in 1 .. Len(q) : FirstWaiting(s, i) /\ Passed(s, all) = SubSeq(q, 1, i)
    BY <1>3, <2>1, PassedOK
  <2> HIDE DEF q
  <2>3. j \in 1 .. Len(q) /\ j <= i /\ q[j] = x
    <3>1. Len(SubSeq(q, 1, i)) = i /\ \A k \in 1 .. i : SubSeq(q, 1, i)[k] = q[k]
      BY <1>1
    <3> QED
      BY <1>1, <2>1, <2>2, <3>1
  <2>4. j = i
    BY <1>1, <2>2, <2>3 DEF FirstWaiting, q
  <2>5. Purged(s, SubSeq(q, 1, i)).first[s] = q[i]
    BY <2>2, FirstWoken DEF q
  <2> QED
    BY <1>3, <2>2, <2>3, <2>4, <2>5
<1> QED
  BY <1>2, <1>3

(* The threads passed are in the queue.                                      *)
LEMMA PassedReach ==
  ASSUME queue \in Queues, NEW w, Tidy(queue, w), NEW s \in Sections, NEW all \in BOOLEAN
  PROVE  Passed(s, all) \in Seq(Threads) /\ ToSet(Passed(s, all)) \subseteq Reach(queue, s)
<1> DEFINE q == Queued(s)
<1>1. q \in Seq(Threads) /\ Len(q) \in Nat /\ ToSet(q) = Reach(queue, s)
  BY QueuedReach, QueuedOK
<1>2. Passed(s, all) = q \/ \E i \in 1 .. Len(q) : Passed(s, all) = SubSeq(q, 1, i)
  BY PassedOK
<1>3. ASSUME NEW i \in 1 .. Len(q) PROVE ToSet(SubSeq(q, 1, i)) \subseteq ToSet(q)
  <2> HIDE DEF q
  <2> DEFINE p == SubSeq(q, 1, i)
  <2>1. p \in Seq(Threads) /\ Len(p) = i /\ \A k \in 1 .. i : p[k] = q[k] /\ k \in 1 .. Len(q)
    BY <1>1
  <2> HIDE DEF p
  <2>2. ToSet(p) = {p[k] : k \in 1 .. i} /\ ToSet(q) = {q[k] : k \in 1 .. Len(q)}
    BY <1>1, <2>1, Members
  <2>3. ToSet(p) \subseteq ToSet(q)
    BY <2>1, <2>2
  <2> QED
    BY <2>3 DEF p
<1>4. Passed(s, all) \in Seq(Threads)
  BY PassedTyped
<1> QED
  BY <1>1, <1>2, <1>3, <1>4

(* jet_msection_wq_notify: those it wakes up are taken out next, by the      *)
(* thread itself.                                                            *)
LEMMA NotifyLine ==
  ASSUME LineInv, NEW t \in Threads, NEW all \in BOOLEAN,
         NEW ifSome \in {"woken", "refill"}, NEW ifNone \in Inside \ AtQueue, Notify(t, all, ifSome, ifNone),
         all <=> kind \notin {"semaphore", "buffer"}, UNCHANGED kind, SectionsInv'
  PROVE  LineInv'
<1> DEFINE s == using[t]
           passed == Passed(s, all)
           woken == Without(passed, {u \in Threads : ~Waiting(u)})
           to == IF woken = <<>> THEN ifNone ELSE ifSome
<1>1. /\ Runs(t) /\ pc[t] = "body" /\ pc' = [pc EXCEPT ![t] = to]
      /\ queue' = Purged(s, passed) /\ WakeUp(woken, "ok", FALSE)
      /\ using' = using /\ kind' = kind /\ to \in Inside \ AtQueue /\ (woken # <<>> => to = ifSome)
  BY DEF Notify, GoTo, SysCall, Runs, Inside, AtQueue
<1>2. SectionsInv /\ WaitTypes /\ Tidy(queue, Where) /\ queue \in Queues /\ pc \in [Threads -> Places]
  BY DEF LineInv, SectionsInv, LibraryTypes
<1>3. s \in Sections
  BY <1>1, <1>2, UsesSection
<1>4. passed \in Seq(Threads) /\ ToSet(passed) \subseteq Reach(queue, s)
  BY <1>2, <1>3, PassedReach
<1>5. \A x \in Threads : x \in ToSet(passed) /\ Waiting(x) =>
        IF all THEN x \in Reach(queue', s) ELSE queue'.first[s] = x
  BY <1>1, <1>2, <1>3, NotifiedStays
<1>6. woken \in Seq(Threads) /\ ToSet(woken) = ToSet(passed) \ {u \in Threads : ~Waiting(u)}
  <2> HIDE DEF passed
  <2> QED
    BY <1>4, WithoutOK
<1> HIDE DEF passed, woken, to
<1>7. /\ \A x \in Threads : state'[x] = IF x \in ToSet(woken) THEN "runnable" ELSE state[x]
      /\ \A x \in Threads : waitResult'[x] = "ok" /\ x \notin ToSet(woken) => waitResult[x] = "ok"
      /\ WaitTypes'
  <2>1. /\ state' = [x \in Threads |-> IF x \in ToSet(woken) THEN "runnable" ELSE state[x]]
        /\ delayed' = [x \in Threads |-> IF x \in ToSet(woken) THEN "none" ELSE delayed[x]]
        /\ waitResult' = [x \in Threads |->
                            IF x \in ToSet(woken) /\ entering[x] # None THEN "ok" ELSE waitResult[x]]
    BY <1>1 DEF WakeUp
  <2>2. WaitTypes'
    <3>1. delayed' \in [Threads -> {"none", "wake"}]
      BY <1>2, <2>1 DEF WaitTypes
    <3>2. waitResult' \in [Threads -> {"ok", "timeout", "cancelled"}]
      BY <1>2, <2>1 DEF WaitTypes
    <3> QED
      BY <3>1, <3>2 DEF WaitTypes
  <2> QED
    BY <2>1, <2>2
<1>8. \A u \in Threads : pc'[u] = IF u = t THEN to ELSE pc[u]
  BY <1>1, <1>2
<1>9. Where' = Where
  <2>1. \A u \in Threads : (IF pc'[u] \in AtQueue THEN using'[u] ELSE None)
                             = (IF pc[u] \in AtQueue THEN using[u] ELSE None)
    BY <1>1, <1>8 DEF AtQueue
  <2> QED
    BY <2>1 DEF Where
<1>10. /\ Tidy(queue', Where) /\ Aside(queue, queue', s, Where)
       /\ \A x \in Threads : Out(queue, x) => Out(queue', x)
  <2>1. Leavers(passed) \in Seq(Threads) /\ ToSet(Leavers(passed)) \subseteq Reach(queue, s)
    BY <1>2, <1>3, <1>4, LeaversReached
  <2>2. \A x \in ToSet(Leavers(passed)) : Where[x] = s
    BY <1>2, <1>3, <2>1, ReachAt
  <2> QED
    BY <1>1, <1>2, <1>3, <2>1, <2>2, DelAllTidy DEF Purged
<1>11. AtSection(t, s, Where)
  <2>1. queue' \in Queues
    BY DEF SectionsInv, LibraryTypes
  <2> QED
    BY <1>1, <1>8, <1>9, <1>10, <2>1 DEF AtSection, Inside
<1>12. ASSUME NEW x \in Threads, WokenBySet(x)'
       PROVE  (WokenBySet(x) /\ using[x] # s) \/ Out(queue', x) \/ Takes(t, x)'
  <2>1. pc'[x] = "result" /\ pc[x] = "result" /\ x # t /\ waitResult'[x] = "ok" /\ state'[x] # "waiting"
    BY <1>1, <1>8, <1>12 DEF WokenBySet, Waiting, Inside, AtQueue
  <2>2. CASE x \in ToSet(woken)
    <3>1. x \in ToSet(passed) /\ Waiting(x) /\ x \in Reach(queue, s) /\ woken # <<>>
      <4>1. woken # <<>>
        BY <2>2, EmptySorted
      <4> QED
        BY <1>4, <1>6, <2>2, <4>1
    <3>2. Where[x] = s
      BY <1>2, <1>3, <3>1, ReachAt
    <3>3. using[x] = s /\ pc'[t] = ifSome
      BY <1>1, <1>3, <1>8, <2>1, <3>1, <3>2 DEF Where, AtQueue
    <3>4. IF all THEN x \in Reach(queue', s) ELSE queue'.first[s] = x
      BY <1>5, <3>1
    <3>5. Takes(t, x)'
      BY <1>1, <3>3, <3>4 DEF Takes
    <3> QED
      BY <3>5
  <2>3. CASE x \notin ToSet(woken)
    <3>1. WokenBySet(x)
      BY <1>7, <2>1, <2>3 DEF WokenBySet, Waiting
    <3>2. CASE using[x] = s
      <4>1. ASSUME NEW u \in Threads, Takes(u, x) PROVE FALSE
        <5>1. pc[t] \in Inside \union {"result"}
          BY <1>1 DEF Inside
        <5>2. u = t
          BY <1>1, <1>2, <3>2, <4>1, <5>1, TakesOwner
        <5> QED
          BY <1>1, <4>1, <5>2 DEF Takes
      <4>2. Out(queue, x)
        BY <3>1, <4>1 DEF LineInv, Released
      <4> QED
        BY <1>10, <4>2
    <3> QED
      BY <3>1, <3>2
  <2> QED
    BY <2>2, <2>3
<1> QED
  BY <1>7, <1>11, <1>12, LineAt

--------------------------------------------------------------------------------
(* The operations of the objects, step by step.                              *)
LEMMA BodySteady ==
  ASSUME LineInv, NEW t \in Threads, NEW from \in {"body", "nobody"}, Step(t, from, "release"),
         UNCHANGED <<using, queue, kind>>
  PROVE  Steady
BY StepSteady DEF AtQueue

(* The steps that change nothing but the object itself.                      *)
LEMMA WithinLine ==
  ASSUME LineInv, NEW t \in Threads, SectionsInv',
         NotAvailable(t) \/ \E new : Body(t, new)
  PROVE  LineInv'
<1>1. Step(t, "body", "release") /\ UNCHANGED <<using, queue, kind>>
  BY DEF NotAvailable, Body, Keep, KeepBut, objects
<1> QED
  BY <1>1, BodySteady, SteadyStep

(* Semaphores: WAIT_SEMAPHORE and SIGNAL_SEMAPHORE.                          *)
LEMMA SemaphoreLine ==
  ASSUME LineInv, NEW t \in Threads, SemaphoreStep(t), SectionsInv'
  PROVE  LineInv'
<1>1. kind = "semaphore" /\ "nobody" \in Inside \ AtQueue
  BY DEF SemaphoreStep, Inside, AtQueue
<1>2. CASE WaitSemaphore(t)
  BY <1>2, WithinLine, BlockLine DEF WaitSemaphore
<1>3. CASE SignalSemaphore(t)
  <2>1. Notify(t, FALSE, "woken", "nobody") /\ UNCHANGED kind
    BY <1>3 DEF SignalSemaphore, Keep, objects
  <2> QED
    BY <1>1, <2>1, NotifyLine
<1>4. CASE Served(t)
  <2>1. Step(t, "woken", "release") /\ queue' = FirstOut(t) /\ UNCHANGED <<using, kind>>
    BY <1>4 DEF Served, Keep, objects
  <2> QED
    BY <1>1, <2>1, FirstOutLine
<1>5. CASE Add(t)
  <2>1. Step(t, "nobody", "release") /\ UNCHANGED <<using, queue, kind>>
    BY <1>5 DEF Add, KeepBut
  <2> QED
    BY <2>1, BodySteady, SteadyStep
<1> QED
  BY <1>2, <1>3, <1>4, <1>5 DEF SemaphoreStep

(* Buffers: SEND_BUFFER and RECEIVE_BUFFER.                                  *)
LEMMA BufferLine ==
  ASSUME LineInv, NEW t \in Threads, BufferStep(t), SectionsInv'
  PROVE  LineInv'
<1>1. kind = "buffer" /\ {"nobody", "release"} \subseteq Inside \ AtQueue
  BY DEF BufferStep, Inside, AtQueue
<1>2. ASSUME NEW m, SendBuffer(t, m) PROVE LineInv'
  <2>1. Notify(t, FALSE, "woken", "nobody") /\ UNCHANGED kind
    BY <1>2 DEF SendBuffer, KeepBut
  <2> QED
    BY <1>1, <2>1, NotifyLine
<1>3. ASSUME NEW m, SendWaits(t, m) PROVE LineInv'
  BY <1>3, WithinLine, BlockLine DEF SendWaits
<1>4. CASE ReceiveBuffer(t)
  <2>1. Notify(t, FALSE, "refill", "release") /\ UNCHANGED kind
    BY <1>4 DEF ReceiveBuffer, KeepBut
  <2> QED
    BY <1>1, <2>1, NotifyLine
<1>5. CASE ReceiveWaits(t)
  BY <1>5, WithinLine, BlockLine DEF ReceiveWaits
<1>6. CASE Handover(t) \/ Refill(t)
  <2>1. /\ Step(t, "woken", "release") \/ Step(t, "refill", "release")
        /\ queue' = FirstOut(t) /\ UNCHANGED <<using, kind>>
    BY <1>6 DEF Handover, Refill, KeepBut
  <2> QED
    BY <1>1, <2>1, FirstOutLine
<1>7. CASE Store(t)
  <2>1. Step(t, "nobody", "release") /\ UNCHANGED <<using, queue, kind>>
    BY <1>7 DEF Store, KeepBut
  <2> QED
    BY <2>1, BodySteady, SteadyStep
<1> QED
  BY <1>2, <1>3, <1>4, <1>5, <1>6, <1>7 DEF BufferStep

(* Blackboards and events.                                                   *)
LEMMA BoardLine ==
  ASSUME LineInv, NEW t \in Threads, BoardStep(t), SectionsInv'
  PROVE  LineInv'
<1>1. kind \notin {"semaphore", "buffer"} /\ "release" \in Inside \ AtQueue
  BY DEF BoardStep, Inside, AtQueue
<1>2. ASSUME NEW n, Display(t, n) PROVE LineInv'
  <2>1. Notify(t, TRUE, "woken", "release") /\ UNCHANGED kind
    BY <1>2 DEF Display, KeepBut
  <2> QED
    BY <1>1, <2>1, NotifyLine
<1>3. CASE Copy(t)
  BY <1>1, <1>3, CopyLine
<1>4. CASE Clear(t) \/ Read(t)
  BY <1>4, WithinLine, BlockLine DEF Clear, Read
<1> QED
  BY <1>2, <1>3, <1>4 DEF BoardStep

(* The calls of the library and of the kernel.                               *)
LEMMA OperateSteady ==
  ASSUME LineInv, NEW t \in Threads, Operate(t), UNCHANGED partition
  PROVE  Steady
<1>1. UNCHANGED <<partition, kind>>
  BY DEF Operate, Keep, objects
<1>2. ASSUME NEW s \in Sections, Enter(t, s) PROVE Steady
  BY <1>1, <1>2, EnterLeaveSteady
<1>3. CASE EnterStep(t)
  BY <1>1, <1>3, EnterLeaveSteady, HelpSteady DEF EnterStep
<1>4. CASE LeaveStep(t)
  BY <1>1, <1>4, EnterLeaveSteady, RescheduleSteady DEF LeaveStep
<1>5. ASSUME NEW timed, BlockWaits(t, timed) PROVE Steady
  BY <1>1, <1>5, WaitSteady DEF BlockWaits
<1> QED
  BY <1>2, <1>3, <1>4, <1>5 DEF Operate

(* Every step keeps the invariant.                                           *)
LEMMA LineNext ==
  ASSUME MarkUsed', LineInv, [ObjNext]_objVars
  PROVE  LineInv'
<1>1. SectionsInv'
  BY NextStep DEF LineInv
<1>2. CASE UNCHANGED objVars
  <2>1. UNCHANGED <<state, delayed, waitResult, pc, using, queue, kind>>
    BY <1>2 DEF objVars, vars, library, objects
  <2>2. Steady
    BY <2>1, UnmovedSteady DEF LineInv, WaitTypes, Waiting
  <2> QED
    BY <1>1, <2>2, SteadyStep
<1>3. ASSUME NEW t \in Threads, ObjectStep(t), UNCHANGED partition PROVE LineInv'
  <2>1. CASE Operate(t) \/ ThreadCall(t) \/ ExpireNext(t)
    <3>1. Steady
      BY <1>3, <2>1, OperateSteady, CallSteady, KernelSteady
    <3> QED
      BY <1>1, <3>1, SteadyStep
  <2>2. CASE Back(t)
    BY <1>1, <2>2, BackLine
  <2>3. CASE Status(t)
    <3>1. Size(t) /\ UNCHANGED kind
      BY <2>3 DEF Status, Keep, objects
    <3> QED
      BY <1>1, <3>1, SizeLine
  <2> QED
    BY <1>3, <2>1, <2>2, <2>3 DEF ObjectStep
<1>4. ASSUME NEW t \in Threads, SemaphoreStep(t) \/ BufferStep(t) \/ BoardStep(t) PROVE LineInv'
  BY <1>1, <1>4, SemaphoreLine, BufferLine, BoardLine
<1>5. ASSUME Event \/ SelectNext, UNCHANGED partition PROVE LineInv'
  BY <1>1, <1>5, KernelSteady, SteadyStep
<1> QED
  BY <1>2, <1>3, <1>4, <1>5 DEF ObjNext

(* At first nobody is in a queue.                                            *)
LEMMA LineInit ==
  ASSUME ObjInit
  PROVE  LineInv
<1>1. /\ queue = [first |-> [s \in Sections |-> None], last |-> [s \in Sections |-> None],
                  next |-> [t \in Threads |-> None], prev |-> [t \in Threads |-> None],
                  priority |-> [t \in Threads |-> None]]
      /\ pc = [t \in Threads |-> "idle"] /\ delayed = [t \in Threads |-> "none"]
      /\ waitResult = [t \in Threads |-> "ok"]
  BY DEF ObjInit, LibraryInit, AllReady
<1>2. Tidy(queue, Where)
  BY <1>1, ThreadsAssumption DEF Tidy
<1>3. Released
  BY <1>1 DEF Released, WokenBySet
<1>4. WaitTypes
  BY <1>1 DEF WaitTypes
<1> QED
  BY <1>2, <1>3, <1>4, InitStep DEF LineInv

(* The kernel finds in a queue none but threads that enter its section: who   *)
(* is in it without being one would be the owner, which runs in its body.    *)
LEMMA QueuedEntering ==
  ASSUME LineInv, NEW t \in Threads, pc[t] = "body"
  PROVE  QueuedEnter(t)
<1>1. SectionsInv /\ Tidy(queue, Where) /\ queue \in Queues /\ using[t] \in Sections /\ None \notin Sections
  BY UsesSection, ThreadsAssumption DEF LineInv, SectionsInv, LibraryTypes
<1>2. owner[using[t]] = t
  BY <1>1 DEF SectionsInv, InLibrary, Inside
<1>3. ASSUME NEW u \in ToSet(Queued(using[t])) PROVE entering[u] = using[t]
  <2>1. u \in Threads /\ Where[u] = using[t]
    BY <1>1, <1>3, QueuedReach, ReachAt
  <2>2. pc[u] \in AtQueue /\ using[u] = using[t]
    BY <1>1, <2>1 DEF Where
  <2>3. InLibrary(u) /\ u # t
    BY <1>1, <2>1, <2>2 DEF SectionsInv, AtQueue
  <2>4. pc[u] = "result" /\ entering[u] # None
    BY <1>2, <2>2, <2>3 DEF InLibrary, AtQueue, Inside
  <2> QED
    BY <2>2, <2>3, <2>4 DEF InLibrary
<1> QED
  BY <1>3 DEF QueuedEnter

(* The assertions of the kernel about threads fail only after MarkUsed has:  *)
(* in the behaviours where it always holds, select_thread finds a thread that*)
(* may run, and jet_msection_wq_notify and jet_msection_wq_size find in the  *)
(* queue of a section only threads that are entering it, whatever time-outs, *)
(* stops and double removals the links have gone through.                    *)
THEOREM AssertionsNeverFail ==
  ObjSpec /\ []MarkUsed => []AssertionsHold
<1>1. ObjInit => LineInv
  BY LineInit
<1>2. LineInv /\ MarkUsed' /\ [ObjNext]_objVars => LineInv'
  BY LineNext
<1>3. LineInv /\ SelectionAllowed => AssertionsHold
  BY QueuedEntering DEF AssertionsHold
<1> QED
  BY <1>1, <1>2, <1>3, SelectionNeverFails, PTL DEF ObjSpec
================================================================================
