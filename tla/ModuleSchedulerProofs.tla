-------------------------- MODULE ModuleSchedulerProofs --------------------------
(* The slots of the module scheduler are entered in time, and no dropped    *)
(* context runs, for every table, every bound and every set of partitions. *)
EXTENDS ModuleScheduler, TLAPS, WellFoundedInduction, NaturalsInduction

(* A context that is stored belongs to the current generation.             *)
ContextsBorn == /\ sp[part]
                /\ \A p \in Partitions : sp[p] => born[p] = generation[p]

Inv == TypeOK /\ OwnWindow /\ ContextsBorn

(* The first slot exists, and the next one of any slot does.               *)
LEMMA SlotsCyclic ==
  /\ 1 \in Slots
  /\ \A i \in Slots : NextSlot(i) \in Slots
  BY SchedulerAssumption DEF Slots, NextSlot

LEMMA GenerationsCyclic ==
  /\ 1 \in 1 .. MaxGeneration
  /\ \A g \in 1 .. MaxGeneration : NextGeneration(g) \in 1 .. MaxGeneration
  BY SchedulerAssumption DEF NextGeneration

LEMMA InitInv == Init => Inv
<1> SUFFICES ASSUME Init PROVE Inv
  OBVIOUS
<1>0. Table[1].partition \in Partitions /\ Table[1].duration \in Nat
      /\ Table[1].duration > MaxLate
  BY SlotsCyclic, SchedulerAssumption
<1>1. TypeOK
  <2>1. sp \in [Partitions -> BOOLEAN] /\ tick \in BOOLEAN
    BY Zenon DEF Init
  <2>2. now \in 0 .. MaxTime /\ late \in 0 .. MaxLate
    <3>1. MaxTime \in Nat /\ MaxLate \in Nat
      BY SchedulerAssumption
    <3> QED
      BY <3>1 DEF Init
  <2>5. /\ slot \in Slots /\ part \in Partitions
        /\ nextDeadline \in Nat /\ nextFrame \in Nat /\ frameStart \in Nat
    <3>1. Frame \in Nat
      BY SchedulerAssumption
    <3> QED
      BY <3>1, <1>0, SlotsCyclic DEF Init
  <2>3. /\ pc \in [Partitions -> Points]
        /\ generation \in [Partitions -> 1 .. MaxGeneration]
        /\ born \in [Partitions -> 1 .. MaxGeneration]
        /\ offset \in [Partitions -> Nat]
    BY GenerationsCyclic DEF Init, Points
  <2>4. /\ fpLast \in Partitions \union {None} /\ fpRegs \in Partitions \union {None}
        /\ fpStore \in [Partitions -> Partitions \union {None}]
    BY DEF Init
  <2> QED
    BY <2>1, <2>2, <2>3, <2>4, <2>5 DEF TypeOK
<1>2. OwnWindow
  BY <1>0, SchedulerAssumption DEF Init, OwnWindow
<1>3. ContextsBorn
  BY <1>0, SchedulerAssumption DEF Init, ContextsBorn
<1> QED
  BY <1>1, <1>2, <1>3 DEF Inv

(* What a switch does to the contexts: the one it goes to is there, and     *)
(* those of former generations are not.                                    *)
LEMMA SwitchBorn ==
  ASSUME TypeOK, NEW q \in Partitions, NEW contexts \in [Partitions -> BOOLEAN],
         generation' \in [Partitions -> 1 .. MaxGeneration],
         \A p \in Partitions : contexts[p] => born[p] = generation'[p],
         Switch(q, contexts)
  PROVE  ContextsBorn' /\ part' \in Partitions
         /\ sp' \in [Partitions -> BOOLEAN]
         /\ pc' \in [Partitions -> Points]
         /\ born' \in [Partitions -> 1 .. MaxGeneration]
         /\ offset' \in [Partitions -> Nat]
<1>1. CASE contexts[q]
  <2>1. sp' = contexts /\ part' = q /\ born' = born /\ pc' = pc
        /\ offset' = offset /\ release' = release
    BY <1>1 DEF Switch, scan
  <2> QED
    BY <1>1, <2>1 DEF ContextsBorn, TypeOK
<1>2. CASE ~contexts[q]
  <2>1. /\ part' = q
        /\ sp' = [contexts EXCEPT ![q] = TRUE]
        /\ pc' = [pc EXCEPT ![q] = "start"]
        /\ born' = [born EXCEPT ![q] = generation'[q]]
        /\ offset' = [offset EXCEPT ![q] = 0]
        /\ release' = [release EXCEPT ![q] = 0]
    BY <1>2 DEF Switch
  <2>2. /\ sp' \in [Partitions -> BOOLEAN]
        /\ pc' \in [Partitions -> Points]
        /\ born' \in [Partitions -> 1 .. MaxGeneration]
        /\ offset' \in [Partitions -> Nat]
    BY <2>1 DEF TypeOK, Points
  <2>3. ContextsBorn'
    BY <2>1, <2>2 DEF ContextsBorn, TypeOK
  <2> QED
    BY <2>1, <2>2, <2>3
<1> QED
  BY <1>1, <1>2

(* The clock of pok_sched: the slot it leaves the processor in began, and    *)
(* lasts longer than a tick can have waited.                               *)
LEMMA SchedWindow ==
  ASSUME TypeOK, OwnWindow, NEW contexts \in [Partitions -> BOOLEAN],
         generation' \in [Partitions -> 1 .. MaxGeneration],
         \A p \in Partitions : contexts[p] => born[p] = generation'[p],
         Sched(contexts), now' = now, tick
  PROVE  /\ ContextsBorn' /\ part' \in Partitions
         /\ sp' \in [Partitions -> BOOLEAN]
         /\ pc' \in [Partitions -> Points]
         /\ born' \in [Partitions -> 1 .. MaxGeneration]
         /\ offset' \in [Partitions -> Nat]
         /\ slot' \in Slots /\ nextDeadline' \in Nat /\ nextFrame' \in Nat /\ frameStart' \in Nat
         /\ part' = Table[slot'].partition
         /\ nextDeadline' <= now + Table[slot'].duration
         /\ now < nextDeadline'
<1>1. CASE nextDeadline > now
  <2>1. UNCHANGED clock /\ Switch(part, contexts)
    BY <1>1 DEF Sched
  <2>2. part' = part
    BY <2>1 DEF Switch
  <2>3. part \in Partitions
    BY DEF TypeOK
  <2> QED
    BY <1>1, <2>1, <2>2, <2>3, SwitchBorn DEF OwnWindow, TypeOK, clock
<1>2. CASE ~(nextDeadline > now)
  <2>1. NextWindow /\ Switch(Table[slot'].partition, contexts)
    BY <1>2 DEF Sched
  <2>2. /\ slot' \in Slots
        /\ Table[slot'].partition \in Partitions
        /\ Table[slot'].duration \in Nat
        /\ Table[slot'].duration > MaxLate
    BY <2>1, SlotsCyclic, SchedulerAssumption DEF NextWindow, TypeOK
  <2>3. nextDeadline' \in Nat /\ nextFrame' \in Nat /\ frameStart' \in Nat
    BY <2>1, <2>2, SchedulerAssumption DEF NextWindow, TypeOK
  <2>4. part' = Table[slot'].partition
    BY <2>1 DEF Switch
  <2>5. nextDeadline' = nextDeadline + Table[slot'].duration
    BY <2>1 DEF NextWindow
  <2>6. nextDeadline' <= now + Table[slot'].duration /\ now < nextDeadline'
    BY <1>2, <2>2, <2>5, SchedulerAssumption DEF OwnWindow, TypeOK
  <2> QED
    BY <2>1, <2>2, <2>3, <2>4, <2>6, SwitchBorn
<1> QED
  BY <1>1, <1>2

(* Without a waiting tick pok_sched stays in the slot.                     *)
LEMMA SchedStays ==
  ASSUME TypeOK, OwnWindow, NEW contexts \in [Partitions -> BOOLEAN],
         Sched(contexts), ~tick
  PROVE  UNCHANGED clock /\ Switch(part, contexts)
  BY DEF Sched, OwnWindow, TypeOK

(* One step per action.  The steps of the running code that leave the       *)
(* clock and the contexts alone (At) can disturb nothing.                   *)
LEMMA AtInv ==
  ASSUME OwnWindow, ContextsBorn, NEW from, NEW to, At(from, to)
  PROVE  OwnWindow' /\ ContextsBorn'
  BY DEF At, clock, OwnWindow, ContextsBorn

LEMMA AtType ==
  ASSUME TypeOK, NEW from, NEW to \in Points, At(from, to),
         offset' \in [Partitions -> Nat],
         fpLast' \in Partitions \union {None}, fpRegs' \in Partitions \union {None},
         fpStore' \in [Partitions -> Partitions \union {None}]
  PROVE  TypeOK'
<1>1. pc' \in [Partitions -> Points]
  BY DEF At, TypeOK
<1> QED
  BY <1>1 DEF At, TypeOK, clock

(* What the floating point registers and areas hold are partitions.        *)
LEMMA SavedType ==
  ASSUME TypeOK
  PROVE  Saved \in [Partitions -> Partitions \union {None}]
  BY DEF TypeOK, Saved
LEMMA StillBefore ==
  \A t, d, l \in Nat : t < d => t < d + (l + 1) /\ t < d + 0
  OBVIOUS

(* Any action but a step of the code alone: types follow from the lemmas.   *)
LEMMA SchedInv ==
  ASSUME Inv, NEW contexts \in [Partitions -> BOOLEAN],
         generation' \in [Partitions -> 1 .. MaxGeneration],
         \A p \in Partitions : contexts[p] => born[p] = generation'[p],
         Sched(contexts), UNCHANGED <<now, fp>>,
         \/ tick /\ tick' = FALSE /\ late' = 0
         \/ UNCHANGED <<tick, late>>
  PROVE  Inv'
<1>0. TypeOK /\ OwnWindow
  BY DEF Inv
<1>1. tick' \in BOOLEAN /\ late' \in 0 .. MaxLate
  <2>1. CASE tick /\ tick' = FALSE /\ late' = 0
    <3>1. late' \in 0 .. MaxLate
      BY <2>1, SchedulerAssumption
    <3> QED
      BY <2>1, <3>1, Zenon
  <2>2. CASE UNCHANGED <<tick, late>>
    BY <1>0, <2>2 DEF TypeOK
  <2> QED
    BY <2>1, <2>2
<1>2. CASE tick
  <2>1. /\ ContextsBorn' /\ part' \in Partitions
        /\ sp' \in [Partitions -> BOOLEAN]
        /\ pc' \in [Partitions -> Points]
        /\ born' \in [Partitions -> 1 .. MaxGeneration]
        /\ offset' \in [Partitions -> Nat]
        /\ slot' \in Slots
        /\ nextDeadline' \in Nat /\ nextFrame' \in Nat /\ frameStart' \in Nat
        /\ part' = Table[slot'].partition
        /\ nextDeadline' <= now + Table[slot'].duration
        /\ now < nextDeadline'
    BY <1>0, <1>2, SchedWindow
  <2>2. TypeOK'
    BY <1>0, <1>1, <2>1 DEF TypeOK, fp
  <2>3. OwnWindow'
    <3>1. now' = now /\ now' \in Nat /\ nextDeadline' \in Nat /\ late' \in Nat
      BY <2>1, <2>2, SchedulerAssumption DEF TypeOK
    <3>2. now' < nextDeadline'
      BY <2>1, <3>1
    <3>3. now' < nextDeadline' + (late' + 1) /\ now' < nextDeadline' + 0
      BY <3>1, <3>2, StillBefore
    <3>4. now' < nextDeadline' + (IF tick THEN late + 1 ELSE 0)'
      BY <3>3, Zenon
    <3>5. nextDeadline' <= now' + Table[slot'].duration
      BY <2>1, <3>1
    <3> QED
      BY <2>1, <3>4, <3>5 DEF OwnWindow
  <2> QED
    BY <2>1, <2>2, <2>3 DEF Inv
<1>3. CASE ~tick
  <2>1. UNCHANGED clock /\ Switch(part, contexts) /\ UNCHANGED <<tick, late>>
    BY <1>0, <1>3, SchedStays
  <2>2. part' = part
    BY <2>1 DEF Switch
  <2>3. /\ ContextsBorn' /\ part' \in Partitions
        /\ sp' \in [Partitions -> BOOLEAN]
        /\ pc' \in [Partitions -> Points]
        /\ born' \in [Partitions -> 1 .. MaxGeneration]
        /\ offset' \in [Partitions -> Nat]
    <3>1. part \in Partitions
      BY <1>0 DEF TypeOK
    <3> QED
      BY <1>0, <2>1, <3>1, SwitchBorn
  <2>4. TypeOK'
    BY <1>0, <1>1, <2>1, <2>3 DEF TypeOK, fp, clock
  <2>5. OwnWindow'
    BY <1>0, <2>1, <2>2 DEF OwnWindow, clock
  <2> QED
    BY <2>3, <2>4, <2>5 DEF Inv
<1> QED
  BY <1>2, <1>3

LEMMA ClockInv == Inv /\ Clock => Inv'
<1> SUFFICES ASSUME Inv, Clock PROVE Inv'
  OBVIOUS
<1>0. TypeOK /\ OwnWindow /\ ContextsBorn
  BY DEF Inv
<1>1. UNCHANGED <<clock, context, scan, fp>> /\ now' = now + 1 /\ now < MaxTime
  BY DEF Clock
<1>2. tick' \in BOOLEAN
  BY Zenon DEF Clock
<1>3. late' \in 0 .. MaxLate
  BY <1>0, SchedulerAssumption DEF Clock, TypeOK
<1>4. TypeOK'
  BY <1>0, <1>1, <1>2, <1>3, SchedulerAssumption DEF TypeOK, clock, context, scan, fp
<1>5. OwnWindow'
  <2>1. /\ part' = Table[slot'].partition
        /\ slot' = slot /\ nextDeadline' = nextDeadline
        /\ Table[slot].duration \in Nat
    BY <1>0, <1>1, SchedulerAssumption DEF OwnWindow, clock, context, TypeOK
  <2>2. nextDeadline' <= now' + Table[slot'].duration
    BY <1>0, <1>1, <2>1 DEF OwnWindow, TypeOK
  <2>3. tick'
    BY Zenon DEF Clock
  <2>4. now' < nextDeadline' + late' + 1
    BY <1>0, <1>1, <1>3, <2>1 DEF OwnWindow, TypeOK, Clock
  <2>5. (IF tick THEN late + 1 ELSE 0)' = late' + 1
    BY <2>3, Zenon
  <2>6. now' < nextDeadline' + (late' + 1)
    BY <1>3, <1>4, <2>4, SchedulerAssumption DEF TypeOK
  <2>7. part' = Table[slot'].partition
    BY <2>1
  <2>8. now' < nextDeadline' + (IF tick THEN late + 1 ELSE 0)'
    BY <2>5, <2>6, Zenon
  <2> QED
    BY <2>2, <2>7, <2>8 DEF OwnWindow
<1>6. ContextsBorn'
  BY <1>0, <1>1 DEF ContextsBorn, context
<1> QED
  BY <1>4, <1>5, <1>6 DEF Inv

LEMMA TakeTickInv == Inv /\ TakeTick => Inv'
<1> SUFFICES ASSUME Inv, TakeTick PROVE Inv'
  OBVIOUS
<1>1. generation' = generation /\ sp \in [Partitions -> BOOLEAN]
      /\ generation' \in [Partitions -> 1 .. MaxGeneration]
  BY DEF TakeTick, Inv, TypeOK
<1>2. \A p \in Partitions : sp[p] => born[p] = generation'[p]
  BY <1>1 DEF Inv, ContextsBorn
<1>3. Sched(sp) /\ UNCHANGED <<now, fp>> /\ tick /\ tick' = FALSE /\ late' = 0
  BY DEF TakeTick
<1> QED
  BY <1>1, <1>2, <1>3, SchedInv

LEMMA RestartInv == Inv /\ Restart => Inv'
<1> SUFFICES ASSUME Inv, Restart PROVE Inv'
  OBVIOUS
<1>0. TypeOK /\ part \in Partitions
  BY DEF Inv, TypeOK
<1> DEFINE contexts == [sp EXCEPT ![part] = FALSE]
<1>1. contexts \in [Partitions -> BOOLEAN] /\ ~contexts[part]
  BY <1>0 DEF TypeOK
<1>2. generation' \in [Partitions -> 1 .. MaxGeneration]
  BY <1>0, GenerationsCyclic DEF Restart, TypeOK
<1>3. \A p \in Partitions : contexts[p] => born[p] = generation'[p]
  BY <1>0 DEF Restart, TypeOK, Inv, ContextsBorn
<1>4. Sched(contexts) /\ UNCHANGED <<now, fp, tick, late>>
  BY DEF Restart
<1> QED
  BY <1>1, <1>2, <1>3, <1>4, SchedInv

LEMMA ModuleResetInv == Inv /\ ModuleReset => Inv'
<1> SUFFICES ASSUME Inv, ModuleReset PROVE Inv'
  OBVIOUS
<1>0. TypeOK
  BY DEF Inv
<1> DEFINE contexts == [p \in Partitions |-> FALSE]
<1>1. contexts \in [Partitions -> BOOLEAN]
  BY Zenon
<1>2. generation' \in [Partitions -> 1 .. MaxGeneration]
  BY <1>0, GenerationsCyclic DEF ModuleReset, TypeOK
<1>3. \A p \in Partitions : contexts[p] => born[p] = generation'[p]
  BY Zenon
<1>4. Table[1].partition \in Partitions /\ Table[1].duration \in Nat
      /\ Table[1].duration > MaxLate
  BY SlotsCyclic, SchedulerAssumption
<1>5. Switch(Table[1].partition, contexts)
  BY DEF ModuleReset
<1>6. /\ ContextsBorn'
      /\ sp' \in [Partitions -> BOOLEAN]
      /\ pc' \in [Partitions -> Points]
      /\ born' \in [Partitions -> 1 .. MaxGeneration]
      /\ offset' \in [Partitions -> Nat]
  <2> HIDE DEF contexts
  <2> QED
    BY <1>0, <1>1, <1>2, <1>3, <1>4, <1>5, SwitchBorn
<1>7. part' = Table[1].partition
  BY <1>5 DEF Switch
<1>8. /\ slot' = 1 /\ frameStart' = now /\ nextFrame' = now + Frame
      /\ nextDeadline' = now + Table[1].duration
      /\ UNCHANGED <<now, tick, late, fp>>
  BY DEF ModuleReset
<1>9. nextDeadline' \in Nat /\ nextFrame' \in Nat /\ frameStart' \in Nat
  BY <1>0, <1>4, <1>8, SchedulerAssumption DEF TypeOK
<1>10. TypeOK'
  BY <1>0, <1>2, <1>4, <1>6, <1>7, <1>8, <1>9, SlotsCyclic DEF TypeOK, fp
<1>11. OwnWindow'
  BY <1>0, <1>4, <1>7, <1>8, SchedulerAssumption DEF OwnWindow, TypeOK
<1> QED
  BY <1>6, <1>10, <1>11 DEF Inv
LEMMA CodeInv ==
  Inv /\ (Boot \/ SysCall \/ Disable \/ Enable \/ JumpUser \/ ReturnUser
          \/ ReadDeadline \/ ReadSlot) => Inv'
<1> SUFFICES ASSUME Inv,
                    Boot \/ SysCall \/ Disable \/ Enable \/ JumpUser \/ ReturnUser
                    \/ ReadDeadline \/ ReadSlot
             PROVE Inv'
  OBVIOUS
<1>0. TypeOK /\ OwnWindow /\ ContextsBorn /\ part \in Partitions
  BY DEF Inv, TypeOK
<1>1. CASE Boot \/ SysCall \/ Disable \/ Enable
  <2>1. PICK from \in SUBSET Points, to \in Points : At(from, to)
    <3>1. CASE Boot
      BY <3>1 DEF Boot, Points
    <3>2. CASE SysCall
      BY <3>2 DEF SysCall, Points
    <3>3. CASE Disable
      BY <3>3 DEF Disable, Points
    <3>4. CASE Enable
      BY <3>4 DEF Enable, Points
    <3> QED
      BY <1>1, <3>1, <3>2, <3>3, <3>4
  <2>2. UNCHANGED <<scan, fp>>
    BY <1>1 DEF Boot, SysCall, Disable, Enable
  <2>3. TypeOK'
    BY <1>0, <2>1, <2>2, AtType DEF TypeOK, scan, fp
  <2> QED
    BY <1>0, <2>1, <2>3, AtInv DEF Inv
<1>2. CASE JumpUser
  <2>1. At({"boot", "kernel"}, "user")
    BY <1>2 DEF JumpUser
  <2>2. fpStore' \in [Partitions -> Partitions \union {None}]
    BY <1>0, <1>2, SavedType DEF JumpUser, TypeOK
  <2>3. TypeOK'
    BY <1>0, <1>2, <2>1, <2>2, AtType DEF JumpUser, TypeOK, scan, Points
  <2> QED
    BY <1>0, <2>1, <2>3, AtInv DEF Inv
<1>3. CASE ReturnUser
  <2>1. At({"kernel"}, "user")
    BY <1>3 DEF ReturnUser
  <2>2. /\ fpStore' \in [Partitions -> Partitions \union {None}]
        /\ fpLast' \in Partitions \union {None} /\ fpRegs' \in Partitions \union {None}
    BY <1>0, <1>3, SavedType DEF ReturnUser, TypeOK, fp
  <2>3. TypeOK'
    BY <1>0, <1>3, <2>1, <2>2, AtType DEF ReturnUser, TypeOK, scan, Points
  <2> QED
    BY <1>0, <2>1, <2>3, AtInv DEF Inv
<1>4. CASE ReadDeadline
  <2>1. At({"kernel"}, "offset")
    BY <1>4 DEF ReadDeadline
  <2>2. offset' \in [Partitions -> Nat]
    BY <1>0, <1>4 DEF ReadDeadline, TypeOK
  <2>3. TypeOK'
    BY <1>0, <1>4, <2>1, <2>2, AtType DEF ReadDeadline, TypeOK, fp, Points
  <2> QED
    BY <1>0, <2>1, <2>3, AtInv DEF Inv
<1>5. CASE ReadSlot
  <2>1. At({"offset"}, "kernel")
    BY <1>5 DEF ReadSlot
  <2>2. offset' \in [Partitions -> Nat]
    BY <1>0, <1>5 DEF ReadSlot, TypeOK
  <2>3. TypeOK'
    BY <1>0, <1>5, <2>1, <2>2, AtType DEF ReadSlot, TypeOK, fp, Points
  <2> QED
    BY <1>0, <2>1, <2>3, AtInv DEF Inv
<1> QED
  BY <1>1, <1>2, <1>3, <1>4, <1>5

LEMMA StutterInv == Inv /\ UNCHANGED vars => Inv'
  BY DEF Inv, TypeOK, OwnWindow, ContextsBorn, vars, clock, context, scan, fp

LEMMA Inductive == Inv /\ [Next]_vars => Inv'
  BY ClockInv, TakeTickInv, RestartInv, ModuleResetInv, CodeInv, StutterInv
     DEF Next, Code

(* The states of the module scheduler are those of sched.c, whatever the    *)
(* table is.                                                               *)
THEOREM SchedulerTypeCorrect == Spec => []TypeOK
<1>1. Inv => TypeOK
  BY DEF Inv
<1> QED
  BY <1>1, InitInv, Inductive, PTL DEF Spec

(* The partition that runs is that of the current slot, which has begun and *)
(* is over only while a tick waits (pok_sched): for every table whose       *)
(* windows are longer than the interrupts are disabled.                    *)
THEOREM SlotsEnteredInTime == Spec => []OwnWindow
<1>1. Inv => OwnWindow
  BY DEF Inv
<1> QED
  BY <1>1, InitInv, Inductive, PTL DEF Spec

(* A context dropped by pok_partition_restart or pok_partition_reset never  *)
(* runs again (inter_partition_switch).                                    *)
THEOREM DroppedNeverRuns == Spec => []NoOldGeneration
<1>1. Inv => NoOldGeneration
  BY DEF Inv, TypeOK, ContextsBorn, NoOldGeneration
<1> QED
  BY <1>1, InitInv, Inductive, PTL DEF Spec

--------------------------------------------------------------------------------
(* The times of the table.  Its sums are recursive functions, about which   *)
(* everything follows from the principle of the least number.              *)
LEMMA Least ==
  ASSUME NEW S \in SUBSET Nat, S # {}
  PROVE  \E m \in S : \A k \in S : m <= k
<1> DEFINE R == OpToRel(<, Nat)
<1>1. IsWellFoundedOn(R, Nat)
  BY NatLessThanWellFounded
<1> HIDE DEF R
<1>2. \E m \in S : \A k \in S : <<k, m>> \notin R
  BY <1>1, WFMin
<1>3. ASSUME NEW m \in S, NEW k \in S, <<k, m>> \notin R PROVE m <= k
  BY <1>3 DEF R, OpToRel
<1> QED
  BY <1>2, <1>3

(* A set that holds 0, and n when it holds n - 1, holds all of 0 .. M.      *)
LEMMA Upwards ==
  ASSUME NEW M \in Nat, NEW S, 0 \in S,
         \A n \in 1 .. M : n - 1 \in S => n \in S
  PROVE  \A n \in 0 .. M : n \in S
<1> DEFINE Out == {n \in 0 .. M : n \notin S}
<1> SUFFICES ASSUME Out # {} PROVE FALSE
  OBVIOUS
<1>1. Out \in SUBSET Nat /\ 0 \notin Out /\ Out \intersect S = {} /\ Out \subseteq 0 .. M
      /\ \A n \in 0 .. M : n \notin Out => n \in S
  OBVIOUS
<1> HIDE DEF Out
<1>2. PICK m \in Out : \A k \in Out : m <= k
  BY <1>1, Least
<1>3. m \in 1 .. M /\ m - 1 \in 0 .. M /\ ~ (m <= m - 1)
  BY <1>1
<1> QED
  BY <1>1, <1>2, <1>3

(* f[n] is the sum of the first n durations of d.                          *)
Sums(f, M, d) == f[0] = 0 /\ \A n \in 1 .. M : f[n] = f[n - 1] + d[n]

LEMMA SumsExist ==
  ASSUME NEW M \in Nat, NEW d \in [1 .. M -> Nat]
  PROVE  \E f \in [0 .. M -> Nat] : Sums(f, M, d)
<1> DEFINE Upto(m) == {f \in [0 .. m -> Nat] : Sums(f, m, d)}
           S == {m \in 0 .. M : Upto(m) # {}}
<1>1. 0 \in S
  <2>1. [n \in 0 .. 0 |-> 0] \in Upto(0)
    BY DEF Sums
  <2> QED
    BY <2>1
<1>2. ASSUME NEW m \in 1 .. M, m - 1 \in S PROVE m \in S
  <2>1. PICK f \in [0 .. m - 1 -> Nat] : f[0] = 0 /\ \A n \in 1 .. m - 1 : f[n] = f[n - 1] + d[n]
    BY <1>2 DEF Sums
  <2> DEFINE g == [n \in 0 .. m |-> IF n = m THEN f[m - 1] + d[m] ELSE f[n]]
  <2>2. g \in [0 .. m -> Nat] /\ g[0] = 0
    BY <2>1
  <2>3. ASSUME NEW n \in 1 .. m PROVE g[n] = g[n - 1] + d[n]
    <3>1. g[n - 1] = f[n - 1]
      OBVIOUS
    <3>2. CASE n = m
      BY <3>1, <3>2
    <3>3. CASE n # m
      BY <3>1, <3>3, <2>1
    <3> QED
      BY <3>2, <3>3
  <2>4. g \in Upto(m)
    BY <2>2, <2>3 DEF Sums
  <2> QED
    BY <2>4
<1>3. \A m \in 1 .. M : m - 1 \in S => m \in S
  BY <1>2
<1>4. M \in S => \E f \in [0 .. M -> Nat] : Sums(f, M, d)
  OBVIOUS
<1> HIDE DEF S
<1>5. \A m \in 0 .. M : m \in S
  BY <1>1, <1>3, Upwards
<1> QED
  BY <1>4, <1>5

(* The ends of the windows are what their recursive definition says.        *)
LEMMA EndsAre ==
  /\ EndOf[0] = 0
  /\ \A i \in 0 .. N : EndOf[i] \in Nat
  /\ \A i \in 1 .. N : EndOf[i] = EndOf[i - 1] + Table[i].duration
<1> DEFINE d == [n \in 1 .. N |-> Table[n].duration]
           Is(f) == f = [i \in 0 .. N |-> IF i = 0 THEN 0 ELSE f[i - 1] + Table[i].duration]
<1>1. N \in Nat /\ d \in [1 .. N -> Nat]
  BY SchedulerAssumption DEF Slots
<1>2. \E f : Is(f)
  <2> HIDE DEF d
  <2>1. PICK f \in [0 .. N -> Nat] : Sums(f, N, d)
    BY <1>1, SumsExist
  <2>2. f = [i \in 0 .. N |-> f[i]]
    OBVIOUS
  <2>3. ASSUME NEW i \in 0 .. N
        PROVE  f[i] = IF i = 0 THEN 0 ELSE f[i - 1] + Table[i].duration
    BY <2>1, <1>1 DEF Sums, d
  <2>4. [i \in 0 .. N |-> f[i]] = [i \in 0 .. N |-> IF i = 0 THEN 0 ELSE f[i - 1] + Table[i].duration]
    BY <2>3
  <2> QED
    BY <2>2, <2>4
<1>3. Is(EndOf)
  BY <1>2 DEF EndOf
<1>4. EndOf[0] = 0 /\ \A i \in 1 .. N : EndOf[i] = EndOf[i - 1] + Table[i].duration
  BY <1>1, <1>3
<1> DEFINE S == {i \in 0 .. N : EndOf[i] \in Nat}
<1>5. 0 \in S /\ \A i \in 1 .. N : i - 1 \in S => i \in S
  <2>1. \A i \in 1 .. N : Table[i].duration \in Nat /\ i - 1 \in 0 .. N
    BY <1>1, SchedulerAssumption DEF Slots
  <2> QED
    BY <1>1, <1>4, <2>1
<1> HIDE DEF S
<1>6. \A i \in 0 .. N : i \in S
  BY <1>1, <1>5, Upwards
<1> QED
  BY <1>4, <1>6 DEF S

(* Later windows end later, and the frame ends with the last one.           *)
LEMMA EndsGrow ==
  /\ \A i \in Slots : EndOf[i - 1] < EndOf[i]
  /\ \A i, j \in 0 .. N : i <= j => EndOf[i] <= EndOf[j]
  /\ Frame \in Nat \ {0}
<1>1. N \in Nat \ {0} /\ \A i \in 1 .. N : Table[i].duration \in Nat \ {0} /\ i - 1 \in 0 .. N
  BY SchedulerAssumption DEF Slots
<1>2. ASSUME NEW i \in 1 .. N PROVE EndOf[i - 1] < EndOf[i]
  BY <1>1, EndsAre
<1>3. ASSUME NEW i \in 0 .. N PROVE \A j \in 0 .. N : i <= j => EndOf[i] <= EndOf[j]
  <2> DEFINE S == {j \in 0 .. N : i <= j => EndOf[i] <= EndOf[j]}
  <2>1. 0 \in S
    BY <1>1, EndsAre
  <2>2. ASSUME NEW j \in 1 .. N, j - 1 \in S PROVE j \in S
    <3>1. EndOf[j - 1] < EndOf[j] /\ EndOf[i] \in Nat /\ EndOf[j - 1] \in Nat /\ EndOf[j] \in Nat
      BY <1>1, <1>2, EndsAre
    <3> QED
      BY <2>2, <3>1
  <2> HIDE DEF S
  <2>3. \A j \in 0 .. N : j \in S
    BY <1>1, <2>1, <2>2, Upwards
  <2> QED
    BY <2>3 DEF S
<1>4. Frame \in Nat \ {0}
  <2>1. 1 \in 1 .. N /\ 0 \in 0 .. N /\ N \in 0 .. N /\ 1 \in 0 .. N
    BY <1>1
  <2>2. EndOf[0] < EndOf[1] /\ EndOf[1] <= EndOf[N]
    BY <1>1, <1>2, <1>3, <2>1
  <2> QED
    BY <2>1, <2>2, EndsAre, SchedulerAssumption
<1> QED
  BY <1>2, <1>3, <1>4 DEF Slots

LEMMA ModuloIs ==
  ASSUME NEW F \in Nat \ {0}, NEW k \in Nat, NEW x \in 0 .. F - 1
  PROVE  (k * F + x) % F = x
<1> DEFINE t == k * F + x
<1>1. t \in Int
  OBVIOUS
<1>2. t % F \in 0 .. F - 1 /\ t = (t \div F) * F + (t % F) /\ t \div F \in Int
  <2> HIDE DEF t
  <2> QED
    BY <1>1
<1> DEFINE q == t \div F
           r == t % F
<1>3. q \in Int /\ r \in 0 .. F - 1 /\ k * F + x = q * F + r
  BY <1>2
<1> HIDE DEF q, r
<1>4. (q - k) * F = x - r
  BY <1>3
<1>5. CASE q - k >= 1
  <2>1. (q - k) * F >= F
    BY <1>3, <1>5
  <2> QED
    BY <1>3, <1>4, <2>1
<1>6. CASE q - k <= 0 - 1
  <2>1. (q - k) * F <= 0 - F
    BY <1>3, <1>6
  <2> QED
    BY <1>3, <1>4, <2>1
<1>7. CASE q = k
  <2>1. r = x
    BY <1>3, <1>7
  <2> QED
    BY <2>1 DEF r
<1> QED
  BY <1>3, <1>5, <1>6, <1>7

(* The deadline of the slot is where the table has it in the current frame. *)
Aligned ==
  \E k \in Nat : /\ nextFrame = frameStart + (k + 1) * Frame
                 /\ nextDeadline = frameStart + k * Frame + EndOf[slot]

LEMMA AlignedInit == Init => Aligned
<1> SUFFICES ASSUME Init PROVE Aligned
  OBVIOUS
<1>1. N \in Nat \ {0} /\ 1 \in 1 .. N /\ 0 \in 0 .. N /\ 1 - 1 = 0
  BY SchedulerAssumption
<1>2. EndOf[slot] = Table[1].duration /\ Table[1].duration \in Nat
  <2>1. EndOf[1] = EndOf[0] + Table[1].duration
    BY <1>1, EndsAre
  <2> QED
    BY <1>1, <2>1, EndsAre, SchedulerAssumption DEF Init, Slots
<1>3. nextFrame = frameStart + (0 + 1) * Frame /\ nextDeadline = frameStart + 0 * Frame + EndOf[slot]
  BY <1>2, EndsGrow DEF Init
<1> QED
  BY <1>3 DEF Aligned

LEMMA AlignedWindow == Inv /\ Aligned /\ NextWindow => Aligned'
<1> SUFFICES ASSUME Inv, Aligned, NextWindow PROVE Aligned'
  OBVIOUS
<1>1. slot \in Slots /\ frameStart \in Nat /\ nextFrame \in Nat /\ nextDeadline \in Nat
  BY DEF Inv, TypeOK
<1>2. N \in Nat \ {0} /\ 1 \in 1 .. N /\ 0 \in 0 .. N /\ 1 - 1 = 0
  BY SchedulerAssumption
<1>3. PICK k \in Nat : /\ nextFrame = frameStart + (k + 1) * Frame
                       /\ nextDeadline = frameStart + k * Frame + EndOf[slot]
  BY DEF Aligned
<1>4. CASE slot = N
  <2>1. slot' = 1 /\ nextFrame' = nextFrame + Frame /\ nextDeadline' = nextDeadline + Table[1].duration
    BY <1>4 DEF NextWindow, NextSlot
  <2>2. EndOf[slot] = Frame
    BY <1>4, SchedulerAssumption
  <2>3. EndOf[1] = Table[1].duration
    <3>1. EndOf[1] = EndOf[0] + Table[1].duration
      BY <1>2, EndsAre
    <3> QED
      BY <1>2, <3>1, EndsAre, SchedulerAssumption DEF Slots
  <2>4. (k + 1) * Frame = k * Frame + Frame /\ (k + 1 + 1) * Frame = (k + 1) * Frame + Frame
        /\ k * Frame \in Nat /\ (k + 1) * Frame \in Nat /\ (k + 1 + 1) * Frame \in Nat
    BY EndsGrow
  <2>5. EndOf[1] \in Nat /\ Frame \in Nat
    BY <1>2, EndsAre, EndsGrow
  <2>6. nextFrame' = frameStart' + (k + 1 + 1) * Frame
    BY <1>1, <1>3, <2>1, <2>4, <2>5 DEF NextWindow
  <2>7. nextDeadline' = frameStart' + (k + 1) * Frame + EndOf[1]
    BY <1>1, <1>3, <2>1, <2>2, <2>3, <2>4, <2>5 DEF NextWindow
  <2> QED
    BY <2>1, <2>6, <2>7 DEF Aligned
<1>5. CASE slot # N
  <2>1. slot' = slot + 1 /\ nextFrame' = nextFrame /\ frameStart' = frameStart
        /\ nextDeadline' = nextDeadline + Table[slot + 1].duration
    BY <1>5 DEF NextWindow, NextSlot
  <2>2. slot + 1 \in 1 .. N /\ slot + 1 - 1 = slot /\ slot \in 0 .. N
    BY <1>1, <1>2, <1>5 DEF Slots
  <2>3. EndOf[slot + 1] = EndOf[slot] + Table[slot + 1].duration
        /\ EndOf[slot] \in Nat /\ Table[slot + 1].duration \in Nat
    BY <2>2, EndsAre, SchedulerAssumption DEF Slots
  <2>4. k * Frame \in Nat
    BY EndsGrow
  <2>5. nextDeadline' = frameStart' + k * Frame + EndOf[slot + 1]
    BY <1>1, <1>3, <2>1, <2>3, <2>4
  <2> QED
    BY <1>3, <2>1, <2>5 DEF Aligned
<1> QED
  BY <1>4, <1>5

LEMMA AlignedStays == Aligned /\ UNCHANGED clock => Aligned'
  BY DEF Aligned, clock

LEMMA AlignedNext == Inv /\ Aligned /\ [Next]_vars => Aligned'
<1> SUFFICES ASSUME Inv, Aligned, [Next]_vars PROVE Aligned'
  OBVIOUS
<1>1. ASSUME NEW contexts, Sched(contexts) PROVE Aligned'
  BY <1>1, AlignedWindow, AlignedStays DEF Sched
<1>2. CASE TakeTick
  BY <1>1, <1>2 DEF TakeTick
<1>3. CASE Restart
  BY <1>1, <1>3 DEF Restart
<1>4. CASE ModuleReset
  <2>1. N \in Nat \ {0} /\ 1 \in 1 .. N /\ 0 \in 0 .. N /\ 1 - 1 = 0 /\ now \in Nat
    BY SchedulerAssumption DEF Inv, TypeOK
  <2>2. EndOf[1] = Table[1].duration /\ EndOf[1] \in Nat
    <3>1. EndOf[1] = EndOf[0] + Table[1].duration
      BY <2>1, EndsAre
    <3> QED
      BY <2>1, <3>1, EndsAre, SchedulerAssumption DEF Slots
  <2>3. slot' = 1 /\ frameStart' = now /\ nextFrame' = now + Frame
        /\ nextDeadline' = now + Table[1].duration
    BY <1>4 DEF ModuleReset
  <2>4. nextFrame' = frameStart' + (0 + 1) * Frame
        /\ nextDeadline' = frameStart' + 0 * Frame + EndOf[slot']
    BY <2>1, <2>2, <2>3, EndsGrow
  <2> QED
    BY <2>4 DEF Aligned
<1>5. CASE Clock
  BY <1>5, AlignedStays DEF Clock
<1>6. ASSUME NEW from, NEW to, At(from, to) PROVE Aligned'
  BY <1>6, AlignedStays DEF At
<1>7. CASE Boot \/ SysCall \/ Disable \/ Enable
  BY <1>6, <1>7 DEF Boot, SysCall, Disable, Enable
<1>8. CASE JumpUser \/ ReturnUser \/ ReadDeadline \/ ReadSlot
  BY <1>6, <1>8 DEF JumpUser, ReturnUser, ReadDeadline, ReadSlot
<1>9. CASE UNCHANGED vars
  BY <1>9, AlignedStays DEF vars
<1> QED
  BY <1>2, <1>3, <1>4, <1>5, <1>7, <1>8, <1>9 DEF Next, Code

(* A time belongs to one slot of the frame.                                *)
LEMMA OneSlot ==
  ASSUME NEW x \in Nat, NEW i \in Slots, NEW j \in Slots,
         EndOf[i - 1] <= x, x < EndOf[i], EndOf[j - 1] <= x, x < EndOf[j]
  PROVE  i = j
<1>1. N \in Nat /\ {i - 1, i, j - 1, j} \subseteq 0 .. N
  BY SchedulerAssumption DEF Slots
<1>2. {EndOf[i - 1], EndOf[i], EndOf[j - 1], EndOf[j]} \subseteq Nat
  BY <1>1, EndsAre
<1>3. CASE i <= j - 1
  <2>1. EndOf[i] <= EndOf[j - 1]
    BY <1>1, <1>3, EndsGrow
  <2> QED
    BY <1>2, <2>1
<1>4. CASE j <= i - 1
  <2>1. EndOf[j] <= EndOf[i - 1]
    BY <1>1, <1>4, EndsGrow
  <2> QED
    BY <1>2, <2>1
<1> QED
  BY <1>1, <1>3, <1>4

LEMMA AlignedSchedule == Inv /\ Aligned => OnSchedule
<1> SUFFICES ASSUME Inv, Aligned, ~ tick PROVE slot = SlotAt(now)
  BY DEF OnSchedule
<1>1. slot \in Slots /\ frameStart \in Nat /\ nextDeadline \in Nat /\ now \in Nat
  BY SchedulerAssumption DEF Inv, TypeOK
<1>2. nextDeadline <= now + Table[slot].duration /\ now < nextDeadline
  BY <1>1 DEF Inv, OwnWindow
<1>3. PICK k \in Nat : nextDeadline = frameStart + k * Frame + EndOf[slot]
  BY DEF Aligned
<1>4. N \in Nat /\ slot \in 1 .. N /\ slot - 1 \in 0 .. N /\ slot \in 0 .. N /\ N \in 0 .. N
      /\ slot <= N
  BY <1>1, SchedulerAssumption DEF Slots
<1>5. EndOf[slot] = EndOf[slot - 1] + Table[slot].duration /\ EndOf[slot] \in Nat
      /\ EndOf[slot - 1] \in Nat /\ EndOf[slot] <= Frame
      /\ Table[slot].duration \in Nat
  BY <1>1, <1>4, EndsAre, EndsGrow, SchedulerAssumption
<1>6. Frame \in Nat \ {0} /\ k * Frame \in Nat
  BY EndsGrow
<1> DEFINE x == now - frameStart - k * Frame
<1>7. EndOf[slot - 1] <= x /\ x < EndOf[slot] /\ x \in 0 .. Frame - 1 /\ x \in Nat
  BY <1>1, <1>2, <1>3, <1>5, <1>6
<1>8. now - frameStart = k * Frame + x
  BY <1>1, <1>6
<1> HIDE DEF x
<1>9. (now - frameStart) % Frame = x
  BY <1>6, <1>7, <1>8, ModuloIs
<1>10. \A i \in Slots : EndOf[i - 1] <= x /\ x < EndOf[i] => i = slot
  BY <1>1, <1>7, OneSlot
<1> QED
  BY <1>1, <1>7, <1>9, <1>10 DEF SlotAt

(* Whatever the restarts and the delays of the ticks, windows do not drift: *)
(* for every table, the slot is the one the table gives to this instant     *)
(* once a tick has been taken (pok_sched).                                 *)
THEOREM WindowsNeverDrift == Spec => []OnSchedule
<1>1. Spec => [](Inv /\ Aligned)
  BY InitInv, Inductive, AlignedInit, AlignedNext, PTL DEF Spec
<1> QED
  BY <1>1, AlignedSchedule, PTL

--------------------------------------------------------------------------------
(* The slots that follow slot i, in the order of the scan.                 *)
LEMMA AfterIs ==
  ASSUME NEW i \in Slots
  PROVE  /\ \A k \in 0 .. N : /\ After(i, k) \in Slots
                              /\ After(i, k) = IF i + k <= N THEN i + k ELSE i + k - N
         /\ After(i, 0) = i
<1>1. N \in Nat \ {0} /\ i \in 1 .. N
  BY SchedulerAssumption DEF Slots
<1>2. ASSUME NEW k \in 0 .. N PROVE After(i, k) = IF i + k <= N THEN i + k ELSE i + k - N
  <2>1. CASE i + k <= N
    <3>1. i + k - 1 = 0 * N + (i + k - 1) /\ i + k - 1 \in 0 .. N - 1 /\ 0 \in Nat
      BY <1>1, <2>1
    <3>2. (i + k - 1) % N = i + k - 1
      BY <1>1, <3>1, ModuloIs
    <3> QED
      BY <1>1, <2>1, <3>2 DEF After
  <2>2. CASE ~ (i + k <= N)
    <3>1. i + k - 1 = 1 * N + (i + k - 1 - N) /\ i + k - 1 - N \in 0 .. N - 1 /\ 1 \in Nat
      BY <1>1, <2>2
    <3>2. (i + k - 1) % N = i + k - 1 - N
      BY <1>1, <3>1, ModuloIs
    <3> QED
      BY <1>1, <2>2, <3>2 DEF After
  <2> QED
    BY <2>1, <2>2
<1> QED
  BY <1>1, <1>2 DEF Slots

(* The first slot after slot i that releases periodic processes of p.       *)
IsFirst(p, i, k) == /\ IsStart(p, After(i, k))
                    /\ \A j \in 1 .. k - 1 : ~ IsStart(p, After(i, j))

LEMMA FirstExists ==
  ASSUME NEW p \in Partitions, NEW i \in Slots
  PROVE  \E k \in 1 .. N : IsFirst(p, i, k)
<1>1. N \in Nat \ {0} /\ i \in 1 .. N /\ Slots = 1 .. N
  BY SchedulerAssumption DEF Slots
<1> DEFINE S == {k \in 1 .. N : IsStart(p, After(i, k))}
<1>2. PICK j \in Slots : IsStart(p, j)
  BY StartsAssumption DEF IsStart
<1>3. S # {}
  <2>1. CASE j > i
    <3>1. j - i \in 1 .. N /\ j - i \in 0 .. N /\ After(i, j - i) = j
      BY <1>1, <2>1, AfterIs
    <3> QED
      BY <1>2, <3>1
  <2>2. CASE ~ (j > i)
    <3>1. j - i + N \in 1 .. N /\ j - i + N \in 0 .. N /\ After(i, j - i + N) = j
      BY <1>1, <2>2, AfterIs
    <3> QED
      BY <1>2, <3>1
  <2> QED
    BY <2>1, <2>2
<1>4. S \in SUBSET Nat
  OBVIOUS
<1>5. \A k \in S : k \in 1 .. N /\ IsStart(p, After(i, k))
  OBVIOUS
<1>6. \A k \in 1 .. N : IsStart(p, After(i, k)) => k \in S
  OBVIOUS
<1> HIDE DEF S
<1>7. PICK m \in S : \A k \in S : m <= k
  BY <1>3, <1>4, Least
<1>8. \A k \in 1 .. m - 1 : k \in 1 .. N /\ ~ (m <= k)
  BY <1>1, <1>5
<1>9. IsFirst(p, i, m)
  BY <1>5, <1>6, <1>7, <1>8 DEF IsFirst
<1> QED
  BY <1>5, <1>9

(* The scan adds up the durations of the slots before that one.            *)
Durations(i) == [k \in 1 .. N |-> Table[After(i, k)].duration]

LEMMA NextStartIs ==
  ASSUME NEW p \in Partitions, NEW i \in Slots, NEW at
  PROVE  \E skipped \in [0 .. N -> Nat] : \E first \in 1 .. N :
           /\ Sums(skipped, N, Durations(i)) /\ IsFirst(p, i, first)
           /\ NextStart(p, i, at) = at + skipped[first - 1]
<1>1. N \in Nat \ {0} /\ Durations(i) \in [1 .. N -> Nat]
  <2>1. \A k \in 1 .. N : k \in 0 .. N /\ After(i, k) \in Slots
    BY AfterIs
  <2>2. \A k \in 1 .. N : Table[After(i, k)].duration \in Nat
    BY <2>1, SchedulerAssumption
  <2> QED
    BY <2>2, SchedulerAssumption DEF Durations
<1> DEFINE Step(f, k) == IF k = 0 THEN 0 ELSE f[k - 1] + Table[After(i, k)].duration
           Is(f) == f = [k \in 0 .. N |-> Step(f, k)]
           skipped == CHOOSE f : Is(f)
           first == CHOOSE k \in 1 .. N : IsFirst(p, i, k)
<1>2. NextStart(p, i, at) = at + skipped[first - 1]
  BY DEF NextStart, IsFirst
<1>3. first \in 1 .. N /\ IsFirst(p, i, first)
  BY FirstExists
<1>4. PICK f \in [0 .. N -> Nat] : Sums(f, N, Durations(i))
  BY <1>1, SumsExist
<1>5. Is(f)
  <2>1. f = [k \in 0 .. N |-> f[k]]
    OBVIOUS
  <2>2. ASSUME NEW k \in 0 .. N PROVE f[k] = Step(f, k)
    BY <1>1, <1>4 DEF Sums, Durations
  <2>3. [k \in 0 .. N |-> f[k]] = [k \in 0 .. N |-> Step(f, k)]
    BY <2>2
  <2> QED
    BY <2>1, <2>3
<1>6. Is(skipped)
  <2> HIDE DEF Is
  <2> QED
    BY <1>5
<1>7. skipped[0] = 0 /\ \A k \in 1 .. N : skipped[k] = skipped[k - 1] + Durations(i)[k]
  <2> HIDE DEF skipped
  <2>1. \A k \in 1 .. N : k \in 0 .. N /\ k # 0 /\ Durations(i)[k] = Table[After(i, k)].duration
    BY <1>1 DEF Durations
  <2>2. \A k \in 0 .. N : skipped[k] = Step(skipped, k)
    BY <1>6
  <2>3. 0 \in 0 .. N /\ skipped[0] = Step(skipped, 0)
    BY <1>1, <2>2
  <2>4. ASSUME NEW k \in 1 .. N PROVE skipped[k] = skipped[k - 1] + Durations(i)[k]
    <3>1. skipped[k] = Step(skipped, k) /\ k # 0
      BY <2>1, <2>2
    <3>2. Step(skipped, k) = skipped[k - 1] + Table[After(i, k)].duration
      BY <3>1
    <3> HIDE DEF Step
    <3> QED
      BY <2>1, <3>1, <3>2
  <2> QED
    BY <2>3, <2>4
<1>8. skipped = [k \in 0 .. N |-> skipped[k]]
  <2> HIDE DEF skipped
  <2>1. DOMAIN skipped = 0 .. N /\ \E g : skipped = [k \in 0 .. N |-> g[k]]
    <3>1. skipped = [k \in 0 .. N |-> [j \in 0 .. N |-> Step(skipped, j)][k]]
      BY <1>6
    <3> QED
      BY <3>1
  <2> QED
    BY <2>1
<1> HIDE DEF skipped, first
<1> DEFINE S == {k \in 0 .. N : skipped[k] \in Nat}
<1>9. 0 \in S
  BY <1>1, <1>7
<1>12. ASSUME NEW k \in 1 .. N, k - 1 \in S PROVE k \in S
  <2>1. skipped[k - 1] \in Nat /\ Durations(i)[k] \in Nat /\ k \in 0 .. N
    BY <1>1, <1>12
  <2>2. skipped[k] = skipped[k - 1] + Durations(i)[k]
    BY <1>7
  <2> QED
    BY <2>1, <2>2
<1> HIDE DEF S
<1>10. \A k \in 0 .. N : k \in S
  BY <1>1, <1>9, <1>12, Upwards
<1>11. skipped \in [0 .. N -> Nat]
  BY <1>8, <1>10 DEF S
<1> QED
  BY <1>2, <1>3, <1>7, <1>11 DEF Sums

LEMMA Regroup ==
  ASSUME NEW u \in Nat, NEW v \in Nat, NEW w \in Nat, NEW x \in Nat, NEW y \in Nat, NEW d \in Nat,
         u + v = w + x + y
  PROVE  u + (v + d) = w + x + (y + d)
  OBVIOUS

(* Slot i ends at the time t in some frame, and the scan, which begins at   *)
(* the end of a slot, adds up what leads to the ends of the slots it passes.*)
IsEnd(t, start, i) == \E k \in Nat : t = start + k * Frame + EndOf[i]

LEMMA ScanAligned ==
  ASSUME NEW i \in Slots, NEW start \in Nat, NEW at \in Nat,
         IsEnd(at, start, i),
         NEW skipped \in [0 .. N -> Nat], Sums(skipped, N, Durations(i))
  PROVE  \A n \in 0 .. N : IsEnd(at + skipped[n], start, After(i, n))
<1> DEFINE S == {n \in 0 .. N : IsEnd(at + skipped[n], start, After(i, n))}
<1>1. N \in Nat \ {0} /\ i \in 1 .. N
  BY SchedulerAssumption DEF Slots
<1>2. 0 \in S
  <2>1. skipped[0] = 0 /\ After(i, 0) = i /\ at + 0 = at /\ 0 \in 0 .. N
    BY <1>1, AfterIs DEF Sums
  <2> QED
    BY <2>1
<1>3. ASSUME NEW n \in 1 .. N, n - 1 \in S PROVE n \in S
  <2>1. n \in 0 .. N /\ n - 1 \in 0 .. N
    BY <1>1
  <2>2. PICK k \in Nat : at + skipped[n - 1] = start + k * Frame + EndOf[After(i, n - 1)]
    BY <1>3 DEF IsEnd
  <2>3. skipped[n] = skipped[n - 1] + Table[After(i, n)].duration
        /\ skipped[n] \in Nat /\ skipped[n - 1] \in Nat
    BY <2>1 DEF Sums, Durations
  <2>4. After(i, n) \in 1 .. N /\ After(i, n - 1) \in 1 .. N
    BY <2>1, AfterIs DEF Slots
  <2>5. EndOf[After(i, n)] = EndOf[After(i, n) - 1] + Table[After(i, n)].duration
        /\ EndOf[After(i, n)] \in Nat /\ EndOf[After(i, n) - 1] \in Nat
        /\ EndOf[After(i, n - 1)] \in Nat /\ Table[After(i, n)].duration \in Nat
    <3>1. After(i, n) \in 0 .. N /\ After(i, n) - 1 \in 0 .. N /\ After(i, n - 1) \in 0 .. N
      <4>1. \A a \in 1 .. N : a \in 0 .. N /\ a - 1 \in 0 .. N
        BY <1>1
      <4> QED
        BY <2>4, <4>1
    <3> QED
      BY <2>4, <3>1, EndsAre, SchedulerAssumption DEF Slots
  <2>6. k * Frame \in Nat /\ (k + 1) * Frame = k * Frame + Frame /\ Frame \in Nat
    BY EndsGrow
  <2>7. CASE After(i, n - 1) = N
    <3>1. After(i, n) = 1
      <4>1. After(i, n) = IF i + n <= N THEN i + n ELSE i + n - N
        BY <2>1, AfterIs
      <4>2. After(i, n - 1) = IF i + (n - 1) <= N THEN i + (n - 1) ELSE i + (n - 1) - N
        BY <2>1, AfterIs
      <4> QED
        BY <1>1, <2>7, <4>1, <4>2
    <3>2. EndOf[After(i, n) - 1] = 0 /\ EndOf[After(i, n - 1)] = Frame
      BY <2>7, <3>1, EndsAre, SchedulerAssumption
    <3>3. at + skipped[n - 1] = start + k * Frame + Frame
      BY <2>2, <3>2
    <3>4. EndOf[After(i, n)] = Table[After(i, n)].duration
      BY <2>5, <3>2
    <3>5. at + skipped[n] = start + (k * Frame + Frame) + EndOf[After(i, n)]
      BY <2>3, <2>5, <2>6, <3>3, <3>4
    <3>6. at + skipped[n] = start + (k + 1) * Frame + EndOf[After(i, n)]
      BY <2>6, <3>5
    <3> QED
      BY <2>1, <3>6 DEF IsEnd
  <2>8. CASE After(i, n - 1) # N
    <3>1. After(i, n) - 1 = After(i, n - 1)
      <4>1. After(i, n) = IF i + n <= N THEN i + n ELSE i + n - N
        BY <2>1, AfterIs
      <4>2. After(i, n - 1) = IF i + (n - 1) <= N THEN i + (n - 1) ELSE i + (n - 1) - N
        BY <2>1, AfterIs
      <4>3. CASE i + (n - 1) <= N
        <5>1. After(i, n - 1) = i + (n - 1) /\ i + (n - 1) # N
          BY <2>8, <4>2, <4>3
        <5>2. i + n <= N
          BY <1>1, <4>3, <5>1
        <5> QED
          BY <1>1, <4>1, <5>1, <5>2
      <4>4. CASE ~ (i + (n - 1) <= N)
        <5>1. After(i, n - 1) = i + (n - 1) - N
          BY <4>2, <4>4
        <5>2. ~ (i + n <= N)
          BY <1>1, <4>4
        <5> QED
          BY <1>1, <4>1, <5>1, <5>2
      <4> QED
        BY <4>3, <4>4
    <3>3. EndOf[After(i, n)] = EndOf[After(i, n - 1)] + Table[After(i, n)].duration
      BY <2>5, <3>1
    <3>4. at + (skipped[n - 1] + Table[After(i, n)].duration)
            = start + k * Frame + (EndOf[After(i, n - 1)] + Table[After(i, n)].duration)
      <4>1. skipped[n - 1] \in Nat /\ Table[After(i, n)].duration \in Nat
            /\ EndOf[After(i, n - 1)] \in Nat /\ k * Frame \in Nat
        BY <2>3, <2>5, <2>6
      <4> DEFINE v == skipped[n - 1]
                 x == k * Frame
                 y == EndOf[After(i, n - 1)]
                 d == Table[After(i, n)].duration
      <4>2. v \in Nat /\ x \in Nat /\ y \in Nat /\ d \in Nat /\ at + v = start + x + y
        BY <2>2, <4>1
      <4> HIDE DEF v, x, y, d
      <4>3. at + (v + d) = start + x + (y + d)
        BY <4>2, Regroup
      <4> QED
        BY <4>3 DEF v, x, y, d
    <3>2. at + skipped[n] = start + k * Frame + EndOf[After(i, n)]
      BY <2>3, <3>3, <3>4, Zenon
    <3> QED
      BY <2>1, <3>2 DEF IsEnd
  <2> QED
    BY <2>7, <2>8
<1> HIDE DEF S
<1>4. \A n \in 0 .. N : n \in S
  BY <1>1, <1>2, <1>3, Upwards
<1> QED
  BY <1>4 DEF S

(* Between the start s and the end e of slot a, no other slot starts.       *)
OnlyStart(p, a, s, t) == /\ ReleaseAt(p, t) => IsStart(p, a)
                         /\ IsStart(p, a) /\ t = s => ReleaseAt(p, t)

LEMMA StartsIn ==
  ASSUME NEW a \in Slots, NEW s \in Int, NEW e \in Int, NEW t \in Int, NEW p \in Partitions,
         frameStart \in Nat, IsEnd(e, frameStart, a),
         e = s + Table[a].duration, s <= t, t < e
  PROVE  OnlyStart(p, a, s, t)
<1>0. PICK k \in Nat : e = frameStart + k * Frame + EndOf[a]
  BY DEF IsEnd
<1>1. N \in Nat /\ a \in 1 .. N /\ a - 1 \in 0 .. N /\ a \in 0 .. N /\ N \in 0 .. N /\ a <= N
  BY SchedulerAssumption DEF Slots
<1>2. EndOf[a] = EndOf[a - 1] + Table[a].duration /\ EndOf[a] \in Nat
      /\ EndOf[a - 1] \in Nat /\ EndOf[a] <= Frame /\ Table[a].duration \in Nat
  BY <1>1, EndsAre, EndsGrow, SchedulerAssumption
<1>3. Frame \in Nat \ {0} /\ k * Frame \in Nat
  BY EndsGrow
<1> DEFINE x == t - frameStart - k * Frame
<1>4. EndOf[a - 1] <= x /\ x < EndOf[a] /\ x \in 0 .. Frame - 1 /\ x \in Nat
      /\ t - frameStart = k * Frame + x
      /\ (t = s => x = EndOf[a - 1])
  BY <1>0, <1>2, <1>3
<1> HIDE DEF x
<1>5. (t - frameStart) % Frame = x
  BY <1>3, <1>4, ModuloIs
<1>6. ASSUME NEW j \in Slots, IsStart(p, j), x = EndOf[j - 1] PROVE IsStart(p, a)
  <2>1. EndOf[j - 1] <= x /\ x < EndOf[j]
    BY <1>4, <1>6, EndsGrow
  <2>2. a = j
    BY <1>4, <2>1, OneSlot
  <2> QED
    BY <1>6, <2>2
<1> QED
  BY <1>4, <1>5, <1>6 DEF ReleaseAt, OnlyStart

(* The scan finds the first release point after the slot.                   *)
FirstAfter(p, at, r) == /\ ReleaseAt(p, r) /\ r >= at
                        /\ \A t \in at .. r - 1 : ~ ReleaseAt(p, t)

LEMMA ScanFinds ==
  ASSUME Inv, Aligned, NEW p \in Partitions
  PROVE  FirstAfter(p, nextDeadline, NextStart(p, slot, nextDeadline))
<1>1. slot \in Slots /\ frameStart \in Nat /\ nextDeadline \in Nat
      /\ IsEnd(nextDeadline, frameStart, slot)
  BY DEF Inv, TypeOK, Aligned, IsEnd
<1>2. PICK skipped \in [0 .. N -> Nat] : \E first \in 1 .. N :
        /\ Sums(skipped, N, Durations(slot)) /\ IsFirst(p, slot, first)
        /\ NextStart(p, slot, nextDeadline) = nextDeadline + skipped[first - 1]
  BY <1>1, NextStartIs
<1>3. PICK first \in 1 .. N :
        /\ Sums(skipped, N, Durations(slot)) /\ IsFirst(p, slot, first)
        /\ NextStart(p, slot, nextDeadline) = nextDeadline + skipped[first - 1]
  BY <1>2
<1> DEFINE r == nextDeadline + skipped[first - 1]
<1>4. N \in Nat \ {0} /\ \A n \in 1 .. N : n \in 0 .. N /\ n - 1 \in 0 .. N
  BY SchedulerAssumption
<1>5. ASSUME NEW n \in 1 .. N, NEW t \in Int,
             nextDeadline + skipped[n - 1] <= t, t < nextDeadline + skipped[n]
      PROVE  /\ ReleaseAt(p, t) => IsStart(p, After(slot, n))
             /\ IsStart(p, After(slot, n)) /\ t = nextDeadline + skipped[n - 1] => ReleaseAt(p, t)
  <2>1. IsEnd(nextDeadline + skipped[n], frameStart, After(slot, n))
    <3>1. \A m \in 0 .. N : IsEnd(nextDeadline + skipped[m], frameStart, After(slot, m))
      BY <1>1, <1>3, ScanAligned
    <3> QED
      BY <1>4, <3>1
  <2>2. After(slot, n) \in Slots
    BY <1>1, <1>4, AfterIs
  <2>3. skipped[n] = skipped[n - 1] + Table[After(slot, n)].duration
        /\ skipped[n] \in Nat /\ skipped[n - 1] \in Nat
        /\ Table[After(slot, n)].duration \in Nat
    BY <1>3, <1>4, <2>2, SchedulerAssumption DEF Sums, Durations
  <2> DEFINE b == nextDeadline + skipped[n - 1]
             e == nextDeadline + skipped[n]
             a == After(slot, n)
  <2>4. b \in Int /\ e \in Int /\ e = b + Table[a].duration
    <3>1. \A x, y, d \in Nat : x + (y + d) = (x + y) + d /\ x + y \in Int
      OBVIOUS
    <3>2. nextDeadline + (skipped[n - 1] + Table[After(slot, n)].duration)
            = (nextDeadline + skipped[n - 1]) + Table[After(slot, n)].duration
          /\ nextDeadline + skipped[n - 1] \in Int /\ nextDeadline + skipped[n] \in Int
      BY <1>1, <2>3, <3>1, Zenon
    <3> QED
      BY <2>3, <3>2, Zenon
  <2>5. a \in Slots /\ IsEnd(e, frameStart, a) /\ b <= t /\ t < e
    BY <1>5, <2>1, <2>2
  <2> HIDE DEF a, b, e
  <2>6. OnlyStart(p, a, b, t)
    BY <1>1, <2>4, <2>5, StartsIn
  <2> QED
    BY <2>6 DEF OnlyStart, a, b
<1>6. \A n \in 1 .. N : /\ skipped[n] \in Nat /\ skipped[n - 1] \in Nat
                        /\ skipped[n - 1] < skipped[n]
  <2> SUFFICES ASSUME NEW n \in 1 .. N
               PROVE  /\ skipped[n] \in Nat /\ skipped[n - 1] \in Nat
                      /\ skipped[n - 1] < skipped[n]
    OBVIOUS
  <2>1. After(slot, n) \in Slots
    BY <1>1, <1>4, AfterIs
  <2>2. Table[After(slot, n)].duration \in Nat \ {0}
    BY <2>1, SchedulerAssumption
  <2>3. skipped[n] = skipped[n - 1] + Table[After(slot, n)].duration
    BY <1>3 DEF Sums, Durations
  <2>4. skipped[n] \in Nat /\ skipped[n - 1] \in Nat
    BY <1>4
  <2> QED
    BY <2>2, <2>3, <2>4
<1>7. ReleaseAt(p, r) /\ r >= nextDeadline
  <2>1. r \in Int /\ r >= nextDeadline /\ nextDeadline + skipped[first - 1] <= r
        /\ r < nextDeadline + skipped[first]
    BY <1>1, <1>6
  <2>2. IsStart(p, After(slot, first))
    BY <1>3 DEF IsFirst
  <2> QED
    BY <1>5, <2>1, <2>2
<1>8. ASSUME NEW t \in nextDeadline .. r - 1 PROVE ~ ReleaseAt(p, t)
  <2> DEFINE S == {n \in 1 .. N : t < nextDeadline + skipped[n]}
  <2>1. first - 1 \in S
    <3>1. skipped[first - 1] \in Nat /\ t \in Int /\ t < r /\ nextDeadline <= t
      BY <1>1, <1>6
    <3>2. skipped[0] = 0
      BY <1>3 DEF Sums
    <3>3. first - 1 # 0
      BY <1>1, <3>1, <3>2
    <3>4. first - 1 \in 1 .. N
      BY <1>4, <3>3
    <3> QED
      BY <3>1, <3>4
  <2>2. S \in SUBSET Nat /\ \A n \in S : n \in 1 .. N /\ t < nextDeadline + skipped[n]
    OBVIOUS
  <2>3. \A n \in 1 .. N : n \notin S => ~ (t < nextDeadline + skipped[n])
    OBVIOUS
  <2> HIDE DEF S
  <2>4. PICK m \in S : \A n \in S : m <= n
    BY <2>1, <2>2, Least
  <2>5. m \in 1 .. N /\ m <= first - 1 /\ t < nextDeadline + skipped[m]
    BY <2>1, <2>2, <2>4
  <2>6. nextDeadline + skipped[m - 1] <= t
    <3>1. CASE m = 1
      <4>1. skipped[m - 1] = 0
        BY <1>3, <3>1 DEF Sums
      <4> QED
        BY <1>1, <1>6, <4>1
    <3>2. CASE m # 1
      <4>1. m - 1 \in 1 .. N /\ ~ (m <= m - 1)
        BY <1>4, <2>5, <3>2
      <4>2. ~ (t < nextDeadline + skipped[m - 1])
        BY <2>3, <2>4, <4>1
      <4>3. skipped[m - 1] \in Nat /\ t \in Int
        BY <1>1, <1>6, <2>5
      <4> QED
        BY <1>1, <4>2, <4>3
    <3> QED
      BY <3>1, <3>2
  <2>7. m \in 1 .. first - 1 /\ t \in Int
    BY <1>1, <1>4, <1>6, <2>5
  <2>8. ~ IsStart(p, After(slot, m))
    BY <1>3, <2>7 DEF IsFirst
  <2> QED
    BY <1>5, <2>5, <2>6, <2>7, <2>8
<1> QED
  BY <1>3, <1>7, <1>8 DEF FirstAfter

(* The results of the scans are kept for each partition.                   *)
ReleasesKept == release = [q \in Partitions |-> release[q]]

LEMMA ReleasesKeptInit == Init => ReleasesKept
  BY DEF Init, ReleasesKept

LEMMA ReleasesKeptNext == ReleasesKept /\ [Next]_vars => ReleasesKept'
<1> SUFFICES ASSUME ReleasesKept, [Next]_vars PROVE ReleasesKept'
  OBVIOUS
<1>1. ASSUME UNCHANGED release PROVE ReleasesKept'
  BY <1>1 DEF ReleasesKept
<1>2. ASSUME NEW q, NEW r, release' = [release EXCEPT ![q] = r] PROVE ReleasesKept'
  BY <1>2 DEF ReleasesKept
<1>3. ASSUME NEW q, NEW contexts, Switch(q, contexts) PROVE ReleasesKept'
  BY <1>1, <1>2, <1>3 DEF Switch, scan
<1>4. ASSUME NEW contexts, Sched(contexts) PROVE ReleasesKept'
  BY <1>3, <1>4 DEF Sched
<1>5. CASE TakeTick \/ Restart \/ ModuleReset
  BY <1>3, <1>4, <1>5 DEF TakeTick, Restart, ModuleReset
<1>6. CASE ReadSlot
  BY <1>2, <1>6 DEF ReadSlot
<1>7. CASE Clock \/ UNCHANGED vars
  BY <1>1, <1>7 DEF Clock, scan, vars
<1>8. CASE Boot \/ SysCall \/ Disable \/ Enable
  BY <1>1, <1>8 DEF Boot, SysCall, Disable, Enable, scan
<1>9. CASE JumpUser \/ ReturnUser \/ ReadDeadline
  BY <1>1, <1>9 DEF JumpUser, ReturnUser, ReadDeadline, scan
<1> QED
  BY <1>5, <1>6, <1>7, <1>8, <1>9 DEF Next, Code

(* Only ReadSlot ends a scan.                                              *)
ScanEnds(p) == pc[p] = "offset" /\ pc'[p] = "kernel"

LEMMA ScanEndsInReadSlot ==
  ASSUME Inv, [Next]_vars, NEW p \in Partitions, ScanEnds(p)
  PROVE  ReadSlot /\ p = part
<1>1. pc \in [Partitions -> Points] /\ pc[p] = "offset" /\ pc'[p] = "kernel"
  BY DEF Inv, TypeOK, ScanEnds
<1>2. ASSUME UNCHANGED pc PROVE FALSE
  BY <1>1, <1>2
<1>3. ASSUME NEW q, NEW to, pc' = [pc EXCEPT ![q] = to], p # q \/ to # "kernel" PROVE FALSE
  BY <1>1, <1>3
<1>4. ASSUME NEW q, NEW contexts, Switch(q, contexts) PROVE FALSE
  BY <1>2, <1>3, <1>4 DEF Switch
<1>5. ASSUME NEW contexts, Sched(contexts) PROVE FALSE
  BY <1>4, <1>5 DEF Sched
<1>6. CASE TakeTick \/ Restart \/ ModuleReset
  BY <1>4, <1>5, <1>6 DEF TakeTick, Restart, ModuleReset
<1>7. CASE Clock \/ UNCHANGED vars
  BY <1>2, <1>7 DEF Clock, context, vars
<1>8. ASSUME NEW from, NEW to, At(from, to), "offset" \notin from PROVE FALSE
  <2>1. pc' = [pc EXCEPT ![part] = to] /\ pc[part] \in from
    BY <1>8 DEF At
  <2>2. p # part
    BY <1>1, <1>8, <2>1
  <2> QED
    BY <1>3, <2>1, <2>2
<1>9. CASE Boot \/ SysCall \/ Disable \/ Enable
  BY <1>8, <1>9 DEF Boot, SysCall, Disable, Enable
<1>10. CASE JumpUser \/ ReturnUser \/ ReadDeadline
  BY <1>8, <1>10 DEF JumpUser, ReturnUser, ReadDeadline
<1>11. CASE ReadSlot
  <2>1. pc' = [pc EXCEPT ![part] = "kernel"]
    BY <1>11 DEF ReadSlot, At
  <2> QED
    BY <1>3, <1>11, <2>1
<1> QED
  BY <1>6, <1>7, <1>9, <1>10, <1>11 DEF Next, Code

LEMMA ReleasesFirst ==
  ASSUME Inv, Aligned, ReleasesKept, [Next]_vars, NEW p \in Partitions,
         pc[p] = "offset", pc'[p] = "kernel", offset[p] = nextDeadline
  PROVE  /\ ReleaseAt(p, release'[p])
         /\ release'[p] >= nextDeadline
         /\ \A t \in nextDeadline .. release'[p] - 1 : ~ ReleaseAt(p, t)
<1>1. ReadSlot /\ p = part
  BY ScanEndsInReadSlot DEF ScanEnds
<1>2. release' = [release EXCEPT ![part] = NextStart(part, slot, offset[part])]
  BY <1>1 DEF ReadSlot
<1>3. p \in DOMAIN release
  BY DEF ReleasesKept
<1>4. release'[p] = NextStart(p, slot, nextDeadline)
  BY <1>1, <1>2, <1>3
<1>5. FirstAfter(p, nextDeadline, release'[p])
  BY <1>4, ScanFinds
<1> QED
  BY <1>5 DEF FirstAfter

(* A release point computed without a tick in between is the first start of *)
(* a window for periodic processes of the partition, after the current slot,*)
(* for every table that the configurator accepts                           *)
(* (get_next_periodic_processing_start).                                   *)
THEOREM ReleasesAreFirst == Spec => FirstRelease
<1>1. Spec => [](Inv /\ Aligned /\ ReleasesKept)
  BY InitInv, Inductive, AlignedInit, AlignedNext, ReleasesKeptInit, ReleasesKeptNext, PTL DEF Spec
<1>2. Inv /\ Aligned /\ ReleasesKept /\ [Next]_vars =>
        [\A p \in Partitions :
           pc[p] = "offset" /\ pc'[p] = "kernel" /\ offset[p] = nextDeadline =>
             /\ ReleaseAt(p, release'[p])
             /\ release'[p] >= nextDeadline
             /\ \A t \in nextDeadline .. release'[p] - 1 : ~ReleaseAt(p, t)]_vars
  BY ReleasesFirst
<1> QED
  BY <1>1, <1>2, PTL DEF Spec, FirstRelease
================================================================================
