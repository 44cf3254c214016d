----------------------------- MODULE ModuleScheduler -----------------------------
(***************************************************************************)
(* The scheduler of the module, kernel/core/sched.c: a cyclic table of      *)
(* windows gives the processor to the partitions.  A tick of the clock is   *)
(* an interrupt, taken when the running code lets it; pok_sched then moves  *)
(* to the next slot when the deadline of the current one has passed.        *)
(*                                                                         *)
(* Each partition is reduced to the place its kernel context is at, which   *)
(* is what a switch saves and resumes, and to one process in user space,    *)
(* for the floating point registers.  What the partition does of its timer  *)
(* and its events is in PartitionEvents.                                    *)
(***************************************************************************)
EXTENDS Integers, Sequences, FiniteSets

CONSTANTS Partitions,
          None,
          Table,         \* pok_module_sched: duration, partition, start
          Frame,         \* pok_config_scheduling_major_frame
          MaxLate,       \* how long interrupts may stay disabled
          MaxTime,       \* bound on the system time
          MaxGeneration, \* partition_generation wraps after it
          MaxReset       \* the module is not reset after this time

N == Len(Table)
Slots == 1 .. N

(* Ends of the windows in the frame.                                       *)
EndOf[i \in 0 .. N] == IF i = 0 THEN 0 ELSE EndOf[i - 1] + Table[i].duration

(* The configurator refuses an empty table and adds the durations up to the *)
(* frame; a window outlasts any section that disables the interrupts.       *)
ASSUME SchedulerAssumption ==
  /\ None \notin Partitions
  /\ N \in Nat \ {0}
  /\ MaxLate \in Nat /\ MaxTime \in Nat /\ MaxReset \in Nat
  /\ MaxGeneration \in Nat \ {0}
  /\ \A i \in Slots : /\ Table[i].partition \in Partitions
                      /\ Table[i].start \in BOOLEAN
                      /\ Table[i].duration \in Nat
                      /\ Table[i].duration > MaxLate
  /\ Frame \in Nat /\ Frame = EndOf[N]

(* It refuses a partition without a window to release its periodic          *)
(* processes in (misc/chpok_configuration.py), as sched.c 422 relies on.   *)
ASSUME StartsAssumption ==
  \A p \in Partitions : \E i \in Slots : Table[i].start /\ Table[i].partition = p

VARIABLES now,           \* system time
          tick, late,    \* a tick waits to be taken, and for how long
          slot,          \* pok_sched_current_slot, counted from 1
          nextDeadline,  \* pok_sched_next_deadline
          nextFrame,     \* pok_sched_next_major_frame
          frameStart,    \* first_frame_starts
          part,          \* current_partition
          sp,            \* whether a partition has a context to resume
          pc,            \* where that context is
          generation,    \* partition_generation
          born,          \* the generation that context was made in
          offset,        \* `offset' of get_next_periodic_processing_start
          release,       \* what it returned last, 0 if nothing
          fpLast,        \* the partition of fp_store_last
          fpRegs,        \* whose values the floating point registers hold
          fpStore        \* whose values the save areas hold

clock == <<slot, nextDeadline, nextFrame, frameStart>>
context == <<part, sp, pc, generation, born>>
scan == <<offset, release>>
fp == <<fpLast, fpRegs, fpStore>>
vars == <<now, tick, late, clock, context, scan, fp>>

Points == {"start", "boot", "user", "kernel", "masked", "offset"}

(* The interrupts are enabled everywhere but between pok_preemption_disable *)
(* and pok_preemption_enable, and at the start of a partition.              *)
Interruptible == pc[part] \notin {"start", "masked"}

NextSlot(i) == IF i = N THEN 1 ELSE i + 1

NextGeneration(g) == IF g = MaxGeneration THEN 1 ELSE g + 1

TypeOK ==
  /\ now \in 0 .. MaxTime /\ tick \in BOOLEAN /\ late \in 0 .. MaxLate
  /\ slot \in Slots
  /\ nextDeadline \in Nat /\ nextFrame \in Nat /\ frameStart \in Nat
  /\ part \in Partitions
  /\ sp \in [Partitions -> BOOLEAN]
  /\ pc \in [Partitions -> Points]
  /\ generation \in [Partitions -> 1 .. MaxGeneration]
  /\ born \in [Partitions -> 1 .. MaxGeneration]
  /\ offset \in [Partitions -> Nat]
  /\ fpLast \in Partitions \union {None} /\ fpRegs \in Partitions \union {None}
  /\ fpStore \in [Partitions -> Partitions \union {None}]

(* pok_sched_start, after the boot.                                        *)
Init ==
  /\ now = 0 /\ tick = FALSE /\ late = 0
  /\ slot = 1
  /\ nextDeadline = Table[1].duration
  /\ nextFrame = Frame
  /\ frameStart = 0
  /\ part = Table[1].partition
  /\ sp = [p \in Partitions |-> p = part]
  /\ pc = [p \in Partitions |-> "start"]
  /\ generation = [p \in Partitions |-> 1]
  /\ born = [p \in Partitions |-> 1]
  /\ offset = [p \in Partitions |-> 0]
  /\ release = [p \in Partitions |-> 0]
  /\ fpLast = None /\ fpRegs = None
  /\ fpStore = [p \in Partitions |-> None]

--------------------------------------------------------------------------------
(* Time passes; the tick that tells of it waits until it is taken.         *)
Clock ==
  /\ now < MaxTime
  /\ tick => late < MaxLate
  /\ now' = now + 1
  /\ tick' = TRUE
  /\ late' = IF tick THEN late + 1 ELSE 0
  /\ UNCHANGED <<clock, context, scan, fp>>

SwitchSaves(q, contexts) ==                  \* mutant: stores what is left
  /\ part' = q
  /\ sp' = [contexts EXCEPT ![q] = TRUE, ![part] = TRUE]
  /\ IF contexts[q]
     THEN UNCHANGED <<pc, born, scan>>
     ELSE /\ pc' = [pc EXCEPT ![q] = "start"]
          /\ born' = [born EXCEPT ![q] = generation'[q]]
          /\ offset' = [offset EXCEPT ![q] = 0]
          /\ release' = [release EXCEPT ![q] = 0]

SwitchNever(q, contexts) ==                  \* mutant: resumes only
  /\ part' = IF contexts[q] THEN q ELSE part
  /\ sp' = contexts
  /\ UNCHANGED <<pc, born, scan>>

(* Control goes to partition q: its context is resumed where it was, or     *)
(* made anew on start_partition when it has none (after a restart).  The    *)
(* context that is left is stored only if there is one (contexts[part]).   *)
Switch(q, contexts) ==
  /\ part' = q
  /\ sp' = [contexts EXCEPT ![q] = TRUE]
  /\ IF contexts[q]
     THEN UNCHANGED <<pc, born, scan>>
     ELSE /\ pc' = [pc EXCEPT ![q] = "start"]
          /\ born' = [born EXCEPT ![q] = generation'[q]]
          /\ offset' = [offset EXCEPT ![q] = 0]
          /\ release' = [release EXCEPT ![q] = 0]

NextWindowFromNow ==                         \* mutant: late windows drift
  /\ slot' = NextSlot(slot)
  /\ nextFrame' = IF slot = N THEN nextFrame + Frame ELSE nextFrame
  /\ nextDeadline' = now + Table[slot'].duration
  /\ UNCHANGED frameStart

(* The current slot ends: one step in the table, whatever the time is.     *)
NextWindow ==
  /\ slot' = NextSlot(slot)
  /\ nextFrame' = IF slot = N THEN nextFrame + Frame ELSE nextFrame
  /\ nextDeadline' = nextDeadline + Table[slot'].duration
  /\ UNCHANGED frameStart

(* pok_sched, with sched_need_recheck set by the caller.                    *)
Sched(contexts) ==
  IF nextDeadline > now
  THEN UNCHANGED clock /\ Switch(part, contexts)
  ELSE NextWindow /\ Switch(Table[slot'].partition, contexts)

(* pok_sched_on_time_changed: the tick interrupts the running code, between *)
(* any two of its steps.                                                   *)
TakeTick ==
  /\ tick /\ Interruptible
  /\ tick' = FALSE /\ late' = 0
  /\ UNCHANGED <<now, generation, fp>>
  /\ Sched(sp)

--------------------------------------------------------------------------------
At(from, to) ==
  /\ pc[part] \in from
  /\ pc' = [pc EXCEPT ![part] = to]
  /\ UNCHANGED <<now, tick, late, clock, part, sp, generation, born>>

(* start_partition enables the interrupts on the new stack.                *)
Boot == At({"start"}, "boot") /\ UNCHANGED <<scan, fp>>

(* A system call, a section with the interrupts disabled, and its end.      *)
SysCall == At({"user"}, "kernel") /\ UNCHANGED <<scan, fp>>
Disable == At({"kernel"}, "masked") /\ UNCHANGED <<scan, fp>>
Enable == At({"masked"}, "kernel") /\ UNCHANGED <<scan, fp>>

Saved == IF fpLast = None THEN fpStore ELSE [fpStore EXCEPT ![fpLast] = fpRegs]

(* A process starts in user space (pok_partition_jump_user).               *)
JumpUser ==
  /\ At({"boot", "kernel"}, "user")
  /\ fpStore' = IF fpLast = part THEN fpStore ELSE Saved
  /\ fpLast' = part
  /\ fpRegs' = part
  /\ UNCHANGED scan

(* A process goes back to user space from a system call.                    *)
ReturnUser ==
  /\ At({"kernel"}, "user")
  /\ IF fpLast = part
     THEN UNCHANGED fp
     ELSE /\ fpStore' = Saved
          /\ fpLast' = part
          /\ fpRegs' = Saved[part]
  /\ UNCHANGED scan

(* get_next_periodic_processing_start reads the deadline, then the slot.   *)
ReadDeadline ==
  /\ At({"kernel"}, "offset")
  /\ offset' = [offset EXCEPT ![part] = nextDeadline]
  /\ UNCHANGED <<release, fp>>

IsStart(p, i) == Table[i].start /\ Table[i].partition = p
After(i, k) == ((i + k - 1) % N) + 1

NextStartLater(p, i, at) ==                  \* mutant: adds, then looks
  LET skipped[k \in 0 .. N] ==
        IF k = 0 THEN 0 ELSE skipped[k - 1] + Table[After(i, k)].duration
      first == CHOOSE k \in 1 .. N : /\ IsStart(p, After(i, k))
                                     /\ \A j \in 1 .. k - 1 : ~IsStart(p, After(i, j))
  IN at + skipped[first]

(* The scan of the slots that follow slot i, whose end is at: the first     *)
(* that releases periodic processes of p.                                  *)
NextStart(p, i, at) ==
  LET skipped[k \in 0 .. N] ==
        IF k = 0 THEN 0 ELSE skipped[k - 1] + Table[After(i, k)].duration
      first == CHOOSE k \in 1 .. N : /\ IsStart(p, After(i, k))
                                     /\ \A j \in 1 .. k - 1 : ~IsStart(p, After(i, j))
  IN at + skipped[first - 1]

ReadSlot ==
  /\ At({"offset"}, "kernel")
  /\ release' = [release EXCEPT ![part] = NextStart(part, slot, offset[part])]
  /\ offset' = [offset EXCEPT ![part] = 0]       \* the local variable is gone
  /\ UNCHANGED fp

--------------------------------------------------------------------------------
(* pok_partition_restart: the partition drops its context and asks for the  *)
(* scheduler, which starts it again now, or when its next window comes.    *)
Restart ==
  /\ pc[part] \in {"boot", "kernel"}
  /\ generation' = [generation EXCEPT ![part] = NextGeneration(@)]
  /\ UNCHANGED <<now, tick, late, fp>>
  /\ Sched([sp EXCEPT ![part] = FALSE])

(* An error whose action is to reset the module (perform_module_action,     *)
(* pok_sched_restart): every partition starts again, in a new frame.       *)
ModuleReset ==
  /\ now <= MaxReset
  /\ generation' = [p \in Partitions |-> NextGeneration(generation[p])]
  /\ slot' = 1
  /\ frameStart' = now
  /\ nextFrame' = now + Frame
  /\ nextDeadline' = now + Table[1].duration
  /\ UNCHANGED <<now, tick, late, fp>>
  /\ Switch(Table[1].partition, [p \in Partitions |-> FALSE])

Code == Boot \/ SysCall \/ Disable \/ Enable \/ JumpUser \/ ReturnUser
        \/ ReadDeadline \/ ReadSlot \/ Restart \/ ModuleReset

Next == Clock \/ TakeTick \/ Code

(* Time passes.  The interrupt controller keeps a tick until it is taken,   *)
(* and whoever disables the interrupts enables them again.                 *)
Fairness == /\ WF_vars(Clock) /\ SF_vars(TakeTick)
            /\ WF_vars(Boot) /\ WF_vars(Enable)

Spec == Init /\ [][Next]_vars
FairSpec == Spec /\ Fairness

--------------------------------------------------------------------------------
(* The current partition is that of the current slot, whose window has      *)
(* begun, and has not ended unless a tick is waiting (pok_sched).          *)
OwnWindow ==
  /\ part = Table[slot].partition
  /\ nextDeadline <= now + Table[slot].duration
  /\ now < nextDeadline + (IF tick THEN late + 1 ELSE 0)

(* Which slot the table gives the time t to.                               *)
SlotAt(t) == CHOOSE i \in Slots : /\ EndOf[i - 1] <= (t - frameStart) % Frame
                                  /\ (t - frameStart) % Frame < EndOf[i]

(* Whatever the restarts and the delays of the ticks were, once a tick has  *)
(* been taken the slot is the one the table gives to this instant, counted  *)
(* from the start of the frames: slots do not drift (pok_sched).            *)
OnSchedule == ~tick => slot = SlotAt(now)

(* The code that runs is of the current generation of its partition: a      *)
(* context that was dropped in a restart is never stored and resumed        *)
(* (inter_partition_switch, pok_partition_restart, pok_partition_reset).   *)
NoOldGeneration == sp[part] /\ born[part] = generation[part]

ReleaseAt(p, t) == \E i \in Slots : /\ IsStart(p, i)
                                     /\ (t - frameStart) % Frame = EndOf[i - 1]

(* A release point computed without a tick in between is the first start of *)
(* a window for periodic processes of the partition, after the current slot *)
(* (get_next_periodic_processing_start).                                   *)
FirstRelease ==
  [][\A p \in Partitions :
       pc[p] = "offset" /\ pc'[p] = "kernel" /\ offset[p] = nextDeadline =>
         /\ ReleaseAt(p, release'[p])
         /\ release'[p] >= nextDeadline
         /\ \A t \in nextDeadline .. release'[p] - 1 : ~ReleaseAt(p, t)]_vars

(* Every release point is the start of such a window.                      *)
ReleaseInWindow ==
  \A p \in Partitions : sp[p] /\ release[p] # 0 => ReleaseAt(p, release[p])

(* A process in user space runs with its own floating point registers.     *)
OwnRegisters == pc[part] = "user" => fpRegs = part

(* A partition without a context starts again within a frame               *)
(* (pok_partition_reset, inter_partition_switch).                          *)
StartsAgain ==
  \A p \in {Table[i].partition : i \in Slots} :
    ~sp[p] /\ now + Frame + MaxLate < MaxTime ~> sp[p]
================================================================================
