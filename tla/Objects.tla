--------------------------------- MODULE Objects ---------------------------------
(***************************************************************************)
(* A program of one partition whose threads share ARINC-653 objects of one  *)
(* kind: the operations of Semaphore, Buffer and Blackboard, with the calls  *)
(* and the events of ArincObjects.                                         *)
(***************************************************************************)
EXTENDS Semaphore, Buffer, Blackboard

ObjInit ==
  /\ LibraryInit
  /\ SemaphoreInit \/ BufferInit \/ BoardInit
  /\ parcel = [t \in Threads |-> None]
  /\ \E p \in Programs : kind = p.kind /\ calls = p.calls

ObjNext ==
  /\ \/ \E t \in Threads :
          ObjectStep(t) \/ SemaphoreStep(t) \/ BufferStep(t) \/ BoardStep(t)
     \/ Event \/ SelectNext
  /\ UNCHANGED partition

ObjSpec == ObjInit /\ [][ObjNext]_objVars

(* msection_entering "is a pointer" to the section that a preempted process   *)
(* is entering, "Otherwise NULL" (thread.h): it is NULL for the thread that   *)
(* runs.  An event that interrupts msection_enter and asks for no new choice  *)
(* of the thread that runs leaves it set, and the thread goes on.          *)
MarkUsed == ~disabled /\ current # None => entering[current] = None

(* The behaviours in which this does not happen: what interrupts              *)
(* msection_enter is the event of a thread that then comes first.          *)
ComesFirst(u) ==
  /\ delayed[u] # "none" /\ (suspended[u] => delayed[u] = "resume")
  /\ eligible = <<>> \/ priority[u] > priority[Head(eligible)]

Preemptive ==
  /\ MarkUsed'
  /\ Event /\ current # None /\ entering'[current] # None => \E u \in Threads : ComesFirst(u)

PreemptiveSpec == ObjInit /\ [][ObjNext /\ Preemptive]_objVars

--------------------------------------------------------------------------------
(* What the kernel believes is true: a thread that it would make the owner  *)
(* of a section is in msection_enter of this section, or waits in it.       *)
EnteringIsTrue ==
  \A t \in Threads :
    entering[t] # None =>
      using[t] = entering[t] /\ pc[t] \in {"test", "claim", "help", "entered", "result"}

(* The assertions of select_thread hold whenever a thread is selected (the   *)
(* owner of a section is never waiting or stopped, and the chain of owners  *)
(* ends) ...                                                               *)
SelectionAllowed == disabled /\ recheck => CanRun(Choice)

(* ... and so do those of the notification and of the count of a queue,      *)
(* whenever one may be asked for.                                          *)
AssertionsHold ==
  /\ SelectionAllowed
  /\ \A t \in Threads : pc[t] = "body" /\ owner[using[t]] = t => QueuedEnter(t)

(* Outside of the kernel, the thread that runs is the one that the selected  *)
(* thread depends on, or has just released the section that it was waited    *)
(* for and is about to say so: no release is missed.                       *)
NoReleaseMissed ==
  ~disabled => /\ selected = Choice
               /\ \/ current = Runner(Choice)
                  \/ pc[current] \in {"uncount", "testFlag", "resched"}

(* STOP of a thread in a section: its donators are exactly those in its list, *)
(* they do not run, and the thread that they wait for is not stopped while   *)
(* they do.                                                                *)
DonatorsWait ==
  \A t \in Threads :
    /\ donateTarget[t] # None => /\ state[donateTarget[t]] # "stopped"
                                 /\ t \in Donators(donateTarget[t])
                                 /\ ~(current = t /\ ~disabled)
    /\ state[t] = "stopped" => firstDonator[t] = None

(* The promises of the objects, while no thread leaves a queue by itself.   *)
(* Most steps of the library are no step of the object: UNCHANGED says so     *)
(* before TLC looks for one.                                               *)
Promised(k) == kind = k /\ "timeout" \notin calls
NotBack == {t \in Threads : pc[t] \in {"wait", "denied", "result"}}
In(pcs, s) == {t \in Threads : pc[t] \in pcs /\ using[t] = s}

Counting == INSTANCE CountingSemaphore
              WITH Semaphores <- Sections, Priorities <- Priorities \union {0}, value <- object

(* Semaphores are counting semaphores: each SIGNAL serves the first thread of *)
(* the line, or adds one if nobody is in it.                               *)
CountingSemaphores ==
  /\ Promised("semaphore") => Counting!Init
  /\ [][ Promised("semaphore") => UNCHANGED Counting!vars \/ Counting!Next ]_Counting!vars

(* The messages of a buffer, with the one that is about to come in; and those *)
(* that threads hold, with the one that is about to be copied.             *)
Held(s) ==
  LET b == object[s]
      inside == [i \in 1 .. b.nb |-> b.slots[MessageIndex(b, i - 1)]]
  IN  IF In({"refill"}, s) = {} THEN inside ELSE Append(inside, parcel[queue.first[s]])

InHand(t) ==
  IF \E s \in Sections : In({"woken"}, s) # {} /\ queue.first[s] = t
  THEN parcel[CHOOSE u \in Threads : pc[u] = "woken" /\ FirstIn(u) = t]
  ELSE IF pc[t] \in {"woken", "nobody"} THEN None ELSE parcel[t]

BufferOf == INSTANCE MessageBuffer
              WITH Buffers <- Sections, Priorities <- Priorities \union {0},
                   blocked <- NotBack, messages <- [s \in Sections |-> Held(s)],
                   hand <- [t \in Threads |-> InHand(t)]

(* Buffers are first-in first-out, lose and repeat nothing, and a sender or   *)
(* a receiver that waits is served as soon as the other side comes.        *)
FifoBuffers ==
  /\ Promised("buffer") => BufferOf!Init
  /\ [][ Promised("buffer") => UNCHANGED BufferOf!vars \/ BufferOf!Next ]_BufferOf!vars

WokenBySet(t) == pc[t] = "result" /\ ~Waiting(t) /\ waitResult[t] = "ok"

NoticeIn(t) ==
  IF kind = "event" THEN IF WokenBySet(t) THEN Up ELSE None
  ELSE IF \E u \in Threads : pc[u] = "woken" /\ t \in ToSet(Queued(using[u]))
  THEN Notice(CHOOSE u \in Threads : pc[u] = "woken" /\ t \in ToSet(Queued(using[u])))
  ELSE parcel[t]

Board == INSTANCE NoticeBoard
           WITH Boards <- Sections, Notices <- Messages \union {Up}, notice <- object,
                waiters <- [s \in Sections |-> {line[s][i].thread : i \in DOMAIN line[s]}],
                blocked <- NotBack, hand <- [t \in Threads |-> NoticeIn(t)]

(* Blackboards and events release everybody who waits when they are written,  *)
(* and a thread released from a blackboard has the message of that moment.  *)
NoticeBoards ==
  /\ Promised("blackboard") \/ Promised("event") => Board!Init
  /\ [][ Promised("blackboard") \/ Promised("event") => UNCHANGED Board!vars \/ Board!Next ]_Board!vars

(* SIGNAL_SEMAPHORE adds one to the value where, as its comment says, "no    *)
(* one waits on semaphore".  A thread whose time is over is taken out of     *)
(* the queue twice when a SIGNAL passes it before it runs: by the kernel,    *)
(* and then by itself, with links that say that it is alone in the queue;   *)
(* the threads that are in it are lost.                                    *)
NobodyWaits ==
  \A t, u \in Threads : ~(pc[t] = "nobody" /\ InQueue(u) /\ entering[u] = using[t])
================================================================================
