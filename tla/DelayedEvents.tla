------------------------------ MODULE DelayedEvents ------------------------------
(***************************************************************************)
(* The queue of delayed events of a partition, kernel/core/delayed_event.c: *)
(* a linked list in which every event has the address of the cell that      *)
(* points to it.  It is used with preemption disabled inside the partition, *)
(* but the check calls back functions that add and remove events.          *)
(***************************************************************************)
EXTENDS Naturals, Sequences, FiniteSets

CONSTANTS DelayedEvent, \* struct delayed_event, embedded in the threads
          FirstCell,    \* the cell first_event of the queue
          Null,         \* NULL
          MaxTimepoint, \* bound on the times
          MaxFired      \* bound on the events let out by one check

ASSUME DelayedAssumption ==
  /\ IsFiniteSet(DelayedEvent)
  /\ FirstCell \notin DelayedEvent /\ Null \notin DelayedEvent /\ FirstCell # Null
  /\ MaxTimepoint \in Nat \ {0} /\ MaxFired \in Nat

VARIABLES links,     \* next: what each cell points to; pprev: who points to an event
          timepoint, \* timepoint of each event
          checking,  \* the time given to the check in progress, or 0
          fired      \* the events this check called back, in order

list == <<links, timepoint, checking, fired>>

--------------------------------------------------------------------------------
Timepoints == 1 .. MaxTimepoint
Cells == DelayedEvent \union {FirstCell}   \* the cell next_event of an event, or the head

ListInit ==
  /\ links = [next  |-> [c \in Cells |-> Null], pprev |-> [e \in DelayedEvent |-> Null]]
  /\ timepoint = [e \in DelayedEvent |-> 1]
  /\ checking = 0
  /\ fired = <<>>

Queued(e) == links.pprev[e] # Null

(* The cell that points to e points to to, and the one after knows it.     *)
Point(l, cell, to) ==
  [next  |-> [l.next EXCEPT ![cell] = to],
   pprev |-> [e \in DelayedEvent |-> IF e = to THEN cell ELSE l.pprev[e]]]

Clear(l, e) == [l EXCEPT !.pprev[e] = Null]

UnlinkNoBack(l, e) ==       \* mutant: the next event keeps its old pprev
  [l EXCEPT !.next[l.pprev[e]] = l.next[e], !.pprev[e] = Null]

Unlink(l, e) == Clear(Point(l, l.pprev[e], l.next[e]), e)

(* The cells from the head on; Null once the list is over.                 *)
Chain(l) ==
  LET cell[n \in 0 .. Cardinality(DelayedEvent)] ==
        IF n = 0 THEN FirstCell
        ELSE IF cell[n - 1] = Null THEN Null ELSE l.next[cell[n - 1]]
  IN  cell

StopsBeforeEqual(l, cell, t) ==              \* mutant: ahead of equal times
  l.next[cell] = Null \/ timepoint[l.next[cell]] >= t

StopsAt(l, cell, t) == l.next[cell] = Null \/ timepoint[l.next[cell]] > t

(* The first cell that points to nothing, or to a later event.             *)
InsertionPoint(l, t) ==
  LET chain == Chain(l)
      stops == {n \in DOMAIN chain : chain[n] # Null /\ StopsAt(l, chain[n], t)}
  IN  chain[CHOOSE n \in stops : \A m \in stops : n <= m]

--------------------------------------------------------------------------------
(* delayed_event_add: "Remove event from queue, if it was."                *)
Add(e, t) ==
  LET rest == IF Queued(e) THEN Unlink(links, e) ELSE links
      cell == InsertionPoint(rest, t)
  IN  /\ links' = Point(Point(rest, e, rest.next[cell]), cell, e)
      /\ timepoint' = [timepoint EXCEPT ![e] = t]
      /\ UNCHANGED <<checking, fired>>

(* delayed_event_remove.                                                   *)
Remove(e) ==
  /\ links' = IF Queued(e) THEN Unlink(links, e) ELSE links
  /\ UNCHANGED <<timepoint, checking, fired>>

(* delayed_event_queue_check begins; its callbacks do not call it.         *)
Start(t) ==
  /\ checking = 0
  /\ checking' = t
  /\ UNCHANGED <<links, timepoint, fired>>

First == links.next[FirstCell]

(* The check goes on with the first event.                                 *)
Due(e) == timepoint[e] <= checking

Fire ==
  /\ checking # 0 /\ Len(fired) < MaxFired
  /\ First # Null /\ Due(First)
  /\ links' = Clear(Point(links, FirstCell, links.next[First]), First)
  /\ fired' = Append(fired, First)
  /\ UNCHANGED <<timepoint, checking>>

Finish ==
  /\ checking # 0
  /\ First # Null => ~Due(First)
  /\ checking' = 0
  /\ fired' = <<>>
  /\ UNCHANGED <<links, timepoint>>

(* Add and Remove come between checks, or from the callback of an event.   *)
ListNext ==
  \/ \E e \in DelayedEvent, t \in Timepoints : Add(e, t)
  \/ \E e \in DelayedEvent : Remove(e)
  \/ \E t \in Timepoints : Start(t)
  \/ Fire \/ Finish

ListSpec == ListInit /\ [][ListNext]_list
--------------------------------------------------------------------------------
ListTypes ==
  /\ links.next \in [Cells -> DelayedEvent \union {Null}]
  /\ links.pprev \in [DelayedEvent -> Cells \union {Null}]
  /\ timepoint \in [DelayedEvent -> Timepoints]
  /\ checking \in Timepoints \union {0}
  /\ fired \in Seq(DelayedEvent)

(* The events that a walk along the list meets.                            *)
EventsOn(l) == {Chain(l)[n] : n \in 1 .. Cardinality(DelayedEvent)} \ {Null}

(* The list has no cycle, the events on it are those with a pprev, and each *)
(* pprev is the cell that points to the event: without this a removal in a  *)
(* callback writes into a cell that is no longer part of the list.         *)
WellLinked ==
  /\ ListTypes
  /\ EventsOn(links) = {e \in DelayedEvent : Queued(e)}
  /\ \A e \in DelayedEvent : Queued(e) => links.next[links.pprev[e]] = e
  /\ Chain(links)[Cardinality(DelayedEvent)] # Null =>
       links.next[Chain(links)[Cardinality(DelayedEvent)]] = Null

(* The linked list implements the sorted queue.                            *)
Entries(l, times) ==
  [n \in 1 .. Cardinality(EventsOn(l)) |-> [event |-> Chain(l)[n], time |-> times[Chain(l)[n]]]]

Queue == INSTANCE DelayedQueue WITH
  Events <- DelayedEvent, Times <- Timepoints, queue <- Entries(links, timepoint)

(* Events are called back in the order of their times and, at equal times,  *)
(* in the order in which they were added.                                  *)
QueueSpec == Queue!Spec
================================================================================
