-------------------------------- MODULE Semaphore --------------------------------
(* Semaphores: libpok/arinc653/semaphore.c.                                  *)
EXTENDS ArincObjects

(* CREATE_SEMAPHORE, with its current value and its discipline.            *)
SemaphoreInit ==
  /\ kind = "semaphore"
  /\ object \in [Sections -> 0 .. MaxValue] /\ byPriority \in [Sections -> BOOLEAN]

Value(t) == object[using[t]]

(* WAIT_SEMAPHORE.                                                         *)
WaitSemaphore(t) ==
  \/ Value(t) > 0 /\ Body(t, Value(t) - 1)
  \/ Value(t) = 0 /\ (NotAvailable(t) \/ Block(t, byPriority[using[t]], None))

(* SIGNAL_SEMAPHORE.                                                       *)
SignalSemaphore(t) == Notify(t, FALSE, "woken", "nobody") /\ Keep

Served(t) ==
  /\ Step(t, "woken", "release") /\ queue' = FirstOut(t)
  /\ UNCHANGED <<shared, using>> /\ Keep

Signalled(v) == IF v = MaxValue THEN v ELSE v + 1

Add(t) ==
  /\ Step(t, "nobody", "release") /\ Change(t, Signalled(Value(t)))
  /\ UNCHANGED <<shared, using, queue, parcel>> /\ KeepBut

SemaphoreStep(t) ==
  /\ kind = "semaphore" /\ pc[t] \in Inside
  /\ WaitSemaphore(t) \/ SignalSemaphore(t) \/ Served(t) \/ Add(t)
================================================================================
