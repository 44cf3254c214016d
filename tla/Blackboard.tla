-------------------------------- MODULE Blackboard -------------------------------
(***************************************************************************)
(* Blackboards and events: libpok/arinc653/blackboard.c and event.c.  A      *)
(* blackboard holds a message or none; an event is up or down.             *)
(***************************************************************************)
EXTENDS ArincObjects

Up == "up"                         \* the state of an event that is set

(* CREATE_BLACKBOARD, CREATE_EVENT.                                        *)
BoardInit ==
  /\ kind \in {"blackboard", "event"}
  /\ object = [s \in Sections |-> None] /\ byPriority = [s \in Sections |-> TRUE]

Writable == IF kind = "event" THEN {Up} ELSE Messages
Notice(t) == object[using[t]]

(* DISPLAY_BLACKBOARD, SET_EVENT: all those that wait go on, each with a     *)
(* copy of the message of a blackboard.                                    *)
Display(t, n) ==
  /\ Change(t, n) /\ Notify(t, TRUE, "woken", "release")
  /\ UNCHANGED parcel /\ KeepBut

AllOut(t) == DelAll(using[t], Queued(using[t]))

FirstGiven(t) == {FirstIn(t)}      \* mutant: only one gets the message
Given(t) == ToSet(Queued(using[t]))

Copy(t) ==
  /\ Step(t, "woken", "release")
  /\ parcel' = [u \in Threads |-> IF kind = "blackboard" /\ u \in Given(t) THEN Notice(t)
                                  ELSE parcel[u]]
  /\ queue' = AllOut(t)
  /\ UNCHANGED <<shared, using, object>> /\ KeepBut

(* CLEAR_BLACKBOARD, RESET_EVENT.                                          *)
Clear(t) == Body(t, None)

(* READ_BLACKBOARD, WAIT_EVENT.                                            *)
Read(t) ==
  \/ Notice(t) # None /\ Body(t, Notice(t))
  \/ Notice(t) = None /\ (NotAvailable(t) \/ Block(t, TRUE, None))

BoardStep(t) ==
  /\ kind \in {"blackboard", "event"} /\ pc[t] \in Inside
  /\ (\E n \in Writable : Display(t, n)) \/ Copy(t) \/ Clear(t) \/ Read(t)
================================================================================
