------------------------------- MODULE MCObjects --------------------------------
(* ARINC-653 objects on a small instance: three threads of different          *)
(* priorities and one object.                                              *)
EXTENDS Objects

CONSTANTS t1, t2, t3, s1

MCBasePriority == t1 :> 1 @@ t2 :> 2 @@ t3 :> 3
Program(k, may) == [kind |-> k, calls |-> may]

MCPrograms ==
  {Program("semaphore", may) : may \in
     {{"sleep", "forever", "stop", "lock"}, {"sleep", "timeout"}, {"sleep", "stop", "suspend"},
      {"stop", "suspend", "timeout"}, {"priority"}}}
  \union {Program(k, {"sleep", "stop"}) : k \in {"buffer", "blackboard", "event"}}
  \union {Program("blackboard", {"sleep", "timeout"})}
MCTimeouts == {Program("semaphore", {"sleep", "timeout"})}
================================================================================
