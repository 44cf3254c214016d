------------------------------ MODULE MCQueuingPort ------------------------------
(* Two processes at each end, so that one can wait behind the other; two    *)
(* priorities; one content, for QueuingChannel checks the contents.        *)
EXTENDS QueuingPort

Prio == {1, 2}
================================================================================
