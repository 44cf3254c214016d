--------------------------- MODULE MCNetworkPartition ---------------------------
(* Three stations: this one, its peer, and one that asks for addresses.     *)
EXTENDS NetworkPartition

CONSTANTS Me, Peer, M1

Frame(dst, type, addr, m) ==
  [src |-> Peer, dst |-> dst, ethertype |-> type, valid |-> TRUE,
   addr |-> addr, payload |-> m]

(* A request for our address, a message for a port, and a frame for someone *)
(* else.                                                                   *)
MCFrames == { Frame(Everybody, "arp", Me, NoMessage),
              Frame(Me, "ip", Me, M1),
              Frame(Peer, "ip", Me, M1) }
Mine == {Me}
================================================================================
