------------------------------ MODULE NetworkFrames ------------------------------
(***************************************************************************)
(* The frames of a network partition, and what its components              *)
(* (syspart/components: mac, arp, udp_ip, arinc) make of them.  A frame is  *)
(* a record of the fields on which a component decides; `valid' stands for  *)
(* the lengths, checksums and constant fields of its headers.              *)
(***************************************************************************)
CONSTANTS Messages,  \* payloads
          NoMessage, \* the payload of a frame that carries none
          NoFrame,   \* the content of an empty buffer
          Everybody, \* a multicast MAC address
          MyMac,     \* my_mac, src_mac
          PeerMac,   \* dst_mac, the station messages are sent to
          PeerAddr,  \* dst_ip with dst_port
          GoodIps,   \* good_ips of the ARP answerer
          Routes,    \* map_ip_port_to_idx of the router
          Frames     \* frames that other stations send

(* mac_send adds the Ethernet header.                                      *)
EtherFrame(dst, type, addr, payload) ==
  [src |-> MyMac, dst |-> dst, ethertype |-> type, valid |-> TRUE,
   addr |-> addr, payload |-> payload]

(* udp_ip_send adds the headers of IP and UDP to a message.                *)
UdpFrame(m) == EtherFrame(PeerMac, "ip", PeerAddr, m)

(* The answer to an ARP request names the address asked for.               *)
ArpAnswer(f) == EtherFrame(f.src, "arp", f.addr, NoMessage)

(* mac_receive passes a frame on by its type.                              *)
MacAccepts(f, type) == f.dst \in {MyMac, Everybody} /\ f.ethertype = type

(* arp_receive answers a request for one of our addresses.                 *)
Asks(f) == MacAccepts(f, "arp") /\ f.valid /\ f.addr \in GoodIps

(* udp_receive looks at the headers, the router finds the port.            *)
UdpAccepts(f) == MacAccepts(f, "ip") /\ f.valid
Routed(f) == UdpAccepts(f) /\ f.addr \in Routes
================================================================================
