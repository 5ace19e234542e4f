---------------------------- MODULE MCUdpSniffer ----------------------------
(* UdpSniffer for TLC.  Other traffic: a peer on another host that leaves, *)
(* a DNS answer and its like over IPv6, UDP to the port of HTTP and HTTP   *)
(* itself, and TCP from the chat's port.                                   *)
EXTENDS UdpSniffer

Sent(ether, proto, source, dest, text) ==
    [from |-> None, ether |-> ether, proto |-> proto, source |-> source, dest |-> dest,
     text |-> text]

SomeTraffic ==
    {Sent("ip", "udp", Chat, Chat, Note("leave")), Sent("ip", "udp", 53, 5000, Empty),
     Sent("ipv6", "udp", 53, 5000, Empty), Sent("ip", "udp", 5000, 80, Empty),
     Sent("ip", "tcp", 5000, 80, Empty), Sent("ip", "tcp", Chat, 5000, Empty)}
=============================================================================
