----------------------------- MODULE UdpSniffer -----------------------------
(***************************************************************************)
(* 08/udp_sniffer.c, next to the chat of 06: a raw socket that gets every  *)
(* frame of an interface, whichever filter is chosen later, and a loop     *)
(* that prints those that are UDP and match it.                            *)
(*                                                                         *)
(* Left out: frames that the kernel drops because the program is slow, the *)
(* second copy of a frame on lo, frames of other interfaces between socket *)
(* and bind, fragments; MAC and IP addresses, times, and the layout.       *)
(***************************************************************************)
EXTENDS UdpChat

VARIABLES spc,              \* where the sniffer is
          capture_running,
          filter_type,
          opened, next,     \* which packets it has got, of those on the wire
          printed,          \* packets that were printed, by their place on the wire
          output_file,      \* and those in the file; None: there is none
          late              \* history: packets handled after the signal

snifferVars == <<spc, capture_running, filter_type, opened, next, printed, output_file, late>>
vars == <<wire, peerVars, snifferVars>>

CONSTANTS None,
          Traffic   \* what else may be on the network

(* IPv4 and anything else, UDP and anything else, from and to any port, by *)
(* peers on other hosts or by somebody who has nothing to do with them.    *)
Port == 0..65535
Frame == [from : {None}, ether : {"ip", "ipv6", "arp"}, proto : {"udp", "tcp", "icmp"},
          source : Port, dest : Port,
          text : {Empty} \cup {Note(what) : what \in {"join", "leave", "data"}}]

ASSUME TrafficAssumption == None \notin Peers /\ Traffic \subseteq Frame

Filters == {"chat", "dns", "http", "all"}

Init ==
    /\ PeerInit
    /\ spc = "off"
    /\ capture_running = TRUE
    /\ filter_type = "" /\ opened = 0 /\ next = 0
    /\ printed = <<>> /\ output_file = None /\ late = 0

create_raw_socket ==
    /\ spc = "off"
    /\ spc' = "filter"
    /\ opened' = Len(wire) /\ next' = Len(wire)
    /\ UNCHANGED <<wire, peerVars, capture_running, filter_type, printed, output_file, late>>

select_filter ==
    /\ spc = "filter"
    /\ filter_type' \in Filters
    /\ spc' = "file"
    /\ UNCHANGED <<wire, peerVars, capture_running, opened, next, printed, output_file, late>>

(* The file is not wanted or cannot be opened, or it is there and empty.   *)
setup_output_file ==
    /\ spc = "file"
    /\ output_file' \in {None, <<>>}
    /\ spc' = "loop"
    /\ UNCHANGED <<wire, peerVars, capture_running, filter_type, opened, next, printed, late>>

check_filter(f, m) ==
    CASE f = "chat" -> m.source = Chat \/ m.dest = Chat
      [] f = "dns" -> m.source = 53 \/ m.dest = 53
      [] f = "http" -> m.source = 80 \/ m.dest = 80
      [] OTHER -> TRUE

(* As without the test of ip->protocol.                                    *)
parse_packet_any(m) == m.ether = "ip"

(* parse_packet gives -1 for what is not UDP over IPv4.                    *)
parse_packet(m) == m.ether = "ip" /\ m.proto = "udp"

print_packet_info(n) ==
    /\ printed' = Append(printed, n)
    /\ output_file' = IF output_file = None THEN None ELSE Append(output_file, n)

(* As do ... while (1).                                                    *)
WhileAlways ==
    /\ spc = "loop" /\ spc' = "recvfrom"
    /\ UNCHANGED <<wire, peerVars, capture_running, filter_type, opened, next, printed,
                   output_file, late>>

While ==
    /\ spc = "loop"
    /\ spc' = IF capture_running THEN "recvfrom" ELSE "exited"
    /\ UNCHANGED <<wire, peerVars, capture_running, filter_type, opened, next, printed,
                   output_file, late>>

(* capture_packets; what arrives after the signal is still printed.        *)
Capture ==
    /\ spc = "recvfrom" /\ next < Len(wire)
    /\ next' = next + 1
    /\ LET m == wire[next + 1]
       IN  IF parse_packet(m) /\ check_filter(filter_type, m) THEN print_packet_info(next')
           ELSE UNCHANGED <<printed, output_file>>
    /\ spc' = "loop"
    /\ late' = IF capture_running THEN late ELSE late + 1
    /\ UNCHANGED <<wire, peerVars, capture_running, filter_type, opened>>

(* SIGINT; recvfrom and the questions are restarted.                       *)
signal_handler ==
    /\ spc # "exited" /\ capture_running
    /\ capture_running' = FALSE
    /\ UNCHANGED <<wire, peerVars, spc, filter_type, opened, next, printed, output_file, late>>

OtherTraffic ==
    /\ Len(wire) < MaxWire
    /\ \E m \in Traffic : wire' = Append(wire, m)
    /\ UNCHANGED <<peerVars, snifferVars>>

Sniffer ==
    create_raw_socket \/ select_filter \/ setup_output_file \/ While \/ Capture

Next ==
    \/ Sniffer \/ signal_handler \/ OtherTraffic
    \/ \E p \in Peers : Peer(p) /\ UNCHANGED snifferVars

Spec == Init /\ [][Next]_vars /\ WF_vars(While) /\ WF_vars(Capture)
-----------------------------------------------------------------------------
(* What is printed is, in order and once, all UDP over IPv4 that came by   *)
(* since the socket was made, the time of the questions included, from or  *)
(* to the filter's port; the file has the same (08/udp_sniffer.c:54-68,    *)
(* 104-125, 135-146, 188-218, 348-358).  So the menu's "HTTP (port 80)"    *)
(* (228) shows UDP with that port, and HTTP itself, which is TCP, never.   *)
FilterPort == [chat |-> Chat, dns |-> 53, http |-> 80]
Matches(m) == /\ m.ether = "ip" /\ m.proto = "udp"
              /\ filter_type = "all" \/ FilterPort[filter_type] \in {m.source, m.dest}

CaptureIsTheTraffic ==
    /\ {printed[i] : i \in DOMAIN printed} = {n \in opened + 1..next : Matches(wire[n])}
    /\ \A i, j \in DOMAIN printed : i < j => printed[i] < printed[j]
    /\ output_file \in {None, printed}

(* After Ctrl+C the capture ends with the next packet: it goes on only     *)
(* while none comes by, since the blocked recvfrom is restarted            *)
(* (08/udp_sniffer.c:40-43, 188-200).                                      *)
CaptureEnds ==
    <>[](\/ capture_running \/ spc \in {"off", "filter", "file", "exited"}
         \/ spc = "recvfrom" /\ next = Len(wire) /\ late = 0)
=============================================================================
