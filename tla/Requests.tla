------------------------------ MODULE Requests ------------------------------
(***************************************************************************)
(* The vocabulary client and server share (src/src/requests.h) and the two *)
(* pure decisions the server takes on it: which protocol names it accepts  *)
(* and which table a captured frame is delivered to.                       *)
(***************************************************************************)
EXTENDS Integers, Sequences

CONSTANTS
  Paths,         \* values of request.path: file names and protocol names
  FileSize,      \* the files open() finds: name -> chunks read() returns
  Directories,   \* the names in DOMAIN FileSize whose read() fails (EISDIR)
  NoRequest      \* "no request received yet"

REQUEST_GET   == 1
REQUEST_DIR   == 2
REQUEST_SNIFF == 3
OTHER_KIND    == 0     \* stands for every kind the switch has no case for

ANSWER_OK    == 0
ANSWER_ERROR == 2

\* What the bytes of a struct request may hold: the kinds of the switch, any
\* other integer, and a path.
AnyRequest == [kind : {OTHER_KIND, REQUEST_GET, REQUEST_DIR, REQUEST_SNIFF},
               path : Paths]

\* The requests the client program can send.
ClientRequests == {r \in AnyRequest : r.kind # OTHER_KIND}

Tables == {"IP", "UDP", "TCP", "ICMP", "RARP", "ARP", "IGMP"}

\* The names check_protocole lets through.
Protocols == {"ip", "udp", "tcp", "icmp", "igmp", "arp", "rarp"}

\* The table the if/else chain of sniff() registers a protocol in; "rarp"
\* shares the table of "arp".
TableOf == [p \in Protocols |->
              CASE p = "ip"   -> "IP"
                [] p = "tcp"  -> "TCP"
                [] p = "udp"  -> "UDP"
                [] p = "icmp" -> "ICMP"
                [] p = "igmp" -> "IGMP"
                [] OTHER      -> "ARP"]

-----------------------------------------------------------------------------
(***************************************************************************)
(* A captured frame: its ethertype, the low nibble of its fifteenth byte   *)
(* (the IP header length in words for an IP frame; for ARP and RARP it is  *)
(* part of the hardware type, 0 on Ethernet), the byte got_packet takes    *)
(* for ip_p, and the 16-bit total length in network order.                 *)
(***************************************************************************)
SIZE_ETHERNET == 14
SNAP_LEN      == 1518

Nibble == 0..15
Word16 == 0..65535

AnyFrame == [ether : {"IP", "ARP", "RARP"},
             ihl   : Nibble,
             proto : {"tcp", "udp", "icmp", "igmp", "other"},
             len   : Word16]

\* What the capture filter " ip or arp or rarp" lets through on Ethernet.
Capturable == {f \in AnyFrame : f.ether # "IP" => f.ihl = 0}

ProtoTable == [tcp |-> <<"TCP">>, udp |-> <<"UDP">>, icmp |-> <<"ICMP">>,
               igmp |-> <<"IGMP">>, other |-> << >>]

EtherTable == [IP |-> <<"IP">>, ARP |-> <<"ARP">>, RARP |-> << >>]

\* The tables got_packet hands a frame to, in order: none when the header
\* length it reads is below 20 bytes or the ethertype has no case, otherwise
\* the ethertype's table and then that of ip_p.
Route(f) == IF f.ihl * 4 < 20 \/ EtherTable[f.ether] = << >>
            THEN << >>
            ELSE EtherTable[f.ether] \o ProtoTable[f.proto]

\* The wire bytes of ip_len, read as an integer of this little-endian host.
Swap16(n) == (n % 256) * 256 + n \div 256

\* The size got_packet passes on, SIZE_ETHERNET + ip->ip_len without ntohs, the
\* size of the frame, and how much of it pcap hands over at least.
SentSize(f)  == SIZE_ETHERNET + Swap16(f.len)
FrameSize(f) == SIZE_ETHERNET + f.len
Captured(f)  == IF FrameSize(f) < SNAP_LEN THEN FrameSize(f) ELSE SNAP_LEN

RequestsAssumption ==
  /\ NoRequest \notin AnyRequest
  /\ DOMAIN FileSize \subseteq Paths
  /\ \A p \in DOMAIN FileSize : FileSize[p] \in Nat
  /\ Directories \subseteq DOMAIN FileSize

ASSUME RequestsAssume == RequestsAssumption
=============================================================================
