------------------------------ MODULE MCServer ------------------------------
(***************************************************************************)
(* Instances of Server for TLC.  The values are those the cfgs choose from;*)
(* a client, a frame or a name of a file has no other structure.           *)
(***************************************************************************)
EXTENDS Claims, TLC

\* Files of two reads and of one, and a directory, and names of protocols,
\* two served and one not.  A run takes the names its requests use.
AllPaths   == {"file", "dir", "tcp", "ftp"}
TcpPaths   == {"tcp"}

AllFiles   == [file |-> 2, dir |-> 1]
NoFiles    == << >>

Dirs   == {"dir"}
NoDirs == {}

Ask(k, p) == [kind |-> k, path |-> p]

\* Every way the switch of handle_request can go.
AllAsks == {Ask(REQUEST_GET, "file"), Ask(REQUEST_GET, "dir"),
            Ask(REQUEST_GET, "ftp"), Ask(REQUEST_DIR, "dir"),
            Ask(REQUEST_SNIFF, "tcp"), Ask(REQUEST_SNIFF, "ftp")}

TcpAsks   == {Ask(REQUEST_SNIFF, "tcp")}

TcpFrame == [ether |-> "IP", ihl |-> 5, proto |-> "tcp", len |-> 40]
ArpFrame == [ether |-> "ARP", ihl |-> 0, proto |-> "other", len |-> 1]

TwoFrames == {TcpFrame, ArpFrame}
OneFrame  == {TcpFrame}
NoFrames  == {}

Symmetry == Permutations(Clients)
=============================================================================
