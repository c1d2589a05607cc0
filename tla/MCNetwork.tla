----------------------------- MODULE MCNetwork ------------------------------
(***************************************************************************)
(* Instances of RedNetwork for TLC.                                        *)
(***************************************************************************)
EXTENDS RedNetwork, TLC

\* One file of two chunks, and one protocol.
NetPaths == {"note", "tcp"}
NetFiles == [note |-> 2]

Ask2(k, p) == [kind |-> k, path |-> p]

NetAsks   == {Ask2(REQUEST_GET, "note"), Ask2(REQUEST_SNIFF, "tcp"),
              Ask2(REQUEST_DIR, "note")}
TwoAsks   == {Ask2(REQUEST_GET, "note"), Ask2(REQUEST_SNIFF, "tcp")}
SniffAsks == {Ask2(REQUEST_SNIFF, "tcp")}

\* 54 bytes, announced as 10254.
TcpFrame  == [ether |-> "IP", ihl |-> 5, proto |-> "tcp", len |-> 40]
NetFrames == {TcpFrame}

\* 271 bytes, announced as 271: the two bytes of its length are equal.
EvenFrame   == [ether |-> "IP", ihl |-> 5, proto |-> "tcp", len |-> 257]
WholeFrames == {EvenFrame}
NoDirs    == {}

Symmetry == Permutations(Clients)
=============================================================================
