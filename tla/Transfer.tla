------------------------------ MODULE Transfer ------------------------------
(***************************************************************************)
(* A get, byte by byte: copy_all_bytes of src/common.c from the file to    *)
(* the socket in the server, and copy_n_bytes from the socket to the local *)
(* file in the client, each with its buffer, reads that return less than   *)
(* was asked for and writes that take only a part.  Meanwhile other        *)
(* programs append to the file, cut it and write over it.  The size        *)
(* announced is that of fstat in an int, the end of the copy is where      *)
(* read() meets the end of the file, and the server never closes the       *)
(* socket.                                                                 *)
(***************************************************************************)
EXTENDS Integers, Sequences, FiniteSetsExt

CONSTANTS
  MSGSIZE,       \* bytes of a buffer
  SockBuf,       \* bytes on their way before write() blocks
  MaxSize,       \* bound: bytes of the file
  INT_MAX        \* largest number of an int

VARIABLES
  data,          \* the file
  happened,      \* history: "big" when its size was none of an int at fstat,
                 \* "grew", "cut" and "written" for what happened to it since
  spc,           \* server: program counter
  nbbytes,       \* the size announced
  at,            \* server: bytes read from the file
  sbuf,          \* server: what is left between p and the end of buf
  wire,          \* bytes written and not read
  cpc,           \* client: program counter
  rest,          \* client: nbbytes of copy_n_bytes
  cbuf,          \* client: what is left between p and the end of buf
  local          \* the local file

fileVars   == <<data, happened>>
serverVars == <<spc, nbbytes, at, sbuf>>
clientVars == <<cpc, rest, cbuf, local>>
vars == <<fileVars, serverVars, wire, clientVars>>

ASSUME TransferAssume ==
  /\ MSGSIZE \in Nat \ {0} /\ SockBuf \in Nat \ {0}
  /\ MaxSize \in Nat /\ INT_MAX \in Nat

\* "complete" and "short" for copy_n_bytes that returned 0 and -1.
Ended   == {"complete", "short", "failed"}
Stopped == {"exited", "killed"}

\* Bytes are told apart by where they first stood in the file; one appended
\* or written over another is 0.
Bytes == 0..MaxSize

\* The types of the variables; a buffer holds something only while it is copied.
TransferTypeOK ==
  /\ data \in Seq(Bytes) /\ Len(data) <= MaxSize
  /\ happened \subseteq {"big", "grew", "cut", "written"}
  /\ spc \in {"stat", "read", "write", "done"} \cup Stopped
  /\ nbbytes \in -(INT_MAX + 1)..INT_MAX
  /\ at \in 0..MaxSize
  /\ sbuf \in Seq(Bytes) /\ Len(sbuf) <= MSGSIZE
  /\ wire \in Seq(Bytes) /\ Len(wire) <= SockBuf
  /\ cpc \in {"answer", "copy"} \cup Ended
  /\ rest \in -(INT_MAX + 1)..INT_MAX
  /\ cbuf \in Seq(Bytes) /\ Len(cbuf) <= MSGSIZE
  /\ local \in Seq(Bytes)
  /\ spc = "write" => sbuf # << >>

Init ==
  /\ \E n \in 0..MaxSize : data = [i \in 1..n |-> i]
  /\ happened = {}
  /\ spc = "stat" /\ nbbytes = 0 /\ at = 0 /\ sbuf = << >>
  /\ wire = << >>
  /\ cpc = "answer" /\ rest = 0 /\ cbuf = << >> /\ local = << >>

From(s, n) == SubSeq(s, n + 1, Len(s))
UpTo(s, n) == SubSeq(s, 1, n)

-----------------------------------------------------------------------------
(* Other programs *)

Mark(what) == happened' = IF spc = "stat" THEN happened ELSE happened \cup {what}

Grow ==
  /\ Len(data) < MaxSize
  /\ data' = Append(data, 0)
  /\ Mark("grew")
  /\ UNCHANGED <<serverVars, wire, clientVars>>

Shrink ==
  /\ data # << >>
  /\ \E n \in 0..(Len(data) - 1) : data' = UpTo(data, n)
  /\ Mark("cut")
  /\ UNCHANGED <<serverVars, wire, clientVars>>

Overwrite ==
  /\ \E i \in DOMAIN data : data' = [data EXCEPT ![i] = 0]
  /\ Mark("written")
  /\ UNCHANGED <<serverVars, wire, clientVars>>

-----------------------------------------------------------------------------
(* The server: get_file, copy_all_bytes *)

\* Mutant: a size is as wide as that of the file.
ToIntWide(n) == n

\* Mutant: one byte less is announced.
ToIntLess(n) == ((n + INT_MAX) % (2 * (INT_MAX + 1))) - (INT_MAX + 1)

\* The conversion of a size to an int.
ToInt(n) == ((n + INT_MAX + 1) % (2 * (INT_MAX + 1))) - (INT_MAX + 1)

\* fstat, and the answer with the size.
Announce ==
  /\ spc = "stat"
  /\ nbbytes' = ToInt(Len(data))
  /\ happened' = IF Len(data) > INT_MAX THEN {"big"} ELSE {}
  /\ spc' = "read"
  /\ UNCHANGED <<data, at, sbuf, wire, clientVars>>

ServerRead ==
  /\ spc = "read"
  /\ at < Len(data)
  /\ LET n == Min({MSGSIZE, Len(data) - at}) IN
     /\ sbuf' = SubSeq(data, at + 1, at + n)
     /\ at' = at + n
  /\ spc' = "write"
  /\ UNCHANGED <<fileVars, nbbytes, wire, clientVars>>

\* Mutant: copy_all_bytes stops when it has read less than a buffer.
ServerEofWhenShort ==
  /\ spc = "read"
  /\ Len(data) - at < MSGSIZE
  /\ spc' = "done"
  /\ UNCHANGED <<fileVars, nbbytes, at, sbuf, wire, clientVars>>

ServerEof ==
  /\ spc = "read"
  /\ at >= Len(data)
  /\ spc' = "done"
  /\ UNCHANGED <<fileVars, nbbytes, at, sbuf, wire, clientVars>>

\* The buffer has been written from p on, up to n.
Written(n) ==
  /\ sbuf' = From(sbuf, n)
  /\ spc' = IF n = Len(sbuf) THEN "read" ELSE "write"
  /\ UNCHANGED <<fileVars, nbbytes, at, clientVars>>

\* Mutant: p is not moved, and what was written is begun again.
WriteWithoutMoving ==
  /\ spc = "write" /\ cpc \notin Ended
  /\ \E n \in 1..Min({Len(sbuf), SockBuf - Len(wire)}) :
       /\ wire' = wire \o UpTo(sbuf, n)
       /\ sbuf' = UpTo(sbuf, Len(sbuf) - n)
       /\ spc' = IF n = Len(sbuf) THEN "read" ELSE "write"
       /\ UNCHANGED <<fileVars, nbbytes, at, clientVars>>

ServerWrite ==
  /\ spc = "write" /\ cpc \notin Ended
  /\ \E n \in 1..Min({Len(sbuf), SockBuf - Len(wire)}) :
       wire' = wire \o UpTo(sbuf, n) /\ Written(n)

\* The client has closed: the bytes go nowhere, or SIGPIPE ends the process.
ServerWritesToNobody ==
  /\ spc = "write" /\ cpc \in Ended
  /\ \/ Written(Len(sbuf))
     \/ spc' = "killed" /\ UNCHANGED <<fileVars, nbbytes, at, sbuf, clientVars>>
  /\ UNCHANGED wire

\* A read fails here, or another thread ends the process.
ServerExits ==
  /\ spc \notin Stopped
  /\ spc' = "exited"
  /\ UNCHANGED <<fileVars, nbbytes, at, sbuf, wire, clientVars>>

-----------------------------------------------------------------------------
(* The client: get_file, copy_n_bytes *)

\* The process of the client ends, or closes the socket.
EndClient(how) ==
  /\ cpc' = how
  /\ wire' = << >> /\ cbuf' = << >>
  /\ UNCHANGED <<fileVars, serverVars, rest, local>>

\* The answer came and the local file was created, which may fail.
ReadAnswer ==
  /\ cpc = "answer" /\ spc \notin {"stat"} \cup Stopped
  /\ cpc' = "copy"
  /\ rest' = nbbytes
  /\ UNCHANGED <<fileVars, serverVars, wire, cbuf, local>>

\* Mutant: nbbytes is counted down by what was asked for.
ClientReadAsked ==
  /\ cpc = "copy" /\ rest > 0 /\ cbuf = << >>
  /\ \E n \in 1..Min({MSGSIZE, rest, Len(wire)}) :
       cbuf' = UpTo(wire, n) /\ wire' = From(wire, n)
  /\ rest' = rest - Min({MSGSIZE, rest})
  /\ UNCHANGED <<fileVars, serverVars, cpc, local>>

ClientRead ==
  /\ cpc = "copy" /\ rest > 0 /\ cbuf = << >>
  /\ \E n \in 1..Min({MSGSIZE, rest, Len(wire)}) :
       /\ cbuf' = UpTo(wire, n)
       /\ wire' = From(wire, n)
       /\ rest' = rest - n
  /\ UNCHANGED <<fileVars, serverVars, cpc, local>>

ClientWrite ==
  /\ cpc = "copy" /\ cbuf # << >>
  /\ \E n \in 1..Len(cbuf) :
       local' = local \o UpTo(cbuf, n) /\ cbuf' = From(cbuf, n)
  /\ UNCHANGED <<fileVars, serverVars, wire, cpc, rest>>

\* read() refuses a negative size, or meets the end of the stream.
CopyShort ==
  /\ cpc = "copy"
  /\ cbuf = << >>
  /\ rest < 0 \/ (rest > 0 /\ wire = << >> /\ spc \in Stopped)
  /\ EndClient("short")

CopyComplete == cpc = "copy" /\ rest = 0 /\ cbuf = << >> /\ EndClient("complete")

\* The local file cannot be created or written, the server stopped before it
\* answered, or the user interrupts.
ClientFails == cpc \notin Ended /\ EndClient("failed")

-----------------------------------------------------------------------------

ServerStep == Announce \/ ServerRead \/ ServerEof \/ ServerWrite
              \/ ServerWritesToNobody

ClientStep == ReadAnswer \/ ClientRead \/ ClientWrite \/ CopyShort \/ CopyComplete

Next == ServerStep \/ ServerExits \/ ClientStep \/ ClientFails
        \/ Grow \/ Shrink \/ Overwrite

Spec == Init /\ [][Next]_vars

\* Either process is run when it can run.
FairSpec == Spec /\ WF_vars(ServerStep) /\ WF_vars(ClientStep)

-----------------------------------------------------------------------------
(* Properties *)

Copy == INSTANCE Fifo WITH
  queue  <- IF cpc \in Ended THEN << >> ELSE cbuf \o wire \o sbuf,
  stored <- local,
  open   <- cpc \notin Ended

\* The two loops and the connection between them are one queue: whatever the
\* sizes of reads and writes, the local file gets the bytes read from the
\* server's file in order, each once.
CopyIsFifo == Copy!Spec

\* copy_n_bytes returns 0 with as many bytes as were announced, no matter how
\* they came, and these are the beginning of the file if nothing cut it or wrote
\* over it.
CompleteMeansAll ==
  cpc = "complete" =>
    /\ Len(local) = nbbytes
    /\ happened \cap {"cut", "written"} = {} => local = UpTo(data, nbbytes)

\* A client that got all it was told of does not cost the server its life, unless
\* the file grew since fstat or its size was none of an int: then the server goes
\* on writing to a client that has left.
KilledByGrowthOnly ==
  spc = "killed" /\ cpc = "complete" => happened \cap {"big", "grew"} # {}

\* The client comes to an end although the server never closes, unless the file
\* was cut after its size had been announced: then the client waits for bytes
\* that never come, as long as the server runs.
ReturnsUnlessCut ==
  cpc = "copy" ~> cpc \in Ended \/ ("cut" \in happened /\ spc = "done")
=============================================================================
