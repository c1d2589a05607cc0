----------------------------- MODULE RedNetwork -----------------------------
(***************************************************************************)
(* The whole system: the server process (Server) and the client programs   *)
(* (Client) at the two ends of the connections (Process).  The clients of  *)
(* module Server do as they like within one request each; here they run    *)
(* src/src/client.c.                                                       *)
(***************************************************************************)
EXTENDS Server, Client

netVars == <<vars, clientVars>>

NetInit == Init /\ ClientInit

\* One step of one thread of the server.
Thread ==
  \/ MainStep /\ UNCHANGED snifferVars
  \/ \E h \in Clients : HandlerStep(h) /\ UNCHANGED snifferVars
  \/ SnifferStep /\ UNCHANGED handlerVars
  \/ \E n \in {1, 2} : PrintOn(n)

ServerRuns == Thread /\ UNCHANGED clientVars

Dials(c) == mainpc # "setup" /\ Dial(c)

ClientSide(c) ==
  /\ Dials(c) \/ Interrupt(c) \/ Transmit(c) \/ ClientRuns(c)
  /\ UNCHANGED <<handlerVars, snifferVars>>

NetNext == ServerRuns \/ \E c \in Clients : ClientSide(c)

NetSpec == NetInit /\ [][NetNext]_netVars

\* The kernels deliver what was written, and the scheduler runs every client
\* and every thread that can run.
NetFairness ==
  /\ WF_netVars(MainStep /\ UNCHANGED <<snifferVars, clientVars>>)
  /\ \A h \in Clients :
       WF_netVars(HandlerStep(h) /\ UNCHANGED <<snifferVars, clientVars>>)
  /\ \A c \in Clients :
       /\ WF_netVars(Transmit(c) /\ UNCHANGED <<handlerVars, snifferVars>>)
       /\ WF_netVars(ClientRuns(c) /\ UNCHANGED <<handlerVars, snifferVars>>)

NetFairSpec == NetSpec /\ NetFairness

-----------------------------------------------------------------------------
(* Safety *)

\* The program of client.c does nothing the environment of module Server does
\* not do while the process lives: what is proved of Server holds of the whole.
ClientsAsAssumed == [][proc = "exited" \/ Next]_vars

\* What ties a client program to its connection, for the proof of the above: it
\* talks on an open one, has sent nothing before it asks, and is sent nothing
\* before it connects.
Tied ==
  /\ cpc \in [Clients -> Talking \cup Ended \cup {"connect"}]
  /\ \A c \in Clients :
       /\ cpc[c] = "connect" => conn[c] = "idle"
       /\ cpc[c] \in Talking => conn[c] = "open"
       /\ cpc[c] \in Talking \ {"ask"} => asked[c] # NoRequest
       /\ cpc[c] \in {"connect", "ask"} => asked[c] = NoRequest
       /\ conn[c] = "idle" => outbox[c] = << >>

ChunksOf(path, n) == [i \in 1..n |-> Chunk(path, i - 1)]

\* While the thread h sends a file to a client that is receiving it, the local
\* file, what waits in either socket buffer, and the chunks h has yet to read
\* make up the file, each chunk once and in order; and the client is waiting
\* for exactly the chunks it has not got.
TransferExact ==
  \A c, h \in Clients :
    /\ conn[c] = "open" /\ cpc[c] = "copy"
    /\ hfd[h] = c /\ hpc[h] \in {"copy", "done"}
    => LET path == asked[c].path
           sent == IF hpc[h] = "done" THEN FileSize[path] ELSE hpos[h]
       IN  /\ file[c] \o inbuf[c] \o outbox[c] = ChunksOf(path, sent)
           /\ rest[c] + Len(file[c]) = FileSize[path]

\* On its way to a client of sniff() no frame is doubled, nor anything put into
\* it: the first piece is preceded by an answer, every other one by the piece
\* before, and the last by nothing but an answer; it is cut short only when its
\* announced size is more than was captured.
FramesWhole ==
  \A c \in Clients : \A i \in 1..(Len(inbuf[c]) - 1) :
    LET x == inbuf[c][i]
        y == inbuf[c][i + 1]
    IN  /\ y.tag = "piece" =>
             \/ y.at = 1 /\ x = Answer(ANSWER_OK, SentSize(y.frame))
             \/ x = [y EXCEPT !.at = @ - 1]
        /\ x.tag = "piece" /\ y.tag # "piece" =>
             x.at \in Sendable(x.frame) /\ y.tag = "answer"

-----------------------------------------------------------------------------
(* Liveness *)

\* Every client program ends after the server process has ended.
ClientsEndWithServer ==
  \A c \in Clients : proc = "exited" ~> cpc[c] \in Ended

\* A client that began to receive a file ends, whatever becomes of the server.
TransferEnds == \A c \in Clients : cpc[c] = "copy" ~> cpc[c] \in Ended

-----------------------------------------------------------------------------
(* What the source says and does not do *)

\* src/client.c: "on analyse les packets recus".  A buffer filled to its end and
\* handed to got_packet holds one frame.  The code reads one answer only, so the
\* answers of the following frames are read as data.
BuffersAreFrames ==
  \A c \in Clients :
    cpc[c] = "sniff" /\ buffer[c] # << >> /\ Len(buffer[c]) = Pieces(rest[c]) =>
      \E f \in Frames : buffer[c] \in Cuts(Packet(f))
=============================================================================
