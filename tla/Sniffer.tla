------------------------------ MODULE Sniffer -------------------------------
(***************************************************************************)
(* The capture thread: start_sniffing (src/src/sniffer.c) and the callback *)
(* got_packet with send_packet_to_client (src/src/process_server.c).  It   *)
(* reads the tables slot by slot while handlers may be storing in them.    *)
(***************************************************************************)
EXTENDS Process

CONSTANT NoFrame

VARIABLES
  spc,           \* "open", "capture", "classify", "scan", "header", "body"
  frame,         \* the frame being delivered, or NoFrame
  route,         \* the tables it is still to be sent to
  si,            \* i of send_packet_to_client
  sfd            \* clientfd of send_packet_to_client, or NoFd

snifferVars == <<spc, frame, route, si, sfd>>

ASSUME SnifferAssume == NoFrame \notin AnyFrame

SnifferPCs == {"open", "capture", "classify", "scan", "header", "body"}

\* The types of the capture thread's variables: it has a frame, a table and a
\* descriptor whenever its next statement uses one.
SnifferTypeOK ==
  /\ spc \in SnifferPCs
  /\ frame \in Frames \cup {NoFrame}
  /\ route \in Seq(Tables)
  /\ si \in 0..MAXCLIENTS
  /\ sfd \in Clients \cup {NoFd}
  /\ spc \in {"classify", "scan", "header", "body"} => frame \in Frames
  /\ spc \in {"scan", "header", "body"} => route # << >>
  /\ spc \in {"header", "body"} => sfd \in Clients /\ si \in Slots

SnifferInit ==
  /\ spc = "open"
  /\ frame = NoFrame
  /\ route = << >>
  /\ si = 0
  /\ sfd = NoFd

\* Choosing, opening and filtering the device; a failure ends the process.
OpenDevice ==
  /\ Running
  /\ spc = "open"
  /\ \/ spc' = "capture" /\ UNCHANGED proc
     \/ Exit /\ UNCHANGED spc
  /\ UNCHANGED <<tab, connVars, frame, route, si, sfd>>

\* pcap_loop returns one frame to the callback.  When the loop calls it is the
\* business of module Throttle.
Capture ==
  /\ Running
  /\ spc = "capture"
  /\ frame' \in Frames
  /\ spc' = "classify"
  /\ UNCHANGED <<procVars, connVars, route, si, sfd>>

\* The thread turns to the tables r, or returns to pcap_loop when none is left.
DeliverTo(r) ==
  /\ route' = r
  /\ si' = 0
  /\ IF r = << >>
     THEN spc' = "capture" /\ frame' = NoFrame
     ELSE spc' = "scan" /\ UNCHANGED frame

Classify ==
  /\ Running
  /\ spc = "classify"
  /\ DeliverTo(Route(frame))
  /\ UNCHANGED <<procVars, connVars, sfd>>

SkipSlot ==
  /\ Running
  /\ spc = "scan"
  /\ si < MAXCLIENTS
  /\ tab[Head(route)][si] = Empty
  /\ si' = si + 1
  /\ UNCHANGED <<procVars, connVars, spc, frame, route, sfd>>

\* Mutant: the header is not sent.
TakeSlotNoHeader ==
  /\ Running
  /\ spc = "scan"
  /\ si < MAXCLIENTS
  /\ tab[Head(route)][si] # Empty
  /\ sfd' = tab[Head(route)][si]
  /\ spc' = "body"
  /\ UNCHANGED <<procVars, connVars, frame, route, si>>

TakeSlot ==
  /\ Running
  /\ spc = "scan"
  /\ si < MAXCLIENTS
  /\ tab[Head(route)][si] # Empty
  /\ sfd' = tab[Head(route)][si]
  /\ spc' = "header"
  /\ UNCHANGED <<procVars, connVars, frame, route, si>>

NextTable ==
  /\ Running
  /\ spc = "scan"
  /\ si = MAXCLIENTS
  /\ DeliverTo(Tail(route))
  /\ UNCHANGED <<procVars, connVars, sfd>>

WriteHeader ==
  /\ Running
  /\ spc = "header"
  /\ Write(sfd, Answer(ANSWER_OK, SentSize(frame)))
  /\ spc' = "body"
  /\ UNCHANGED <<procVars, conn, asked, pending, backlog, frame, route, si, sfd>>

\* Mutants of the end of the loop's body: i is not incremented, the function
\* returns after the first client, or a write that was cut short is begun again.
WriteBodyStays ==
  /\ Running
  /\ spc = "body"
  /\ Write(sfd, Packet(frame))
  /\ spc' = "scan"
  /\ sfd' = NoFd
  /\ UNCHANGED <<procVars, conn, asked, pending, backlog, frame, route, si>>

WriteBodyReturns ==
  /\ Running
  /\ spc = "body"
  /\ Write(sfd, Packet(frame))
  /\ spc' = "scan"
  /\ si' = MAXCLIENTS
  /\ sfd' = NoFd
  /\ UNCHANGED <<procVars, conn, asked, pending, backlog, frame, route>>

WriteBodyRetries ==
  /\ Running
  /\ spc = "body"
  /\ Write(sfd, Packet(frame))
  /\ \/ spc' = "scan" /\ si' = si + 1 /\ sfd' = NoFd
     \/ UNCHANGED <<spc, si, sfd>>
  /\ UNCHANGED <<procVars, conn, asked, pending, backlog, frame, route>>

\* The result of the write is compared with -1 only: one that stopped where the
\* memory after the captured frame ends is not told from a whole one, and the
\* loop goes on.  Packet stands for what was written, whole or not.
WriteBody ==
  /\ Running
  /\ spc = "body"
  /\ Write(sfd, Packet(frame))
  /\ spc' = "scan"
  /\ si' = si + 1
  /\ sfd' = NoFd
  /\ UNCHANGED <<procVars, conn, asked, pending, backlog, frame, route>>

\* Mutant: the failed write removes the client and the delivery goes on.
SnifferForgets ==
  /\ Running
  /\ spc \in {"header", "body"}
  /\ conn[sfd] = "gone"
  /\ tab' = [tab EXCEPT ![Head(route)][si] = Empty]
  /\ spc' = "scan"
  /\ si' = si + 1
  /\ sfd' = NoFd
  /\ UNCHANGED <<proc, connVars, frame, route>>

\* A write to a client that left; or, the size being that of a byte-swapped
\* length, a write from beyond the captured frame, which fails when the memory
\* there is not readable.
SnifferWriteFails ==
  /\ Running
  /\ \/ spc \in {"header", "body"} /\ WriteFails(sfd)
     \/ spc = "body" /\ SentSize(frame) > Captured(frame) /\ Exit
  /\ UNCHANGED <<tab, connVars, snifferVars>>

\* The steps that deliver a captured frame.
Deliver == Classify \/ SkipSlot \/ TakeSlot \/ NextTable
           \/ WriteHeader \/ WriteBody \/ SnifferWriteFails

SnifferStep == OpenDevice \/ Capture \/ Deliver
=============================================================================
