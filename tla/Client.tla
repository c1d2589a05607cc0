------------------------------- MODULE Client -------------------------------
(***************************************************************************)
(* The client program (src/src/client.c, and got_packet of                 *)
(* process_client.c as the callback it calls on every buffer).  One runs   *)
(* for each connection.  What the server wrote and the network delivered   *)
(* waits in inbuf, cut in the units read() may stop between: an answer, a  *)
(* chunk of a file, a listing are one unit each, a frame is PieceSize      *)
(* bytes a unit.                                                           *)
(***************************************************************************)
EXTENDS Process

CONSTANTS
  InBuf,         \* units the client's socket buffer holds
  PieceSize      \* bytes of a unit of a frame

VARIABLES
  cpc,           \* client -> program counter
  inbuf,         \* client -> units delivered and not read
  rest,          \* client -> nbbytes of copy_n_bytes, or taille of sniff
  file,          \* client -> the chunks in the local file
  buffer         \* client -> the buffer of sniff, as far as it was ever filled

clientVars == <<cpc, inbuf, rest, file, buffer>>

ASSUME ClientAssume == InBuf \in Nat \ {0} /\ PieceSize \in Nat \ {0}

Ended   == {"closed", "failed"}
Talking == {"ask", "answer", "create", "copy", "list", "sniff"}

\* Units of a frame of so many bytes.
Pieces(bytes) == (bytes + PieceSize - 1) \div PieceSize

\* How many of them the server may have written of a frame: all, unless the size
\* goes beyond what was captured and the write came back short.
Sendable(f) == (IF SentSize(f) > Captured(f) THEN 1 ELSE Pieces(SentSize(f)))
               ..Pieces(SentSize(f))

\* The units of what the server wrote at once.
Cuts(item) ==
  IF item.tag = "packet"
  THEN {[i \in 1..n |-> [tag |-> "piece", frame |-> item.frame, at |-> i]]
          : n \in Sendable(item.frame)}
  ELSE {<<item>>}

Units == (Items \ [tag : {"packet"}, frame : Frames])
         \cup [tag : {"piece"}, frame : Frames, at : Nat]

ClientInit ==
  /\ cpc    = [c \in Clients |-> "connect"]
  /\ inbuf  = [c \in Clients |-> << >>]
  /\ rest   = [c \in Clients |-> 0]
  /\ file   = [c \in Clients |-> << >>]
  /\ buffer = [c \in Clients |-> << >>]

\* The types of a client's variables; the first thing it takes for an answer
\* was one.
ClientTypeOK ==
  /\ cpc \in [Clients -> Talking \cup Ended \cup {"connect"}]
  /\ inbuf \in [Clients -> Seq(Units)]
  /\ rest \in [Clients -> Nat]
  /\ file \in [Clients -> Seq(Units)]
  /\ buffer \in [Clients -> Seq(Units)]
  /\ \A c \in Clients :
       cpc[c] = "answer" /\ inbuf[c] # << >> => Head(inbuf[c]).tag = "answer"

-----------------------------------------------------------------------------
(* The connection, as the client's kernel sees it *)

\* Data reaches the client, also what the server wrote before it ended.
Transmit(c) ==
  /\ conn[c] = "open"
  /\ outbox[c] # << >>
  /\ Len(inbuf[c]) < InBuf
  /\ \E units \in Cuts(Head(outbox[c])) : inbuf' = [inbuf EXCEPT ![c] = @ \o units]
  /\ outbox' = [outbox EXCEPT ![c] = Tail(@)]
  /\ UNCHANGED <<procVars, conn, asked, pending, backlog,
                 cpc, rest, file, buffer>>

\* Nothing more will come: read() returns 0.
AtEof(c) == proc = "exited" /\ outbox[c] = << >> /\ inbuf[c] = << >>

\* The kernel of a server that ends without having read the request, or
\* without having accepted the connection, resets it.
MayBeReset(c) ==
  proc = "exited" /\ (c \in pending \/ \E i \in DOMAIN backlog : backlog[i] = c)

\* The process of the client ends and its socket is closed.
End(c, pc) ==
  /\ cpc'    = [cpc EXCEPT ![c] = pc]
  /\ conn'   = [conn EXCEPT ![c] = IF @ = "open" THEN "gone" ELSE @]
  /\ outbox' = [outbox EXCEPT ![c] = << >>]
  /\ inbuf'  = [inbuf EXCEPT ![c] = << >>]
  /\ buffer' = [buffer EXCEPT ![c] = << >>]
  /\ UNCHANGED <<procVars, asked, pending, backlog, rest, file>>

-----------------------------------------------------------------------------
(* main and connection *)

\* connect() succeeds once the server listens, unless its queue is full.
Dial(c) ==
  /\ cpc[c] = "connect"
  /\ Connect(c)
  /\ cpc' = [cpc EXCEPT ![c] = "ask"]
  /\ UNCHANGED <<inbuf, rest, file, buffer>>

\* The host is unknown or refuses the connection.
DialFails(c) == cpc[c] = "connect" /\ End(c, "failed")

\* The user interrupts it.
Interrupt(c) == cpc[c] \in Talking /\ End(c, "failed")

\* Mutant: the request is sent again when no answer came yet.
AskAgain(c) ==
  /\ cpc[c] = "ask"
  /\ \E r \in Asks : asked' = [asked EXCEPT ![c] = r]
  /\ pending' = pending \cup {c}
  /\ \E pc \in {"ask", "answer"} : cpc' = [cpc EXCEPT ![c] = pc]
  /\ UNCHANGED <<procVars, conn, outbox, backlog,
                 inbuf, rest, file, buffer>>

\* The write of a request succeeds even when the server has just ended.
Ask(c) ==
  /\ cpc[c] = "ask"
  /\ \E r \in Asks : asked' = [asked EXCEPT ![c] = r]
  /\ pending' = pending \cup {c}
  /\ cpc' = [cpc EXCEPT ![c] = "answer"]
  /\ UNCHANGED <<procVars, conn, outbox, backlog,
                 inbuf, rest, file, buffer>>

AskFails(c) == cpc[c] = "ask" /\ proc = "exited" /\ End(c, "failed")

-----------------------------------------------------------------------------
(* The answer *)

NextState(kind) == CASE kind = REQUEST_GET   -> "create"
                     [] kind = REQUEST_DIR   -> "list"
                     [] kind = REQUEST_SNIFF -> "sniff"

\* check_answer lets an answer OK pass and ends the client on any other.
ReadAnswer(c) ==
  /\ cpc[c] = "answer"
  /\ inbuf[c] # << >>
  /\ LET a == Head(inbuf[c]) IN
     \/ /\ a.ack = ANSWER_OK
        /\ cpc' = [cpc EXCEPT ![c] = NextState(asked[c].kind)]
        /\ rest' = [rest EXCEPT ![c] = a.nbbytes]
        /\ inbuf' = [inbuf EXCEPT ![c] = Tail(@)]
        /\ UNCHANGED <<procVars, connVars, file, buffer>>
     \/ a.ack # ANSWER_OK /\ End(c, "failed")

\* At the end of the stream read returns 0, which only -1 is told from: the
\* answer checked is what the uninitialized struct happens to hold,
\* an nbbytes of 0 or not.
ReadNoAnswer(c) ==
  /\ cpc[c] = "answer"
  /\ AtEof(c)
  /\ \/ /\ cpc' = [cpc EXCEPT ![c] = NextState(asked[c].kind)]
        /\ \E n \in {0, 1} : rest' = [rest EXCEPT ![c] = n]
        /\ UNCHANGED <<procVars, connVars, inbuf, file, buffer>>
     \/ End(c, "failed")

AnswerFails(c) == cpc[c] = "answer" /\ MayBeReset(c) /\ End(c, "failed")

-----------------------------------------------------------------------------
(* get_file *)

\* open with O_CREAT and O_EXCL fails when the local file exists.
Create(c) ==
  /\ cpc[c] = "create"
  /\ \/ /\ cpc' = [cpc EXCEPT ![c] = "copy"]
        /\ UNCHANGED <<procVars, connVars, inbuf, rest, file, buffer>>
     \/ End(c, "failed")

\* Mutant: what a read returned is taken to be as much as was asked for.
CopyUncounted(c) ==
  /\ cpc[c] = "copy"
  /\ rest[c] # 0
  /\ inbuf[c] # << >>
  /\ file'  = [file EXCEPT ![c] = Append(@, Head(inbuf[c]))]
  /\ rest'  = [rest EXCEPT ![c] = 0]
  /\ inbuf' = [inbuf EXCEPT ![c] = Tail(@)]
  /\ UNCHANGED <<procVars, connVars, cpc, buffer>>

\* Mutant: nbbytes is not counted down.
CopyForEver(c) ==
  /\ cpc[c] = "copy"
  /\ rest[c] # 0
  /\ inbuf[c] # << >>
  /\ file'  = [file EXCEPT ![c] = Append(@, Head(inbuf[c]))]
  /\ inbuf' = [inbuf EXCEPT ![c] = Tail(@)]
  /\ UNCHANGED <<procVars, connVars, cpc, rest, buffer>>

\* One turn of copy_n_bytes.
CopyUnit(c) ==
  /\ cpc[c] = "copy"
  /\ rest[c] # 0
  /\ inbuf[c] # << >>
  /\ file'  = [file EXCEPT ![c] = Append(@, Head(inbuf[c]))]
  /\ rest'  = [rest EXCEPT ![c] = @ - 1]
  /\ inbuf' = [inbuf EXCEPT ![c] = Tail(@)]
  /\ UNCHANGED <<procVars, connVars, cpc, buffer>>

\* Mutant: the end of the stream is not told from a read that returned less.
CopyGoesOn(c) ==
  /\ cpc[c] = "copy"
  /\ rest[c] = 0 \/ inbuf[c] # << >>
  /\ End(c, "closed")

\* copy_n_bytes returns 0 when it has all, -1 at the end of the stream and when
\* a write to the local file fails; get_file tells none of them from another.
CopyReturns(c) ==
  /\ cpc[c] = "copy"
  /\ rest[c] = 0 \/ AtEof(c) \/ inbuf[c] # << >>
  /\ End(c, "closed")

-----------------------------------------------------------------------------
(* dir_file *)

ListUnit(c) ==
  /\ cpc[c] = "list"
  /\ inbuf[c] # << >>
  /\ inbuf' = [inbuf EXCEPT ![c] = Tail(@)]
  /\ UNCHANGED <<procVars, connVars, cpc, rest, file, buffer>>

\* copy_all_bytes returns at the end of the stream, or when standard output
\* cannot be written.
ListReturns(c) ==
  /\ cpc[c] = "list"
  /\ AtEof(c) \/ inbuf[c] # << >>
  /\ End(c, "closed")

-----------------------------------------------------------------------------
(* sniff *)

\* read(serverfd, buffer, taille): some of what has come, at most taille bytes,
\* over what the buffer held; then got_packet on the buffer, whatever the
\* number of bytes read.  look_for_pswd ends the process when it meets a
\* keyword.
Analyse(c) ==
  /\ cpc[c] = "sniff"
  /\ inbuf[c] # << >>
  /\ \E n \in 1..Len(inbuf[c]) :
       /\ n <= Pieces(rest[c])
       /\ buffer' = [buffer EXCEPT ![c] =
                       SubSeq(inbuf[c], 1, n) \o SubSeq(@, n + 1, Len(@))]
       /\ inbuf'  = [inbuf EXCEPT ![c] = SubSeq(@, n + 1, Len(@))]
  /\ UNCHANGED <<procVars, connVars, cpc, rest, file>>

\* The result of the read is a condition, and -1 holds as one: what was in the
\* buffer before is analysed again, which may end the process too.
FindPassword(c) ==
  /\ cpc[c] = "sniff"
  /\ inbuf[c] # << >> \/ MayBeReset(c)
  /\ End(c, "failed")

\* read returns 0; the statistics are printed.
SniffReturns(c) ==
  /\ cpc[c] = "sniff"
  /\ AtEof(c) \/ rest[c] = 0
  /\ End(c, "closed")

\* What a client does when left alone.
ClientRuns(c) ==
  \/ DialFails(c)
  \/ Ask(c) \/ AskFails(c)
  \/ ReadAnswer(c) \/ ReadNoAnswer(c) \/ AnswerFails(c)
  \/ Create(c) \/ CopyUnit(c) \/ CopyReturns(c)
  \/ ListUnit(c) \/ ListReturns(c)
  \/ Analyse(c) \/ FindPassword(c) \/ SniffReturns(c)
=============================================================================
