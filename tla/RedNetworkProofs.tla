-------------------------- MODULE RedNetworkProofs --------------------------
(***************************************************************************)
(* The client program stays within what module Server supposes of clients, *)
(* so that its invariant holds of the whole system, also once the process  *)
(* has exited; and what a client receives is what it asked for.            *)
(***************************************************************************)
EXTENDS RedNetwork, DeliveryProofs

\* The invariant of the whole: Server's, and what ties programs to connections.
Living == StreamInv /\ Tied

-----------------------------------------------------------------------------
(* Steps of the server *)

\* A step of a thread changes no connection and no request, and nothing on the
\* way to a client that is not connected.
LEMMA ThreadSends ==
  ASSUME Inv, Thread
  PROVE  /\ UNCHANGED <<conn, asked>>
         /\ \A c \in Clients : conn[c] = "idle" => outbox'[c] = outbox[c]
<1> USE DEF Inv, TypeOK, ProcessTypeOK
<1>1. CASE MainStep \/ (SnifferStep /\ UNCHANGED outbox)
  BY <1>1 DEF MainStep, Setup, Accept, AcceptFails, Spawn, SnifferStep, Deliver,
              OpenDevice, Capture, Classify, SkipSlot, TakeSlot, NextTable,
              WriteHeader, WriteBody, SnifferWriteFails, connVars, procVars
<1>2. CASE WriteHeader \/ WriteBody
  BY <1>2 DEF WriteHeader, WriteBody, Write, SnifferTypeOK
<1>3. ASSUME NEW h \in Clients, HandlerStep(h)
      PROVE  /\ UNCHANGED <<conn, asked>>
             /\ \A c \in Clients : conn[c] = "idle" => outbox'[c] = outbox[c]
  <2> USE DEF connVars, procVars, Dup
  <2>1. CASE Reject(h) \/ AnswerGet(h) \/ CopyChunk(h) \/ AnswerDir(h) \/ LsWrites(h)
    BY <2>1 DEF Reject, AnswerGet, CopyChunk, AnswerDir, LsWrites, Write
  <2>2. CASE UNCHANGED <<conn, asked, outbox>>
    BY <2>2
  <2>3. UNCHANGED <<conn, asked, outbox>> \/ Reject(h) \/ AnswerGet(h)
        \/ CopyChunk(h) \/ AnswerDir(h) \/ LsWrites(h)
    BY <1>3 DEF HandlerStep, Start, RecvRequest, RecvEof, RecvError, Dispatch,
                ExitProcess, CopyFails, CopyDone, DupOut, DupErr, ExecLs, ScanFree,
                ScanTaken, ScanFull, Store, HandlerWriteFails
  <2> QED
    BY <2>1, <2>2, <2>3
<1>4. CASE SnifferStep
  <2>1. UNCHANGED outbox \/ WriteHeader \/ WriteBody
    BY <1>4 DEF SnifferStep, Deliver, OpenDevice, Capture, Classify, SkipSlot,
                TakeSlot, NextTable, SnifferWriteFails, connVars
  <2> QED
    BY <1>1, <1>2, <1>4, <2>1
<1>5. ASSUME NEW n \in {1, 2}, PrintOn(n)
      PROVE  /\ UNCHANGED <<conn, asked>>
             /\ \A c \in Clients : conn[c] = "idle" => outbox'[c] = outbox[c]
  BY <1>5 DEF PrintOn, Write
<1> QED
  BY <1>1, <1>3, <1>4, <1>5 DEF Thread

\* A step of the server is one of module Server and leaves the programs tied.
LEMMA ServerSide ==
  ASSUME Living, ServerRuns
  PROVE  AnyNext /\ Tied'
<1>1. AnyNext
  BY DEF ServerRuns, Thread, AnyNext
<1>2. UNCHANGED <<conn, asked, cpc>>
      /\ \A c \in Clients : conn[c] = "idle" => outbox'[c] = outbox[c]
  BY ThreadSends DEF Living, StreamInv, ServerRuns, clientVars
<1> QED
  BY <1>1, <1>2 DEF Living, Tied

-----------------------------------------------------------------------------
(* Steps of a client *)

\* The end of a program is the departure of the environment's client, or goes
\* unnoticed when it never connected.
LEMMA EndStep ==
  ASSUME NEW c \in Clients, NEW pc \in Ended, Living, End(c, pc)
  PROVE  /\ cpc[c] \in Talking => Leave(c)
         /\ cpc[c] = "connect" => UNCHANGED <<procVars, connVars>>
         /\ Tied'
<1> USE DEF Living, StreamInv, Inv, TypeOK, ProcessTypeOK, Tied, End, connVars
<1>1. cpc[c] \in Talking => Leave(c)
  BY DEF Leave
<1>2. cpc[c] = "connect" => UNCHANGED <<procVars, connVars>>
  OBVIOUS
<1>3. cpc'[c] = pc /\ pc \notin Talking \cup {"connect", "ask"} /\ conn'[c] # "open"
      /\ outbox'[c] = << >>
  BY DEF Talking, Ended
<1>4. \A d \in Clients \ {c} :
        cpc'[d] = cpc[d] /\ conn'[d] = conn[d] /\ outbox'[d] = outbox[d]
  OBVIOUS
<1>5. cpc' \in [Clients -> Talking \cup Ended \cup {"connect"}] /\ asked' = asked
  OBVIOUS
<1>6. Tied'
  BY <1>3, <1>4, <1>5
<1> QED
  BY <1>1, <1>2, <1>6

\* What a client does is a step of the environment, and leaves the programs tied.
LEMMA ClientStays ==
  ASSUME NEW c \in Clients, Living, ClientSide(c)
  PROVE  (AnyNext \/ UNCHANGED vars) /\ Tied'
<1> USE DEF Living, StreamInv, Inv, TypeOK, ProcessTypeOK, connVars, procVars
<1>1. ASSUME ClientMoves(c) PROVE AnyNext
  BY <1>1 DEF ClientSide, AnyNext
<1>2. ASSUME UNCHANGED <<procVars, connVars>> PROVE UNCHANGED vars
  BY <1>2 DEF ClientSide, vars
<1>3. CASE Dials(c)
  <2>1. Arrive(c)
    BY <1>3 DEF Dials, Dial, Arrive
  <2>2. Tied'
    BY <1>3 DEF Dials, Dial, Connect, Tied, Talking
  <2> QED
    BY <1>1, <2>1, <2>2 DEF ClientMoves
<1>4. CASE Ask(c)
  <2>1. SendRequest(c)
    BY <1>4 DEF Ask, SendRequest, Tied, Talking
  <2>2. PICK r \in Asks : asked' = [asked EXCEPT ![c] = r]
    BY <1>4 DEF Ask
  <2>3. r # NoRequest
    BY Assumptions
    DEF AllAssumptions, RequestsAssumption, ProcessAssumption, ClientRequests
  <2>4. Tied'
    BY <1>4, <2>2, <2>3 DEF Ask, Tied, Talking
  <2> QED
    BY <1>1, <2>1, <2>4 DEF ClientMoves
<1>5. CASE Transmit(c)
  <2>1. ReadItem(c)
    BY <1>5 DEF Transmit, ReadItem
  <2>2. Tied'
    BY <1>5 DEF Transmit, Tied
  <2> QED
    BY <1>1, <2>1, <2>2 DEF ClientMoves
<1>6. ASSUME NEW pc \in Ended, End(c, pc), cpc[c] \in Talking \cup {"connect"}
      PROVE  (AnyNext \/ UNCHANGED vars) /\ Tied'
  BY <1>1, <1>2, <1>6, EndStep DEF ClientMoves
<1>7. ASSUME UNCHANGED <<procVars, connVars>>, cpc[c] \in Talking \ {"ask"},
             \E pc \in Talking \ {"ask"} : cpc' = [cpc EXCEPT ![c] = pc]
      PROVE  (AnyNext \/ UNCHANGED vars) /\ Tied'
  <2>1. PICK pc \in Talking \ {"ask"} : cpc' = [cpc EXCEPT ![c] = pc]
    BY <1>7
  <2>2. Tied'
    BY <1>7, <2>1 DEF Tied, Talking
  <2> QED
    BY <1>2, <1>7, <2>2
<1>8. ASSUME UNCHANGED <<procVars, connVars, cpc>>
      PROVE  (AnyNext \/ UNCHANGED vars) /\ Tied'
  BY <1>2, <1>8 DEF Tied
<1>9. CASE \/ Interrupt(c) \/ DialFails(c) \/ AskFails(c) \/ AnswerFails(c)
           \/ CopyReturns(c) \/ ListReturns(c) \/ FindPassword(c) \/ SniffReturns(c)
  <2>1. \E pc \in Ended : End(c, pc) /\ cpc[c] \in Talking \cup {"connect"}
    BY <1>9 DEF Interrupt, DialFails, AskFails, AnswerFails, CopyReturns,
                ListReturns, FindPassword, SniffReturns, Talking, Ended
  <2> QED
    BY <1>6, <2>1
<1>10. CASE CopyUnit(c) \/ ListUnit(c) \/ Analyse(c)
  BY <1>8, <1>10 DEF CopyUnit, ListUnit, Analyse
<1>11. CASE Create(c)
  <2>1. CASE End(c, "failed")
    BY <1>6, <1>11, <2>1 DEF Create, Talking, Ended
  <2>2. CASE ~End(c, "failed")
    BY <1>7, <1>11, <2>2 DEF Create, Talking
  <2> QED
    BY <2>1, <2>2
<1>12. CASE ReadAnswer(c) \/ ReadNoAnswer(c)
  <2>1. cpc[c] = "answer"
    BY <1>12 DEF ReadAnswer, ReadNoAnswer
  <2>2. CASE End(c, "failed")
    BY <1>6, <2>1, <2>2 DEF Talking, Ended
  <2>3. CASE /\ UNCHANGED <<procVars, connVars>>
             /\ cpc' = [cpc EXCEPT ![c] = NextState(asked[c].kind)]
    <3>1. asked[c].kind \in {REQUEST_GET, REQUEST_DIR, REQUEST_SNIFF}
      <4>1. asked[c] \in Asks
        BY <2>1 DEF Tied, Talking
      <4>2. asked[c] \in AnyRequest /\ asked[c].kind # OTHER_KIND
        BY <4>1, Assumptions
        DEF AllAssumptions, ProcessAssumption, ClientRequests
      <4> QED
        BY <4>2 DEF AnyRequest
    <3>2. NextState(asked[c].kind) \in Talking \ {"ask"}
      BY <3>1 DEF NextState, Talking, REQUEST_GET, REQUEST_DIR, REQUEST_SNIFF
    <3> QED
      BY <1>7, <2>1, <2>3, <3>2 DEF Talking
  <2> QED
    BY <1>12, <2>2, <2>3 DEF ReadAnswer, ReadNoAnswer
<1> QED
  BY <1>3, <1>4, <1>5, <1>9, <1>10, <1>11, <1>12 DEF ClientSide, ClientRuns

-----------------------------------------------------------------------------
(* The whole *)

\* The programs begin tied.
LEMMA NetInitLiving == NetInit => Living
<1>1. NetInit => Tied
  BY DEF NetInit, Init, ProcessInit, ClientInit, Tied, Talking
<1> QED
  BY <1>1, InitStreams DEF NetInit, Living

\* Every step keeps the invariant, and is one that StepStreams is about.
LEMMA LivingStep ==
  ASSUME Living, [NetNext]_netVars
  PROVE  [AnyNext]_vars /\ Living'
<1>1. CASE UNCHANGED netVars
  <2>1. UNCHANGED vars /\ UNCHANGED <<conn, asked, outbox, cpc>>
    BY <1>1 DEF netVars, vars, connVars, clientVars
  <2>2. Tied'
    BY <2>1 DEF Living, Tied
  <2> QED
    BY <2>1, <2>2, StepStreams DEF Living
<1>2. CASE ServerRuns
  BY <1>2, ServerSide, StepStreams DEF Living
<1>3. ASSUME NEW c \in Clients, ClientSide(c) PROVE [AnyNext]_vars /\ Living'
  BY <1>3, ClientStays, StepStreams DEF Living
<1> QED
  BY <1>1, <1>2, <1>3 DEF NetNext

\* In every execution of server and client programs the invariant of Server
\* holds: who serves a request, who is registered, who writes and what is on a
\* stream is settled as it is with clients that do as they like.
THEOREM WholeSystem == NetSpec => []Living
BY NetInitLiving, LivingStep, PTL DEF NetSpec

\* While the process lives, the programs of client.c do nothing that the clients
\* of module Server do not do.
THEOREM EnvironmentKept == NetSpec => ClientsAsAssumed
<1>1. proc # "exited" /\ AnyNext => Next
  BY DEF AnyNext, ClientMoves, Next, ClientStep
<1>2. Living /\ [NetNext]_netVars => [proc = "exited" \/ Next]_vars
  BY <1>1, LivingStep
<1> QED
  BY <1>2, WholeSystem, PTL DEF NetSpec, ClientsAsAssumed

\* Server and client programs together are that service too, those that exited
\* included: no order of their calls shows a reader more, less or anything else.
THEOREM WholeSystemIsService == NetSpec => ServerIsService
<1>1. NetInit => ServiceInv /\ Service!Init
  BY InitService, InitShown DEF NetInit
<1>2. Living /\ [NetNext]_netVars => [AnyNext]_vars
  BY LivingStep
<1>3. ServiceInv /\ ServiceInv' /\ [AnyNext]_vars => [Service!Next]_(Service!vars)
  BY StepShown
<1>4. NetSpec => Service!Init /\ [][Service!Next]_(Service!vars)
  BY <1>1, <1>2, <1>3, WholeSystem, StepService, PTL DEF NetSpec
<1> QED
  BY <1>4 DEF ServerIsService, Service!Spec

-----------------------------------------------------------------------------
(* The inductive invariant *)

Receiving == {"create", "copy", "list", "sniff"}

\* A client that was sent something was served, and so was one that goes on
\* while the server lives; afterwards it may have taken the end for an answer.
Heard(c) ==
  inbuf[c] # << >> \/ (cpc[c] \in Receiving /\ proc # "exited") =>
    /\ asked[c] # NoRequest
    /\ \E h \in Clients : hfd[h] = c /\ hpc[h] \in Late

\* A thread that answered and did not return.
Sending == {"copy", "dupout", "duperr", "exec"}

\* No thread has begun to send c anything.
Unserved(c) ==
  /\ \A h \in Clients : hfd[h] = c =>
       /\ hpc[h] \notin Sending
       /\ hpc[h] = "done" => asked[c] # NoRequest /\ asked[c].kind = REQUEST_SNIFF
  /\ ~(spc = "body" /\ sfd = c)

\* What comes first is an answer.
Opening(c) ==
  cpc[c] \in {"ask", "answer"} =>
    /\ inbuf[c] # << >> => Head(inbuf[c]).tag = "answer"
    /\ inbuf[c] = << >> /\ outbox[c] # << >> => Head(outbox[c]).tag = "answer"
    /\ inbuf[c] = << >> /\ outbox[c] = << >> => Unserved(c)

\* What is sent to a client of sniff(), and to another.
ItemsFor(r) ==
  {x \in Items : x.tag \in IF r.kind = REQUEST_SNIFF THEN {"answer", "packet"}
                           ELSE {"answer", "chunk", "listing", "text"}}

Sorted(c) == outbox[c] # << >> => outbox[c] \in Seq(ItemsFor(asked[c]))

\* What the next unit must be, given the last one delivered.
Joined(c) ==
  inbuf[c] # << >> =>
    LET x == LastOf(inbuf[c]) IN
    /\ x.tag = "piece" => x.at \in Sendable(x.frame) /\ asked[c].kind = REQUEST_SNIFF
    /\ outbox[c] # << >> /\ Head(outbox[c]).tag = "packet" =>
         x = Answer(ANSWER_OK, SentSize(Head(outbox[c]).frame))
    /\ outbox[c] = << >> /\ spc = "body" /\ sfd = c =>
         x = Answer(ANSWER_OK, SentSize(frame))

\* FramesWhole, of two units.
Adjacent(x, y) ==
  /\ y.tag = "piece" => \/ y.at = 1 /\ x = Answer(ANSWER_OK, SentSize(y.frame))
                        \/ x = [y EXCEPT !.at = @ - 1]
  /\ x.tag = "piece" /\ y.tag # "piece" =>
       x.at \in Sendable(x.frame) /\ y.tag = "answer"

Framed(c) == \A i \in 1..(Len(inbuf[c]) - 1) : Adjacent(inbuf[c][i], inbuf[c][i + 1])

\* Only a file is received in a local file, which is empty until then.
Filed(c) ==
  /\ cpc[c] \in {"create", "copy"} => asked[c].kind = REQUEST_GET
  /\ cpc[c] \in {"ask", "answer", "create"} => file[c] = << >>

\* The chunks the thread h has sent of the file path.
Sent(h, path) == IF hpc[h] = "done" THEN FileSize[path] ELSE hpos[h]

OnItsWay(c, h) ==
  LET path == asked[c].path IN
  /\ path \in DOMAIN FileSize
  /\ Sent(h, path) <= FileSize[path]
  /\ cpc[c] = "answer" =>
       inbuf[c] \o outbox[c] =
         <<Answer(ANSWER_OK, FileSize[path])>> \o ChunksOf(path, Sent(h, path))
  /\ cpc[c] \in {"create", "copy"} =>
       /\ file[c] \o (inbuf[c] \o outbox[c]) = ChunksOf(path, Sent(h, path))
       /\ rest[c] + Len(file[c]) = FileSize[path]

\* From the answer on, the file is in the local file, on its way, or unread.
Copying(c) ==
  \A h \in Clients : /\ hfd[h] = c /\ hpc[h] \in {"copy", "done"}
                     /\ asked[c] # NoRequest /\ asked[c].kind = REQUEST_GET
                     => OnItsWay(c, h)

Link(c) == /\ Heard(c) /\ Opening(c) /\ Sorted(c) /\ Joined(c)
           /\ Framed(c) /\ Filed(c) /\ Copying(c)

Links == \A c \in Clients : conn[c] = "open" => Link(c)

ClientTypes ==
  /\ inbuf \in [Clients -> Seq(Units)]
  /\ rest \in [Clients -> Nat]
  /\ file \in [Clients -> Seq(Units)]
  /\ buffer \in [Clients -> Seq(Units)]

\* Nothing waits on a connection that is not open.
Apart ==
  \A c \in Clients : /\ conn[c] # "open" => inbuf[c] = << >>
                     /\ cpc[c] = "connect" => file[c] = << >>

NetInv == Living /\ ClientTypes /\ Apart /\ Links

-----------------------------------------------------------------------------
(* Sequences *)

\* Concatenation may be bracketed as one likes.
LEMMA Assoc ==
  ASSUME NEW S, NEW s \in Seq(S), NEW t \in Seq(S), NEW u \in Seq(S)
  PROVE  (s \o t) \o u = s \o (t \o u)
BY ConcatAssociative

\* The items of a concatenation.
LEMMA Concat ==
  ASSUME NEW S, NEW s \in Seq(S), NEW t \in Seq(S)
  PROVE  /\ s \o t \in Seq(S)
         /\ Len(s \o t) = Len(s) + Len(t) /\ Len(s) \in Nat /\ Len(t) \in Nat
         /\ \A i \in 1..Len(s) : (s \o t)[i] = s[i]
         /\ \A i \in 1..Len(t) : (s \o t)[Len(s) + i] = t[i]
         /\ s \o << >> = s /\ << >> \o t = t
BY ConcatProperties, LenProperties

\* An item appended to the end of the second is appended to the whole.
LEMMA AppendToConcat ==
  ASSUME NEW S, NEW s \in Seq(S), NEW t \in Seq(S), NEW x \in S
  PROVE  s \o Append(t, x) = Append(s \o t, x)
OBVIOUS

\* An item moved from the head of the second to the end of the first.
LEMMA MoveItem ==
  ASSUME NEW S, NEW s \in Seq(S), NEW t \in Seq(S), t # << >>
  PROVE  /\ Append(s, Head(t)) \o Tail(t) = s \o t
         /\ (s \o <<Head(t)>>) \o Tail(t) = s \o t
OBVIOUS

\* What a concatenation begins with.
LEMMA HeadOfConcat ==
  ASSUME NEW S, NEW s \in Seq(S), NEW t \in Seq(S), s # << >>
  PROVE  Head(s \o t) = Head(s) /\ Tail(s \o t) = Tail(s) \o t
OBVIOUS

\* What a sequence begins with when an item is added to its end.
LEMMA HeadOfAppend ==
  ASSUME NEW S, NEW s \in Seq(S), NEW x \in S
  PROVE  Head(Append(s, x)) = IF s = << >> THEN x ELSE Head(s)
OBVIOUS

\* A sequence without its first n items.
LEMMA Suffix ==
  ASSUME NEW S, NEW s \in Seq(S), NEW n \in 1..Len(s)
  PROVE  LET t == SubSeq(s, n + 1, Len(s)) IN
         /\ t \in Seq(S) /\ Len(t) = Len(s) - n /\ Len(s) \in Nat
         /\ \A i \in 1..Len(t) : t[i] = s[i + n]
OBVIOUS

-----------------------------------------------------------------------------
(* Units of a stream *)

\* A number divided by one that is not more than it.
LEMMA Division ==
  ASSUME NEW a \in Nat, NEW b \in Nat \ {0}, a >= b
  PROVE  a \div b \in Nat \ {0}
OBVIOUS

\* A frame announced as n bytes takes at least one unit when n is not 0.
LEMMA SomePieces ==
  ASSUME NEW n \in Nat \ {0}
  PROVE  Pieces(n) \in Nat \ {0}
<1>1. PieceSize \in Nat \ {0}
  BY ClientAssume
<1>2. n + PieceSize - 1 \in Nat /\ n + PieceSize - 1 >= PieceSize
  BY <1>1
<1> QED
  BY <1>1, <1>2, Division DEF Pieces

\* A frame is announced with one byte at least.
LEMMA SizeSent == ASSUME NEW f \in Frames PROVE SentSize(f) \in Nat \ {0}
<1>1. f \in AnyFrame
  BY Assumptions DEF AllAssumptions, ProcessAssumption, Capturable
<1>2. Swap16(f.len) \in Nat
  BY <1>1, Swap16Type DEF AnyFrame
<1> QED
  BY <1>2 DEF SentSize, SIZE_ETHERNET

Piece(f, i) == [tag |-> "piece", frame |-> f, at |-> i]

\* Items and units, which are moved from one sequence to another.
Wares == Items \cup Units

\* Items and units in one set.
LEMMA WareSeqs == Seq(Items) \subseteq Seq(Wares) /\ Seq(Units) \subseteq Seq(Wares)
BY DEF Wares

\* At least one unit of a frame is sent.
LEMMA SomeSent ==
  ASSUME NEW f \in Frames, NEW n \in Sendable(f)
  PROVE  n \in Nat \ {0}
<1>1. Pieces(SentSize(f)) \in Nat \ {0}
  BY SizeSent, SomePieces
<1> QED
  BY <1>1 DEF Sendable

\* What the client finds of an item: the item itself, or a frame in pieces.
LEMMA CutItem ==
  ASSUME NEW x \in Items, NEW u \in Cuts(x)
  PROVE  /\ x.tag # "packet" => u = <<x>> /\ x \in Units
         /\ x.tag = "packet" =>
              /\ x.frame \in Frames
              /\ \E n \in Sendable(x.frame) :
                   n \in Nat \ {0} /\ u = [i \in 1..n |-> Piece(x.frame, i)]
<1>1. ASSUME x.tag = "packet"
      PROVE  x.frame \in Frames
  BY <1>1 DEF Items, Listing, Text
<1>2. ASSUME x.tag # "packet"
      PROVE  u = <<x>> /\ x \in Units
  <2>1. x \notin [tag : {"packet"}, frame : Frames]
    BY <1>2
  <2> QED
    BY <1>2, <2>1 DEF Units, Cuts
<1>3. ASSUME x.tag = "packet"
      PROVE  \E n \in Sendable(x.frame) :
               n \in Nat \ {0} /\ u = [i \in 1..n |-> Piece(x.frame, i)]
  <2>1. PICK n \in Sendable(x.frame) : u = [i \in 1..n |-> Piece(x.frame, i)]
    BY <1>3 DEF Cuts, Piece
  <2> QED
    BY <1>1, <1>3, <2>1, SomeSent
<1> QED
  BY <1>1, <1>2, <1>3

\* What the client finds of an item is some units.
LEMMA CutType ==
  ASSUME NEW x \in Items, NEW u \in Cuts(x)
  PROVE  u \in Seq(Units) /\ u # << >>
<1>1. CASE x.tag # "packet"
  <2>1. x \in Units /\ u = <<x>>
    BY <1>1, CutItem
  <2> QED
    BY <2>1
<1>2. CASE x.tag = "packet"
  <2>1. PICK n \in Nat \ {0} : u = [i \in 1..n |-> Piece(x.frame, i)]
    BY <1>2, CutItem
  <2>2. \A i \in 1..n : Piece(x.frame, i) \in Units
    BY <1>2, CutItem DEF Piece, Units
  <2>3. u \in Seq(Units) /\ Len(u) = n
    BY <2>1, <2>2
  <2> QED
    BY <2>1, <2>3
<1> QED
  BY <1>1, <1>2

\* The first chunks of a file, and one more.
LEMMA Chunks ==
  ASSUME NEW path \in Paths, NEW n \in Nat
  PROVE  /\ ChunksOf(path, n) \in Seq(Items)
         /\ ChunksOf(path, n + 1) = Append(ChunksOf(path, n), Chunk(path, n))
         /\ ChunksOf(path, 0) = << >>
<1>1. \A i \in 1..n : Chunk(path, i - 1) \in Items
  BY ItemTypes
<1>2. ChunksOf(path, n) \in Seq(Items) /\ Len(ChunksOf(path, n)) = n
  BY <1>1 DEF ChunksOf
<1>3. ChunksOf(path, n + 1) = Append(ChunksOf(path, n), Chunk(path, n))
  <2>1. n + 1 - 1 = n
    OBVIOUS
  <2> QED
    BY <2>1 DEF ChunksOf
<1>4. ChunksOf(path, 0) = << >>
  BY DEF ChunksOf
<1> QED
  BY <1>2, <1>3, <1>4

-----------------------------------------------------------------------------
(* A connection to which nothing is written *)

\* The program of c does nothing.
Still(c) ==
  /\ cpc'[c] = cpc[c] /\ inbuf'[c] = inbuf[c] /\ rest'[c] = rest[c]
  /\ file'[c] = file[c] /\ asked'[c] = asked[c]

\* A thread on c is where it was, or finished with a registration, a listing, or a
\* whole file.
Finished(c, h) ==
  /\ hfd[h] = c
  /\ \/ hpc[h] = "done"
     \/ asked[c] # NoRequest /\ asked[c].kind = REQUEST_SNIFF
     \/ hpc[h] = "exec" /\ asked[c] # NoRequest /\ asked[c].kind # REQUEST_GET
     \/ hpc[h] = "copy" /\ hpos[h] >= FileSize[asked[c].path]

\* Nothing is written to c, and nobody is about to write to it who was not.
Unwritten(c) ==
  /\ outbox'[c] = outbox[c]
  /\ proc' # "exited" => proc # "exited"
  /\ \A h \in Clients : hfd[h] = c /\ hpc[h] \in Late => hfd'[h] = c /\ hpc'[h] \in Late
  /\ \A h \in Clients : hfd'[h] = c /\ hpc'[h] \in Sending =>
       /\ hfd[h] = c /\ hpc[h] \in Sending
       /\ hpc'[h] = "copy" => hpc[h] = "copy" /\ hpos'[h] = hpos[h]
  /\ \A h \in Clients : hfd'[h] = c /\ hpc'[h] = "done" => Finished(c, h)
  /\ spc' = "body" /\ sfd' = c => spc = "body" /\ sfd = c /\ frame' = frame

\* A connection on which nothing happens stays what it was.
LEMMA QuietLink ==
  ASSUME NEW c \in Clients, Link(c), Still(c), Unwritten(c),
         \A h \in Clients : hpos[h] \in Nat,
         \A p \in DOMAIN FileSize : FileSize[p] \in Nat
  PROVE  Link(c)'
<1>1. Heard(c)'
  <2>1. /\ cpc'[c] = cpc[c] /\ inbuf'[c] = inbuf[c] /\ asked'[c] = asked[c]
        /\ proc' # "exited" => proc # "exited"
        /\ \A h \in Clients : hfd[h] = c /\ hpc[h] \in Late
                              => hfd'[h] = c /\ hpc'[h] \in Late
    BY DEF Still, Unwritten
  <2> QED
    BY <2>1 DEF Link, Heard
<1>2. Unserved(c) => Unserved(c)'
  <2> SUFFICES ASSUME Unserved(c)
               PROVE  Unserved(c)'
    OBVIOUS
  <2>1. ASSUME NEW h \in Clients, hfd'[h] = c
        PROVE  /\ hpc'[h] \notin Sending
               /\ hpc'[h] = "done" => asked[c] # NoRequest /\ asked[c].kind = REQUEST_SNIFF
    BY <2>1 DEF Unwritten, Unserved, Finished, Sending
  <2>2. ~(spc' = "body" /\ sfd' = c)
    BY DEF Unwritten, Unserved
  <2> QED
    BY <2>1, <2>2 DEF Unserved, Still
<1>3. Opening(c)'
  BY <1>2 DEF Link, Opening, Still, Unwritten
<1>4. Sorted(c)'
  BY DEF Link, Sorted, Still, Unwritten, ItemsFor
<1>5. Joined(c)'
  BY DEF Link, Joined, Still, Unwritten
<1>6. Framed(c)' /\ Filed(c)'
  BY DEF Link, Framed, Filed, Still
<1>7. Copying(c)'
  <2> SUFFICES ASSUME NEW h \in Clients, hfd'[h] = c, hpc'[h] \in {"copy", "done"},
                      asked[c] # NoRequest, asked[c].kind = REQUEST_GET
               PROVE  OnItsWay(c, h)'
    BY DEF Copying, Still
  <2> DEFINE path == asked[c].path
  <2>1. /\ hfd[h] = c /\ hpc[h] \in {"copy", "done"}
        /\ \/ hpc'[h] = hpc[h] /\ (hpc[h] = "copy" => hpos'[h] = hpos[h])
           \/ hpc[h] = "copy" /\ hpc'[h] = "done" /\ hpos[h] >= FileSize[path]
    BY DEF Unwritten, Finished, Sending, REQUEST_GET, REQUEST_SNIFF
  <2>2. OnItsWay(c, h)
    BY <2>1 DEF Link, Copying
  <2>3. path \in DOMAIN FileSize /\ FileSize[path] \in Nat /\ Sent(h, path) <= FileSize[path]
    BY <2>2 DEF OnItsWay
  <2>6. path' = path
    BY DEF Still
  <2> HIDE DEF path
  <2>4. Sent(h, path)' = Sent(h, path)
    <3>1. CASE hpc'[h] = hpc[h] /\ (hpc[h] = "copy" => hpos'[h] = hpos[h])
      BY <2>1, <2>6, <3>1 DEF Sent
    <3>2. CASE hpc[h] = "copy" /\ hpc'[h] = "done" /\ hpos[h] >= FileSize[path]
      <4>1. hpos[h] <= FileSize[path] /\ hpos[h] \in Nat
        BY <2>3, <3>2 DEF Sent
      <4>2. hpos[h] = FileSize[path]
        BY <2>3, <3>2, <4>1
      <4> QED
        BY <2>6, <3>2, <4>2 DEF Sent
    <3> QED
      BY <2>1, <3>1, <3>2 DEF path
  <2>5. /\ asked'[c] = asked[c] /\ cpc'[c] = cpc[c] /\ inbuf'[c] = inbuf[c]
        /\ file'[c] = file[c] /\ outbox'[c] = outbox[c] /\ rest'[c] = rest[c]
    BY DEF Still, Unwritten
  <2> QED
    BY <2>2, <2>4, <2>5 DEF OnItsWay, path
<1> QED
  BY <1>1, <1>3, <1>4, <1>5, <1>6, <1>7 DEF Link

\* What the lemma above supposes of the numbers.
LEMMA Numbers ==
  ASSUME Living
  PROVE  /\ \A h \in Clients : hpos[h] \in Nat
         /\ \A p \in DOMAIN FileSize : FileSize[p] \in Nat
BY FileSizeType DEF Living, StreamInv, Inv, TypeOK, HandlersTypeOK

-----------------------------------------------------------------------------
(* The threads that write nothing *)

\* The accept loop writes nothing.
LEMMA MainQuiet ==
  ASSUME Living, MainStep, UNCHANGED snifferVars, NEW c \in Clients
  PROVE  Unwritten(c)
<1> USE DEF connVars, procVars, threadVars, Running
<1>1. /\ UNCHANGED <<outbox, hfd, hpos>>
      /\ proc = "run"
      /\ \A g \in Clients : hpc'[g] = hpc[g] \/ (hpc[g] = "none" /\ hpc'[g] = "start")
  <2>1. CASE Setup \/ Accept \/ AcceptFails
    BY <2>1 DEF Setup, Accept, AcceptFails
  <2>2. CASE Spawn
    <3>1. hpc[client] = "none" /\ client \in Clients
      BY <2>2 DEF Spawn, Living, StreamInv, Inv, Created, TypeOK, HandlersTypeOK
    <3> QED
      BY <2>2, <3>1 DEF Spawn, Living, StreamInv, Inv, TypeOK, HandlersTypeOK
  <2> QED
    BY <2>1, <2>2 DEF MainStep
<1> QED
  BY <1>1 DEF Unwritten, Finished, Late, Sending, snifferVars

\* A handler that writes nothing.
LEMMA HandlerQuiet ==
  ASSUME Living, NEW h \in Clients, HandlerStep(h), UNCHANGED snifferVars,
         ~(Reject(h) \/ AnswerGet(h) \/ CopyChunk(h) \/ AnswerDir(h) \/ LsWrites(h)),
         NEW c \in Clients, conn[c] = "open"
  PROVE  Unwritten(c)
<1>1. Silent(h)
  BY SilentSteps DEF Living
<1>2. /\ hpc \in [Clients -> HandlerPCs] /\ hfd \in [Clients -> Clients \cup {NoFd}]
      /\ hreq \in [Clients -> AnyRequest \cup {NoRequest}]
  BY DEF Living, StreamInv, Inv, TypeOK, HandlersTypeOK
<1>3. ASSUME hfd'[h] = c, hpc'[h] = "done"
      PROVE  Finished(c, h)
  <2>1. hfd[h] = c /\ \/ hpc[h] = "done"
                      \/ hpc[h] = "exec" \/ hpc[h] = "store"
                      \/ hpc[h] = "copy" /\ hpos[h] >= FileSize[hreq[h].path]
    <3> USE DEF At, Running, Goto, Return, connVars, procVars, threadVars, mainVars,
                handlerVars
    <3>1. CASE Start(h) \/ RecvRequest(h) \/ RecvEof(h) \/ RecvError(h) \/ ExitProcess(h)
      BY <1>2, <1>3, <3>1 DEF Start, RecvRequest, RecvEof, RecvError, ExitProcess
    <3>2. CASE Dispatch(h)
      <4>1. NextPc(hreq[h]) \in {"answer", "reject", "list", "scan", "exit"}
        BY DEF NextPc
      <4> QED
        BY <1>2, <1>3, <3>2, <4>1 DEF Dispatch
    <3>3. CASE CopyFails(h) \/ CopyDone(h) \/ DupOut(h) \/ DupErr(h) \/ ExecLs(h)
      BY <1>2, <1>3, <3>3 DEF CopyFails, CopyDone, DupOut, DupErr, Dup, ExecLs
    <3>4. CASE ScanFree(h) \/ ScanTaken(h) \/ ScanFull(h) \/ Store(h)
      BY <1>2, <1>3, <3>4 DEF ScanFree, ScanTaken, ScanFull, Store
    <3>5. CASE HandlerWriteFails(h)
      BY <1>3, <3>5 DEF HandlerWriteFails
    <3> QED
      BY <3>1, <3>2, <3>3, <3>4, <3>5 DEF HandlerStep
  <2>2. CASE hpc[h] = "done"
    BY <2>1, <2>2 DEF Finished
  <2>3. CASE hpc[h] \in {"copy", "exec", "store"}
    <3>1. hreq[h] = asked[c] /\ asked[c] # NoRequest
      BY <2>1, <2>3, TheRequest
      DEF HasRequest, ListingPCs, Living, StreamInv, Inv, Received, Serves
    <3>2. /\ hpc[h] = "exec" => hreq[h].kind # REQUEST_GET
          /\ hpc[h] = "store" => hreq[h].kind = REQUEST_SNIFF
      BY <2>3 DEF Living, StreamInv, Kinds, Inv, TypeOK, HandlersTypeOK, ListingPCs,
                  REQUEST_GET, REQUEST_DIR
    <3> QED
      BY <2>1, <3>1, <3>2 DEF Finished
  <2> QED
    BY <2>1, <2>2, <2>3
<1>4. ASSUME NEW g \in Clients, hfd'[g] = c, hpc'[g] = "done"
      PROVE  Finished(c, g)
  BY <1>1, <1>3, <1>4 DEF Silent, Finished
<1>5. ASSUME hpc'[h] \in {"dupout", "duperr", "exec"}
      PROVE  hpc[h] \in Sending /\ hfd'[h] = hfd[h]
  <2> USE DEF At, Running, Goto, Return, connVars, procVars, threadVars, mainVars,
              handlerVars, Sending
  <2>1. CASE Start(h) \/ RecvRequest(h) \/ RecvEof(h) \/ RecvError(h) \/ ExitProcess(h)
    BY <1>2, <1>5, <2>1 DEF Start, RecvRequest, RecvEof, RecvError, ExitProcess
  <2>2. CASE Dispatch(h)
    <3>1. NextPc(hreq[h]) \in {"answer", "reject", "list", "scan", "exit"}
      BY DEF NextPc
    <3> QED
      BY <1>2, <1>5, <2>2, <3>1 DEF Dispatch
  <2>3. CASE CopyFails(h) \/ CopyDone(h) \/ DupOut(h) \/ DupErr(h) \/ ExecLs(h)
    BY <1>2, <1>5, <2>3 DEF CopyFails, CopyDone, DupOut, DupErr, Dup, ExecLs
  <2>4. CASE ScanFree(h) \/ ScanTaken(h) \/ ScanFull(h) \/ Store(h)
    BY <1>2, <1>5, <2>4 DEF ScanFree, ScanTaken, ScanFull, Store
  <2>5. CASE HandlerWriteFails(h)
    BY <1>5, <2>5 DEF HandlerWriteFails
  <2> QED
    BY <2>1, <2>2, <2>3, <2>4, <2>5 DEF HandlerStep
<1>6. ASSUME NEW g \in Clients, hfd'[g] = c, hpc'[g] \in Sending
      PROVE  /\ hfd[g] = c /\ hpc[g] \in Sending
             /\ hpc'[g] = "copy" => hpc[g] = "copy" /\ hpos'[g] = hpos[g]
  BY <1>1, <1>5, <1>6 DEF Silent, Sending
<1> QED
  BY <1>1, <1>4, <1>6 DEF Unwritten, Silent, snifferVars

\* The capture thread between two writes.
LEMMA SnifferQuiet ==
  ASSUME Living, SnifferStep, UNCHANGED handlerVars, NEW c \in Clients,
         ~(WriteHeader \/ WriteBody)
  PROVE  Unwritten(c)
<1> USE DEF connVars, procVars, Running
<1>1. /\ UNCHANGED <<outbox, hpc, hfd, hpos>> /\ proc = "run"
      /\ spc' # "body" \/ UNCHANGED <<spc, sfd, frame>>
  <2>1. CASE OpenDevice \/ Capture \/ SkipSlot \/ TakeSlot
    BY <2>1 DEF OpenDevice, Capture, SkipSlot, TakeSlot, handlerVars, threadVars
  <2>2. CASE Classify \/ NextTable
    BY <2>2 DEF Classify, NextTable, DeliverTo, handlerVars, threadVars
  <2>3. CASE SnifferWriteFails
    BY <2>3 DEF SnifferWriteFails, snifferVars, handlerVars, threadVars
  <2> QED
    BY <2>1, <2>2, <2>3 DEF SnifferStep, Deliver
<1> QED
  BY <1>1 DEF Unwritten, Finished, Sending

-----------------------------------------------------------------------------
(* The handlers that write *)

\* The thread h, which has the request of c, not of sniff(), writes item to it.
Posts(c, h, item) ==
  /\ hfd[h] = c /\ hfd' = hfd /\ conn[c] = "open" /\ asked[c] = hreq[h]
  /\ asked[c] # NoRequest /\ asked[c].kind # REQUEST_SNIFF
  /\ item \in Items /\ item.tag # "packet"
  /\ outbox'[c] = Append(outbox[c], item) /\ outbox[c] \in Seq(Items)
  /\ hpc[h] \in HasRequest /\ hpc'[h] \in {"copy", "dupout", "exit"}
  /\ hpc[h] # "copy" => item.tag = "answer"
  /\ \A g \in Clients : g # h => hpc'[g] = hpc[g]
  /\ proc # "exited" /\ UNCHANGED snifferVars

\* A handler that writes to c keeps what is known of the connection, but for the
\* copy.
LEMMA PostKeeps ==
  ASSUME NEW c \in Clients, NEW h \in Clients, NEW item, Living, Link(c), Still(c),
         Posts(c, h, item)
  PROVE  /\ Heard(c)' /\ Opening(c)' /\ Sorted(c)' /\ Joined(c)' /\ Framed(c)'
         /\ Filed(c)'
         /\ \A g \in Clients : hfd'[g] = c /\ hpc'[g] \in {"copy", "done"} => g = h
<1> DEFINE s == outbox[c]
<1>1. /\ s \in Seq(Items) /\ item \in Items /\ outbox'[c] = Append(s, item)
      /\ cpc'[c] = cpc[c] /\ inbuf'[c] = inbuf[c] /\ asked'[c] = asked[c]
      /\ hfd[h] = c /\ hfd' = hfd /\ hpc'[h] \in Late
  BY DEF Posts, Still, Late
<1>2. outbox'[c] # << >> /\ Head(outbox'[c]) = IF s = << >> THEN item ELSE Head(s)
  BY <1>1, HeadOfAppend, Appended
<1>3. Heard(c)'
  BY <1>1 DEF Heard, Posts
<1>4. Opening(c)'
  <2> SUFFICES ASSUME cpc[c] \in {"ask", "answer"}
               PROVE  /\ inbuf[c] # << >> => Head(inbuf[c]).tag = "answer"
                      /\ inbuf[c] = << >> => Head(outbox'[c]).tag = "answer"
    BY <1>1, <1>2 DEF Opening
  <2>1. ASSUME inbuf[c] = << >>, s = << >>
        PROVE  item.tag = "answer"
    <3>1. Unserved(c)
      BY <2>1 DEF Link, Opening
    <3> QED
      BY <3>1 DEF Unserved, Posts, Sending
  <2> QED
    BY <1>2, <2>1 DEF Link, Opening
<1>5. Sorted(c)'
  <2>1. item \in ItemsFor(asked[c])
    <3>1. item.tag \in {"answer", "chunk", "listing", "text"}
      BY DEF Posts, Items, Listing, Text
    <3> QED
      BY <1>1, <3>1 DEF ItemsFor, Posts
  <2>2. s \in Seq(ItemsFor(asked[c]))
    <3>1. << >> \in Seq(ItemsFor(asked[c]))
      OBVIOUS
    <3> QED
      BY <3>1 DEF Link, Sorted
  <2>3. Append(s, item) \in Seq(ItemsFor(asked[c]))
    BY <2>1, <2>2
  <2> QED
    BY <1>1, <2>3 DEF Sorted
<1>6. Joined(c)'
  <2> SUFFICES ASSUME inbuf[c] # << >>
               PROVE  /\ LastOf(inbuf[c]).tag # "piece"
                      /\ Head(outbox'[c]).tag # "packet"
    BY <1>1, <1>2 DEF Joined, LastOf
  <2>1. LastOf(inbuf[c]).tag # "piece"
    BY DEF Link, Joined, Posts
  <2>2. ASSUME s # << >> PROVE Head(s).tag # "packet"
    <3>1. s \in Seq(ItemsFor(asked[c]))
      BY <2>2 DEF Link, Sorted
    <3>2. Head(s) \in ItemsFor(asked[c])
      BY <2>2, <3>1
    <3> QED
      BY <3>2 DEF ItemsFor, Posts
  <2> QED
    BY <1>2, <2>1, <2>2 DEF Posts
<1>7. Framed(c)' /\ Filed(c)'
  BY DEF Link, Framed, Filed, Still
<1>8. ASSUME NEW g \in Clients, hfd'[g] = c, hpc'[g] \in {"copy", "done"}
      PROVE  g = h
  <2> SUFFICES ASSUME g # h
               PROVE  FALSE
    OBVIOUS
  <2>1. hfd[g] = c /\ hpc[g] \in HasRequest \cup Late
    BY <1>8 DEF Posts, Late
  <2>2. hpc[h] \in HasRequest \cup Late /\ conn[c] = "open" /\ hfd[h] = c
    BY DEF Posts
  <2> QED
    BY <2>1, <2>2, TheHandler DEF Living, StreamInv
<1> QED
  BY <1>3, <1>4, <1>5, <1>6, <1>7, <1>8

\* The others are left alone.
LEMMA PostElsewhere ==
  ASSUME NEW h \in Clients, NEW item, NEW c \in Clients, hfd[h] # c, hfd' = hfd,
         Write(hfd[h], item), outbox \in [Clients -> Seq(Items)],
         \A g \in Clients : g # h => hpc'[g] = hpc[g] /\ hpos'[g] = hpos[g],
         proc # "exited", UNCHANGED snifferVars
  PROVE  Unwritten(c)
<1>1. outbox'[c] = outbox[c]
  BY DEF Write
<1> QED
  BY <1>1 DEF Unwritten, Finished, Sending, snifferVars

\* What a handler does when it writes.
Posting(h, item) ==
  \/ /\ hpc[h] = "answer" /\ hpc'[h] = "copy" /\ hpos'[h] = hpos[h]
     /\ item = Answer(ANSWER_OK, FileSize[hreq[h].path])
  \/ /\ hpc[h] = "copy" /\ hpc'[h] = "copy" /\ hpos'[h] = hpos[h] + 1
     /\ hpos[h] < FileSize[hreq[h].path]
     /\ item = Chunk(hreq[h].path, hpos[h])
  \/ hpc'[h] # "copy"

\* The steps of handlers that write, and what each writes.
LEMMA Posters ==
  ASSUME Living, NEW h \in Clients, UNCHANGED snifferVars,
         \/ Reject(h) \/ AnswerGet(h) \/ CopyChunk(h) \/ AnswerDir(h)
  PROVE  /\ hfd[h] \in Clients /\ hpc[h] \in HasRequest /\ proc # "exited"
         /\ hfd' = hfd
         /\ \A g \in Clients : g # h => hpc'[g] = hpc[g] /\ hpos'[g] = hpos[g]
         /\ \E item \in Items :
              /\ Write(hfd[h], item) /\ item.tag # "packet"
              /\ hpc[h] # "copy" => item.tag = "answer"
              /\ hpc'[h] \in {"copy", "dupout", "exit"}
              /\ Posting(h, item)
<1> USE DEF At, Running, Goto, threadVars, mainVars, handlerVars, Posting
<1>1. HandlersTypeOK /\ hpc \in [Clients -> HandlerPCs] /\ hpos \in [Clients -> Nat]
  BY DEF Living, StreamInv, Inv, TypeOK, HandlersTypeOK
<1>2. hpc[h] \in {"reject", "answer", "copy", "list"} /\ proc # "exited"
  BY DEF Reject, AnswerGet, CopyChunk, AnswerDir
<1>3. hpc[h] \in HasRequest /\ hfd[h] \in Clients
  BY <1>1, <1>2 DEF HasRequest, ListingPCs, HandlersTypeOK
<1>4. /\ hfd' = hfd
      /\ \A g \in Clients : g # h => hpc'[g] = hpc[g] /\ hpos'[g] = hpos[g]
  BY <1>1 DEF Reject, AnswerGet, CopyChunk, AnswerDir
<1>5. CASE Reject(h) \/ AnswerDir(h)
  <2>1. /\ hpc'[h] \in {"dupout", "exit"}
        /\ \E ack \in {ANSWER_OK, ANSWER_ERROR} : Write(hfd[h], Answer(ack, 0))
    BY <1>1, <1>5 DEF Reject, AnswerDir
  <2>2. \A ack \in {ANSWER_OK, ANSWER_ERROR} :
          Answer(ack, 0) \in Items /\ Answer(ack, 0).tag = "answer"
    BY ItemTypes DEF Answer
  <2> QED
    BY <1>2, <1>3, <1>4, <2>1, <2>2
<1>6. CASE AnswerGet(h)
  <2> DEFINE item == Answer(ANSWER_OK, FileSize[hreq[h].path])
  <2>1. hreq[h].path \in DOMAIN FileSize
    BY <1>1, <1>6 DEF HandlersTypeOK, AnswerGet
  <2>2. item \in Items /\ item.tag = "answer"
    BY <2>1, FileSizeType, ItemTypes DEF Answer
  <2>3. /\ Write(hfd[h], item) /\ hpc[h] = "answer" /\ hpc'[h] = "copy"
        /\ hpos'[h] = hpos[h]
    BY <1>1, <1>6 DEF AnswerGet
  <2>4. item = Answer(ANSWER_OK, FileSize[hreq[h].path])
    OBVIOUS
  <2> HIDE DEF item
  <2> QED
    BY <1>2, <1>3, <1>4, <2>2, <2>3, <2>4
<1>7. CASE CopyChunk(h)
  <2> DEFINE item == Chunk(hreq[h].path, hpos[h])
  <2>1. hreq[h].path \in Paths /\ hpos[h] \in Nat
    BY <1>1, <1>7, FileSizeType DEF HandlersTypeOK, CopyChunk
  <2>2. item \in Items /\ item.tag = "chunk"
    BY <2>1, ItemTypes DEF Chunk
  <2>3. /\ Write(hfd[h], item) /\ hpc[h] = "copy" /\ hpc'[h] = "copy"
        /\ hpos'[h] = hpos[h] + 1 /\ hpos[h] < FileSize[hreq[h].path]
    BY <1>1, <1>7 DEF CopyChunk
  <2>4. item = Chunk(hreq[h].path, hpos[h])
    OBVIOUS
  <2> HIDE DEF item
  <2> QED
    BY <1>2, <1>3, <1>4, <2>2, <2>3, <2>4
<1> QED
  BY <1>5, <1>6, <1>7

\* The file goes on as it began: AnswerGet answers a client that was sent nothing,
\* CopyChunk adds the next chunk.
LEMMA PostCopies ==
  ASSUME NEW c \in Clients, NEW h \in Clients, NEW item, Living, ClientTypes, Link(c),
         Still(c), Posts(c, h, item), Posting(h, item)
  PROVE  Copying(c)'
<1> SUFFICES ASSUME hpc'[h] = "copy", asked[c].kind = REQUEST_GET
             PROVE  OnItsWay(c, h)'
  BY PostKeeps DEF Copying, Posts, Still
<1> DEFINE path == asked[c].path
           s == outbox[c]
<1>1. /\ hreq[h] = asked[c] /\ hpc[h] \in {"answer", "copy"} /\ hpos[h] \in Nat
      /\ s \in Seq(Items) /\ item \in Items /\ outbox'[c] = Append(s, item)
      /\ cpc'[c] = cpc[c] /\ inbuf'[c] = inbuf[c] /\ rest'[c] = rest[c]
      /\ file'[c] = file[c] /\ asked'[c] = asked[c] /\ hfd[h] = c
  BY Numbers DEF Posts, Posting, Still
<1>2. path \in DOMAIN FileSize /\ path \in Paths /\ FileSize[path] \in Nat
  BY <1>1, FileSizeType DEF Living, StreamInv, Inv, TypeOK, HandlersTypeOK
<1> DEFINE k == hpos[h]
<1>3. CASE hpc[h] = "answer"
  <2>1. item = Answer(ANSWER_OK, FileSize[path]) /\ hpos'[h] = 0
    BY <1>1, <1>3 DEF Posting, Living, StreamInv, Inv, Rewound, HandlerPCs
  <2>2. s = << >>
    BY <1>1, <1>3, NothingSent DEF Living, HasRequest, ListingPCs, Late, Posts
  <2>3. inbuf[c] = << >> /\ cpc[c] \notin {"create", "copy"}
    <3>1. SUFFICES ASSUME NEW g \in Clients, hfd[g] = c, hpc[g] \in Late
                   PROVE  FALSE
      BY DEF Link, Heard, Receiving, Posts
    <3>2. g = h
      BY <1>1, <1>3, <3>1, TheHandler DEF Living, StreamInv, HasRequest, Posts
    <3> QED
      BY <1>3, <3>1, <3>2 DEF Late
  <2>4. Sent(h, path)' = 0 /\ ChunksOf(path, 0) = << >>
    BY <1>2, <2>1, Chunks DEF Sent
  <2> QED
    BY <1>1, <1>2, <2>1, <2>2, <2>3, <2>4 DEF OnItsWay
<1>4. CASE hpc[h] = "copy"
  <2> DEFINE x == Chunk(path, k)
             a == <<Answer(ANSWER_OK, FileSize[path])>>
             cs == ChunksOf(path, k)
  <2>1. /\ item = x /\ k < FileSize[path] /\ hpos'[h] = k + 1
        /\ OnItsWay(c, h) /\ Sent(h, path) = k /\ Sent(h, path)' = k + 1
    BY <1>1, <1>4 DEF Posting, Link, Copying, Sent, Posts
  <2>2. /\ cs \in Seq(Items) /\ ChunksOf(path, k + 1) = Append(cs, x)
        /\ a \in Seq(Items) /\ x \in Items
    <3>1. Answer(ANSWER_OK, FileSize[path]) \in Items /\ x \in Items
      BY <1>1, <1>2, ItemTypes
    <3>2. a \in Seq(Items)
      BY <3>1
    <3>3. cs \in Seq(Items) /\ ChunksOf(path, k + 1) = Append(cs, x)
      BY <1>1, <1>2, Chunks
    <3> QED
      BY <3>1, <3>2, <3>3
  <2>3. /\ file[c] \in Seq(Wares) /\ inbuf[c] \in Seq(Wares) /\ s \in Seq(Wares)
        /\ a \in Seq(Wares) /\ cs \in Seq(Wares) /\ x \in Wares
    BY <1>1, <2>2, WareSeqs DEF ClientTypes, Wares
  <2> HIDE DEF x, a, cs
  <2>4. inbuf[c] \o s \in Seq(Wares)
    BY <2>3, Concat
  <2>5. /\ inbuf[c] \o Append(s, x) = Append(inbuf[c] \o s, x)
        /\ file[c] \o Append(inbuf[c] \o s, x) = Append(file[c] \o (inbuf[c] \o s), x)
        /\ a \o Append(cs, x) = Append(a \o cs, x)
    <3>1. \A t, u \in Seq(Wares) : t \o Append(u, x) = Append(t \o u, x)
      BY <2>3, AppendToConcat
    <3>2. inbuf[c] \o Append(s, x) = Append(inbuf[c] \o s, x)
      BY <2>3, <3>1
    <3>3. file[c] \o Append(inbuf[c] \o s, x) = Append(file[c] \o (inbuf[c] \o s), x)
      BY <2>3, <2>4, <3>1
    <3>4. a \o Append(cs, x) = Append(a \o cs, x)
      BY <2>3, <3>1
    <3> QED
      BY <3>2, <3>3, <3>4
  <2>6. k + 1 <= FileSize[path]
    BY <1>1, <1>2, <2>1
  <2>7. cpc[c] = "answer" => inbuf[c] \o outbox'[c] = a \o ChunksOf(path, k + 1)
    BY <1>1, <2>1, <2>2, <2>5 DEF OnItsWay, a, cs
  <2>8. cpc[c] \in {"create", "copy"} =>
          /\ file[c] \o (inbuf[c] \o outbox'[c]) = ChunksOf(path, k + 1)
          /\ rest[c] + Len(file[c]) = FileSize[path]
    BY <1>1, <2>1, <2>2, <2>5 DEF OnItsWay, cs
  <2> QED
    BY <1>1, <1>2, <2>1, <2>6, <2>7, <2>8 DEF OnItsWay, a
<1> QED
  BY <1>1, <1>3, <1>4

\* What is printed, by whatever thread, and what ls lists goes to a client of a
\* listing that was answered.
LEMMA PrintedLinks ==
  ASSUME Living, Links, NEW d \in Clients, d \in {std[1], std[2]},
         NEW item \in {Text, Listing}, Write(d, item), proc # "exited",
         UNCHANGED <<conn, asked, handlerVars, snifferVars, clientVars>>,
         NEW c \in Clients, conn[c] = "open"
  PROVE  Link(c)'
<1>1. /\ Link(c) /\ Still(c) /\ outbox \in [Clients -> Seq(Items)]
      /\ UNCHANGED <<conn, asked, hpc, hfd, hpos, spc, sfd, frame, cpc, inbuf, rest, file>>
  BY DEF Links, Still, clientVars, handlerVars, threadVars, snifferVars, Living,
         StreamInv, Inv, TypeOK, ProcessTypeOK
<1>2. CASE c # d
  <2>1. Unwritten(c)
    BY <1>1, <1>2 DEF Unwritten, Finished, Sending, Write
  <2> QED
    BY <1>1, <2>1, QuietLink, Numbers
<1>3. CASE c = d
  <2> DEFINE s == outbox[c]
  <2>1. /\ asked[c] # NoRequest /\ asked[c].kind = REQUEST_DIR
        /\ \E h \in Clients : hfd[h] = c /\ hpc[h] \in {"duperr", "exec", "done"}
        /\ sfd # c
    BY <1>3 DEF Living, StreamInv, Inv, Redirected
  <2>2. /\ s \in Seq(Items) /\ item \in Items /\ outbox'[c] = Append(s, item)
        /\ item.tag \in {"text", "listing"}
    BY <1>1, <1>3, ItemTypes DEF Write, Text, Listing
  <2>3. outbox'[c] # << >> /\ Head(outbox'[c]) = IF s = << >> THEN item ELSE Head(s)
    BY <2>2, HeadOfAppend, Appended
  <2>4. ~Unserved(c)
    BY <2>1 DEF Unserved, Sending, REQUEST_DIR, REQUEST_SNIFF
  <2>5. Heard(c)'
    BY <1>1, <2>1 DEF Heard, Late
  <2>6. Opening(c)'
    BY <1>1, <2>3, <2>4 DEF Link, Opening
  <2>7. Sorted(c)'
    <3>1. item \in ItemsFor(asked[c])
      BY <2>1, <2>2 DEF ItemsFor, REQUEST_DIR, REQUEST_SNIFF
    <3>2. s \in Seq(ItemsFor(asked[c]))
      <4>1. << >> \in Seq(ItemsFor(asked[c]))
        OBVIOUS
      <4> QED
        BY <1>1, <4>1 DEF Link, Sorted
    <3>3. Append(s, item) \in Seq(ItemsFor(asked[c]))
      BY <3>1, <3>2
    <3> QED
      BY <1>1, <2>2, <3>3 DEF Sorted
  <2>8. Joined(c)'
    <3>1. ASSUME s # << >> PROVE Head(s).tag # "packet"
      <4>1. s \in Seq(ItemsFor(asked[c]))
        BY <1>1, <3>1 DEF Link, Sorted
      <4>2. Head(s) \in ItemsFor(asked[c])
        BY <3>1, <4>1
      <4> QED
        BY <2>1, <4>2 DEF ItemsFor, REQUEST_DIR, REQUEST_SNIFF
    <3>2. Head(outbox'[c]).tag # "packet"
      BY <2>2, <2>3, <3>1
    <3> QED
      BY <1>1, <2>1, <2>3, <3>2 DEF Link, Joined, LastOf, REQUEST_DIR, REQUEST_SNIFF
  <2>9. Framed(c)' /\ Filed(c)'
    BY <1>1 DEF Link, Framed, Filed
  <2>10. Copying(c)'
    BY <1>1, <2>1 DEF Copying, REQUEST_GET, REQUEST_DIR
  <2> QED
    BY <2>5, <2>6, <2>7, <2>8, <2>9, <2>10 DEF Link
<1> QED
  BY <1>2, <1>3

\* A print keeps the links, also one that ends the process.
LEMMA PrintLinks ==
  ASSUME Living, Links, NEW n \in {1, 2}, PrintOn(n), UNCHANGED clientVars,
         NEW c \in Clients, conn'[c] = "open"
  PROVE  Link(c)'
<1>1. /\ UNCHANGED <<conn, asked, handlerVars, snifferVars>> /\ proc = "run"
      /\ std[n] \in Clients
  BY DEF PrintOn, Running, Living, StreamInv, Inv, TypeOK, HandlersTypeOK
<1>2. CASE Write(std[n], Text)
  BY <1>1, <1>2, PrintedLinks
<1>3. CASE UNCHANGED outbox
  <2>1. Link(c) /\ Still(c)
    BY <1>1 DEF Links, Still, clientVars
  <2>2. Unwritten(c)
    BY <1>1, <1>3 DEF Unwritten, Finished, Sending, handlerVars, threadVars, snifferVars
  <2> QED
    BY <2>1, <2>2, QuietLink, Numbers
<1> QED
  BY <1>2, <1>3 DEF PrintOn

\* Every step of a handler keeps what is known of every open connection.
LEMMA HandlerLinks ==
  ASSUME Living, ClientTypes, Links, NEW h \in Clients, HandlerStep(h),
         UNCHANGED <<snifferVars, clientVars>>, NEW c \in Clients, conn'[c] = "open"
  PROVE  Link(c)'
<1>1. UNCHANGED <<conn, asked>>
  BY ThreadSends DEF Thread, Living, StreamInv
<1>2. conn[c] = "open" /\ Link(c) /\ Still(c) /\ UNCHANGED snifferVars
  BY <1>1 DEF Links, Still, clientVars
<1>3. CASE ~(Reject(h) \/ AnswerGet(h) \/ CopyChunk(h) \/ AnswerDir(h) \/ LsWrites(h))
  <2>1. Unwritten(c)
    BY <1>2, <1>3, HandlerQuiet
  <2> QED
    BY <1>2, <2>1, QuietLink, Numbers
<1>4. CASE Reject(h) \/ AnswerGet(h) \/ CopyChunk(h) \/ AnswerDir(h)
  <2>1. /\ hfd[h] \in Clients /\ hpc[h] \in HasRequest /\ proc # "exited"
        /\ hfd' = hfd
        /\ \A g \in Clients : g # h => hpc'[g] = hpc[g] /\ hpos'[g] = hpos[g]
    BY <1>2, <1>4, Posters
  <2>2. PICK item \in Items :
          /\ Write(hfd[h], item) /\ item.tag # "packet"
          /\ hpc[h] # "copy" => item.tag = "answer"
          /\ hpc'[h] \in {"copy", "dupout", "exit"}
          /\ Posting(h, item)
    BY <1>2, <1>4, Posters
  <2>3. outbox \in [Clients -> Seq(Items)]
    BY DEF Living, StreamInv, Inv, TypeOK, ProcessTypeOK
  <2>4. CASE hfd[h] # c
    <3>1. Unwritten(c)
      BY <1>2, <2>1, <2>2, <2>3, <2>4, PostElsewhere
    <3> QED
      BY <1>2, <3>1, QuietLink, Numbers
  <2>5. CASE hfd[h] = c
    <3>1. asked[c] = hreq[h]
      BY <1>2, <2>1, <2>5, TheRequest DEF Living
    <3>2. asked[c] # NoRequest
      BY <1>2, <2>1, <2>5 DEF Living, StreamInv, Inv, Received, Serves
    <3>3. asked[c].kind # REQUEST_SNIFF
      <4>1. hpc[h] \in {"reject", "answer", "copy", "list"}
        BY <1>4 DEF Reject, AnswerGet, CopyChunk, AnswerDir, At
      <4> QED
        BY <3>1, <4>1
        DEF Living, StreamInv, Kinds, ListingPCs, REQUEST_GET, REQUEST_DIR, REQUEST_SNIFF
    <3>4. outbox'[c] = Append(outbox[c], item) /\ outbox[c] \in Seq(Items)
      BY <1>2, <2>2, <2>3, <2>5 DEF Write
    <3>5. Posts(c, h, item)
      BY <1>2, <2>1, <2>2, <2>5, <3>1, <3>2, <3>3, <3>4 DEF Posts
    <3>6. Copying(c)'
      BY <1>2, <2>2, <3>5, PostCopies
    <3> QED
      BY <1>2, <3>5, <3>6, PostKeeps DEF Link
  <2> QED
    BY <2>4, <2>5
<1>5. CASE LsWrites(h)
  <2>1. /\ Write(std[1], Listing) /\ proc = "ls" /\ UNCHANGED handlerVars
        /\ std[1] \in Clients
    BY <1>5 DEF LsWrites, Living, StreamInv, Inv, TypeOK, HandlersTypeOK
  <2> QED
    BY <1>1, <1>2, <2>1, PrintedLinks
<1> QED
  BY <1>3, <1>4, <1>5

-----------------------------------------------------------------------------
(* The capture thread *)

\* It writes to a client that asked for frames, whose handler has returned: a
\* header first, and after the header its frame.
LEMMA SnifferPosts ==
  ASSUME Living, Links, WriteHeader \/ WriteBody, UNCHANGED <<handlerVars, clientVars>>,
         NEW c \in Clients, sfd = c, conn[c] = "open"
  PROVE  Link(c)'
<1> DEFINE s == outbox[c]
           item == IF spc = "header" THEN Answer(ANSWER_OK, SentSize(frame))
                   ELSE Packet(frame)
<1>1. /\ spc = "header" => spc' = "body" /\ sfd' = sfd
      /\ spc = "body" => spc' = "scan" /\ sfd' = NoFd
      /\ spc \in {"header", "body"} /\ frame' = frame /\ proc # "exited"
      /\ Write(c, item) /\ UNCHANGED <<conn, asked>>
  BY DEF WriteHeader, WriteBody, Running
<1>2. /\ s \in Seq(Items) /\ outbox'[c] = Append(s, item) /\ frame \in Frames
      /\ UNCHANGED <<hpc, hfd, cpc, inbuf, rest, file>>
  BY <1>1 DEF Write, Living, StreamInv, Inv, TypeOK, ProcessTypeOK, SnifferTypeOK,
              handlerVars, threadVars, clientVars
<1>3. /\ item \in Items /\ item.tag \in {"answer", "packet"}
      /\ spc = "header" => item.tag = "answer"
      /\ spc = "body" => item.tag = "packet" /\ item.frame = frame
  <2>1. SentSize(frame) \in Nat
    BY <1>2, SentSizeType
  <2>2. Answer(ANSWER_OK, SentSize(frame)) \in Items /\ Packet(frame) \in Items
    BY <1>2, <2>1, ItemTypes
  <2> QED
    BY <1>1, <2>2 DEF Answer, Packet
<1>4. asked[c] # NoRequest /\ asked[c].kind = REQUEST_SNIFF
  BY Assumptions DEF Living, StreamInv, Delivering, AllAssumptions, ProcessAssumption
<1>5. PICK g \in Clients : hfd[g] = c /\ hpc[g] = "done"
  BY DEF Living, StreamInv, Inv, Registered
<1>6. Link(c)
  BY DEF Links
<1> HIDE DEF item
<1>7. outbox'[c] # << >> /\ Head(outbox'[c]) = IF s = << >> THEN item ELSE Head(s)
  BY <1>2, <1>3, HeadOfAppend, Appended
<1>8. Heard(c)'
  BY <1>1, <1>2, <1>4, <1>5 DEF Heard, Late
<1>9. Opening(c)'
  <2>1. ASSUME cpc[c] \in {"ask", "answer"}, inbuf[c] = << >>, s = << >>
        PROVE  item.tag = "answer"
    <3>1. ~(spc = "body" /\ sfd = c)
      BY <1>6, <2>1 DEF Link, Opening, Unserved
    <3> QED
      BY <1>1, <1>3, <3>1
  <2> QED
    BY <1>2, <1>6, <1>7, <2>1 DEF Link, Opening
<1>10. Sorted(c)'
  <2>1. item \in ItemsFor(asked[c])
    BY <1>3, <1>4 DEF ItemsFor
  <2>2. s \in Seq(ItemsFor(asked[c]))
    <3>1. << >> \in Seq(ItemsFor(asked[c]))
      OBVIOUS
    <3> QED
      BY <1>6, <3>1 DEF Link, Sorted
  <2>3. Append(s, item) \in Seq(ItemsFor(asked[c]))
    BY <2>1, <2>2
  <2> QED
    BY <1>1, <1>2, <2>3 DEF Sorted
<1>11. Joined(c)'
  <2> SUFFICES ASSUME inbuf[c] # << >>, Head(outbox'[c]).tag = "packet"
               PROVE  LastOf(inbuf[c]) = Answer(ANSWER_OK, SentSize(Head(outbox'[c]).frame))
    BY <1>1, <1>2, <1>6, <1>7 DEF Link, Joined, LastOf
  <2>1. CASE s # << >>
    BY <1>6, <1>7, <2>1 DEF Link, Joined
  <2>2. CASE s = << >>
    BY <1>1, <1>3, <1>6, <1>7, <2>2 DEF Link, Joined
  <2> QED
    BY <2>1, <2>2
<1>12. Framed(c)' /\ Filed(c)'
  BY <1>1, <1>2, <1>6 DEF Link, Framed, Filed
<1>13. Copying(c)'
  BY <1>1, <1>4 DEF Copying, REQUEST_GET, REQUEST_SNIFF
<1> QED
  BY <1>1, <1>8, <1>9, <1>10, <1>11, <1>12, <1>13 DEF Link

\* Every step of the capture thread keeps what is known of every open connection.
LEMMA SnifferLinks ==
  ASSUME Living, Links, SnifferStep, UNCHANGED <<handlerVars, clientVars>>,
         NEW c \in Clients, conn'[c] = "open"
  PROVE  Link(c)'
<1>1. UNCHANGED <<conn, asked>>
  BY ThreadSends DEF Thread, Living, StreamInv
<1>2. conn[c] = "open" /\ Link(c) /\ Still(c)
  BY <1>1 DEF Links, Still, clientVars
<1>3. CASE ~(WriteHeader \/ WriteBody)
  <2>1. Unwritten(c)
    BY <1>3, SnifferQuiet
  <2> QED
    BY <1>2, <2>1, QuietLink, Numbers
<1>4. CASE (WriteHeader \/ WriteBody) /\ sfd # c
  <2>1. /\ outbox'[c] = outbox[c] /\ proc # "exited" /\ sfd' \in {sfd, NoFd}
        /\ UNCHANGED <<hpc, hfd, hpos>>
    BY <1>4 DEF WriteHeader, WriteBody, Write, Running, Living, StreamInv, Inv, TypeOK,
                ProcessTypeOK, handlerVars, threadVars
  <2>2. sfd' # c
    BY <1>4, <2>1, Assumptions DEF AllAssumptions, ProcessAssumption
  <2>3. Unwritten(c)
    BY <2>1, <2>2 DEF Unwritten, Finished, Sending
  <2> QED
    BY <1>2, <2>3, QuietLink, Numbers
<1>5. CASE (WriteHeader \/ WriteBody) /\ sfd = c
  BY <1>2, <1>5, SnifferPosts
<1> QED
  BY <1>3, <1>4, <1>5

\* Every step of the server keeps the links.
LEMMA ServerLinks ==
  ASSUME Living, ClientTypes, Apart, Links, ServerRuns
  PROVE  ClientTypes' /\ Apart' /\ Links'
<1>1. UNCHANGED <<conn, clientVars>>
  BY ThreadSends DEF ServerRuns, Living, StreamInv
<1>2. ClientTypes' /\ Apart'
  BY <1>1 DEF ClientTypes, Apart, clientVars
<1>3. ASSUME NEW c \in Clients, conn'[c] = "open"
      PROVE  Link(c)'
  <2>1. CASE MainStep /\ UNCHANGED snifferVars
    <3>1. Link(c) /\ Unwritten(c)
      BY <1>1, <1>3, <2>1, MainQuiet DEF Links
    <3>2. UNCHANGED asked
      BY <2>1, ThreadSends DEF Thread, Living, StreamInv
    <3>3. Still(c)
      BY <1>1, <3>2 DEF Still, clientVars
    <3> QED
      BY <3>1, <3>3, QuietLink, Numbers
  <2>2. CASE \E h \in Clients : HandlerStep(h) /\ UNCHANGED snifferVars
    BY <1>1, <1>3, <2>2, HandlerLinks
  <2>3. CASE SnifferStep /\ UNCHANGED handlerVars
    BY <1>1, <1>3, <2>3, SnifferLinks
  <2>4. CASE \E n \in {1, 2} : PrintOn(n)
    BY <1>1, <1>3, <2>4, PrintLinks
  <2> QED
    BY <2>1, <2>2, <2>3, <2>4 DEF ServerRuns, Thread
<1> QED
  BY <1>2, <1>3 DEF Links

-----------------------------------------------------------------------------
(* The programs *)

\* The last step of a program, whichever it is.
Ends(c) == \E pc \in Ended : End(c, pc) /\ cpc[c] \in Talking \cup {"connect"}

\* An answer is taken, and the program turns to what it asked for.
TakesAnswer(c) ==
  /\ cpc[c] = "answer" /\ inbuf[c] # << >>
  /\ cpc' = [cpc EXCEPT ![c] = NextState(asked[c].kind)]
  /\ rest' = [rest EXCEPT ![c] = Head(inbuf[c]).nbbytes]
  /\ inbuf' = [inbuf EXCEPT ![c] = Tail(inbuf[c])]
  /\ Head(inbuf[c]).ack = ANSWER_OK
  /\ UNCHANGED <<procVars, connVars, file, buffer>>

TakesNoAnswer(c) ==
  /\ cpc[c] = "answer" /\ AtEof(c)
  /\ cpc' = [cpc EXCEPT ![c] = NextState(asked[c].kind)]
  /\ \E n \in {0, 1} : rest' = [rest EXCEPT ![c] = n]
  /\ UNCHANGED <<procVars, connVars, inbuf, file, buffer>>

Creates(c) ==
  /\ cpc[c] = "create" /\ cpc' = [cpc EXCEPT ![c] = "copy"]
  /\ UNCHANGED <<procVars, connVars, inbuf, rest, file, buffer>>

\* What a program may do.
LEMMA ClientSteps ==
  ASSUME NEW c \in Clients, ClientSide(c)
  PROVE  \/ Ends(c) \/ Dials(c) \/ Transmit(c) \/ Ask(c)
         \/ TakesAnswer(c) \/ TakesNoAnswer(c) \/ Creates(c)
         \/ CopyUnit(c) \/ ListUnit(c) \/ Analyse(c)
<1>1. CASE \/ Interrupt(c) \/ DialFails(c) \/ AskFails(c) \/ AnswerFails(c)
           \/ CopyReturns(c) \/ ListReturns(c) \/ FindPassword(c) \/ SniffReturns(c)
  BY <1>1 DEF Interrupt, DialFails, AskFails, AnswerFails, CopyReturns,
              ListReturns, FindPassword, SniffReturns, Ends, Talking, Ended
<1>2. ASSUME End(c, "failed"), cpc[c] \in {"answer", "create"} PROVE Ends(c)
  BY <1>2 DEF Ends, Talking, Ended
<1>3. CASE ReadAnswer(c)
  BY <1>2, <1>3 DEF ReadAnswer, TakesAnswer
<1>4. CASE ReadNoAnswer(c)
  BY <1>2, <1>4 DEF ReadNoAnswer, TakesNoAnswer
<1>5. CASE Create(c)
  BY <1>2, <1>5 DEF Create, Creates
<1> QED
  BY <1>1, <1>3, <1>4, <1>5 DEF ClientSide, ClientRuns

\* A step of one program leaves the others and their connections as they are.
LEMMA OthersStill ==
  ASSUME Living, ClientTypes, NEW d \in Clients, ClientSide(d),
         NEW c \in Clients, c # d
  PROVE  conn'[c] = conn[c] /\ Still(c) /\ outbox'[c] = outbox[c] /\ proc' = proc
<1> USE DEF connVars, procVars, Living, StreamInv, Inv, TypeOK, ProcessTypeOK, Tied,
            ClientTypes, Still
<1>1. CASE Ends(d)
  BY <1>1 DEF Ends, End
<1>2. CASE Dials(d) \/ Transmit(d) \/ Ask(d)
  BY <1>2 DEF Dials, Dial, Connect, Transmit, Ask
<1>3. CASE TakesAnswer(d) \/ TakesNoAnswer(d) \/ Creates(d)
  BY <1>3 DEF TakesAnswer, TakesNoAnswer, Creates
<1>4. CASE CopyUnit(d) \/ ListUnit(d) \/ Analyse(d)
  BY <1>4 DEF CopyUnit, ListUnit, Analyse
<1> QED
  BY <1>1, <1>2, <1>3, <1>4, ClientSteps

\* A step of one program keeps what is known of the connections of the others.
LEMMA OtherLinks ==
  ASSUME Living, ClientTypes, Links, NEW d \in Clients, ClientSide(d),
         NEW c \in Clients, c # d, conn'[c] = "open"
  PROVE  Link(c)'
<1>1. conn'[c] = conn[c] /\ Still(c) /\ outbox'[c] = outbox[c] /\ proc' = proc
  BY OthersStill
<1>2. Unwritten(c)
  BY <1>1 DEF ClientSide, Unwritten, Finished, Sending, handlerVars, threadVars,
              snifferVars
<1>3. Link(c)
  BY <1>1 DEF Links
<1> QED
  BY <1>1, <1>2, <1>3, QuietLink, Numbers

\* No thread or capture step happens meanwhile.
Frozen == UNCHANGED <<hfd, hpc, hpos, hreq, spc, sfd, frame, proc>>

\* A connection begins with nothing on it.
LEMMA DialLinks ==
  ASSUME Living, Apart, NEW c \in Clients, Dials(c), Frozen
  PROVE  Link(c)'
<1>1. /\ conn[c] = "idle" /\ cpc[c] = "connect" /\ cpc'[c] = "ask"
      /\ UNCHANGED <<asked, outbox, inbuf, rest, file>>
  BY DEF Dials, Dial, Connect, Living, Tied
<1>2. asked[c] = NoRequest /\ outbox[c] = << >> /\ inbuf[c] = << >> /\ file[c] = << >>
  BY <1>1 DEF Living, Tied, Apart
<1>3. sfd # c /\ \A h \in Clients : hfd[h] # c
  BY <1>1 DEF Living, StreamInv, Inv, Known
<1>4. Unserved(c)'
  BY <1>3 DEF Unserved, Frozen
<1>5. Framed(c)'
  BY <1>1, <1>2 DEF Framed
<1>6. Heard(c)' /\ Opening(c)' /\ Sorted(c)' /\ Joined(c)' /\ Filed(c)' /\ Copying(c)'
  BY <1>1, <1>2, <1>3, <1>4
  DEF Heard, Opening, Sorted, Joined, Filed, Copying, Receiving, Frozen
<1> QED
  BY <1>5, <1>6 DEF Link

\* The request is sent when nothing was: nobody serves the connection yet.
LEMMA AskLinks ==
  ASSUME Living, NEW c \in Clients, Link(c), conn[c] = "open", Ask(c), Frozen
  PROVE  Link(c)'
<1>1. /\ cpc[c] = "ask" /\ cpc'[c] = "answer" /\ asked[c] = NoRequest
      /\ UNCHANGED <<outbox, inbuf, rest, file>>
  BY DEF Ask, Living, Tied
<1>2. inbuf[c] = << >> /\ outbox[c] = << >>
  BY <1>1 DEF Link, Heard, Living, StreamInv, Streams, Stream, Begun
<1>3. /\ ~(spc = "body" /\ sfd = c)
      /\ \A h \in Clients : hfd[h] = c => hpc[h] \notin Sending \cup {"done"}
  BY <1>1, <1>2 DEF Link, Opening, Unserved
<1>4. Unserved(c)'
  BY <1>3 DEF Unserved, Frozen
<1>5. Framed(c)'
  BY <1>1, <1>2 DEF Framed
<1>6. file[c] = << >>
  BY <1>1 DEF Link, Filed
<1>7. Heard(c)' /\ Opening(c)' /\ Sorted(c)' /\ Joined(c)' /\ Filed(c)' /\ Copying(c)'
  BY <1>1, <1>2, <1>3, <1>4, <1>6
  DEF Heard, Opening, Sorted, Joined, Filed, Copying, Receiving,
      Sending, Frozen
<1> QED
  BY <1>5, <1>7 DEF Link

\* The kind of the request decides where the program goes.
LEMMA NextStates ==
  ASSUME Living, NEW c \in Clients, cpc[c] = "answer"
  PROVE  /\ NextState(asked[c].kind) \in {"create", "list", "sniff"}
         /\ NextState(asked[c].kind) = "create" => asked[c].kind = REQUEST_GET
<1>1. asked[c] \in Asks
  BY DEF Living, Tied, Talking, StreamInv, Inv, TypeOK, ProcessTypeOK
<1>2. asked[c] \in AnyRequest /\ asked[c].kind # OTHER_KIND
  BY <1>1, Assumptions DEF AllAssumptions, ProcessAssumption, ClientRequests
<1>3. asked[c].kind \in {REQUEST_GET, REQUEST_DIR, REQUEST_SNIFF}
  BY <1>2 DEF AnyRequest
<1> QED
  BY <1>3 DEF NextState, REQUEST_GET, REQUEST_DIR, REQUEST_SNIFF

\* At the end of the stream there was nobody to send the file: what the program
\* takes for an answer is none of a thread's.
LEMMA NoAnswerLinks ==
  ASSUME Living, ClientTypes, NEW c \in Clients, Link(c), TakesNoAnswer(c), Frozen
  PROVE  Link(c)'
<1>1. /\ cpc[c] = "answer" /\ proc = "exited" /\ outbox[c] = << >> /\ inbuf[c] = << >>
      /\ UNCHANGED <<asked, outbox, inbuf, file>>
      /\ cpc'[c] \in {"create", "list", "sniff"}
      /\ cpc'[c] = "create" => asked[c].kind = REQUEST_GET
  BY NextStates DEF TakesNoAnswer, AtEof, connVars, Living, Tied
<1>2. /\ ~(spc = "body" /\ sfd = c)
      /\ \A h \in Clients : hfd[h] = c =>
           /\ hpc[h] # "copy"
           /\ hpc[h] = "done" => asked[c].kind # REQUEST_GET
  BY <1>1 DEF Link, Opening, Unserved, Sending, REQUEST_GET, REQUEST_SNIFF
<1>3. Framed(c)'
  BY <1>1 DEF Framed
<1>4. file[c] = << >>
  BY <1>1 DEF Link, Filed
<1>5. Heard(c)' /\ Opening(c)' /\ Sorted(c)' /\ Joined(c)' /\ Filed(c)'
  BY <1>1, <1>4 DEF Heard, Opening, Sorted, Joined, Filed, Frozen
<1>6. Copying(c)'
  BY <1>1, <1>2 DEF Copying, Frozen
<1> QED
  BY <1>3, <1>5, <1>6 DEF Link

\* The local file is created empty.
LEMMA CreateLinks ==
  ASSUME Living, NEW c \in Clients, Link(c), Creates(c), Frozen
  PROVE  Link(c)'
<1>1. /\ cpc[c] = "create" /\ cpc'[c] = "copy"
      /\ UNCHANGED <<asked, outbox, inbuf, rest, file>>
  BY DEF Creates, connVars, Living, Tied
<1>2. Heard(c)' /\ Opening(c)' /\ Sorted(c)' /\ Joined(c)' /\ Framed(c)' /\ Filed(c)'
  BY <1>1 DEF Link, Heard, Opening, Sorted, ItemsFor, Joined, Framed, Filed, Receiving,
              Frozen
<1>3. Copying(c)'
  BY <1>1 DEF Link, Copying, OnItsWay, Sent, Frozen
<1> QED
  BY <1>2, <1>3 DEF Link

\* The units left when n were read.
Left(s, t, n) ==
  Len(t) = Len(s) - n /\ Len(s) \in Nat /\ \A i \in 1..Len(t) : t[i] = s[i + n]

\* The units left when one was read.
LEMMA TailLeft ==
  ASSUME NEW S, NEW s \in Seq(S), s # << >>
  PROVE  Left(s, Tail(s), 1) /\ Tail(s) \in Seq(S)
BY DEF Left

\* Neighbours left were neighbours before.
LEMMA LeftNeighbours ==
  ASSUME NEW S, NEW s \in Seq(S), NEW t \in Seq(S), NEW n \in Nat, Left(s, t, n),
         NEW i \in 1..(Len(t) - 1)
  PROVE  /\ i + n \in 1..(Len(s) - 1)
         /\ t[i] = s[i + n] /\ t[i + 1] = s[(i + n) + 1]
<1>1. Len(t) = Len(s) - n /\ Len(s) \in Nat /\ Len(t) \in Nat
  BY DEF Left
<1>2. \A j \in 1..Len(t) : t[j] = s[j + n]
  BY DEF Left
<1>3. i \in 1..Len(t) /\ i + 1 \in 1..Len(t) /\ (i + 1) + n = (i + n) + 1
  BY <1>1
<1>4. t[i + 1] = s[(i + n) + 1]
  <2>1. t[i + 1] = s[(i + 1) + n]
    BY <1>2, <1>3
  <2> QED
    BY <2>1, <1>3
<1>5. t[i] = s[i + n]
  BY <1>2, <1>3
<1>6. i + n \in 1..(Len(s) - 1)
  BY <1>1
<1> QED
  BY <1>4, <1>5, <1>6

\* Reading some units disturbs neither the order of the others nor the last one.
LEMMA ReadKeeps ==
  ASSUME NEW c \in Clients, NEW n \in Nat, Joined(c), Framed(c),
         inbuf[c] \in Seq(Units), inbuf'[c] \in Seq(Units),
         Left(inbuf[c], inbuf'[c], n), asked'[c] = asked[c], outbox'[c] = outbox[c], Frozen
  PROVE  /\ Joined(c)' /\ Framed(c)'
         /\ inbuf'[c] # << >> => inbuf[c] # << >>
<1> DEFINE s == inbuf[c]
           t == inbuf'[c]
<1>1. /\ Len(t) = Len(s) - n /\ Len(s) \in Nat /\ Len(t) \in Nat
      /\ \A i \in 1..Len(t) : t[i] = s[i + n]
  BY DEF Left
<1>2. t # << >> => s # << >> /\ LastOf(t) = LastOf(s)
  <2> SUFFICES ASSUME t # << >>
               PROVE  s # << >> /\ LastOf(t) = LastOf(s)
    OBVIOUS
  <2>1. Len(t) \in 1..Len(t) /\ Len(t) + n = Len(s) /\ Len(s) # 0
    BY <1>1, EmptySeq
  <2>2. t[Len(t)] = s[Len(t) + n]
    BY <1>1, <2>1
  <2>3. s # << >>
    BY <2>1
  <2> QED
    BY <2>1, <2>2, <2>3 DEF LastOf
<1>3. Joined(c)'
  BY <1>2 DEF Joined, Frozen, LastOf
<1>4. Framed(c)'
  <2> SUFFICES ASSUME NEW i \in 1..(Len(t) - 1)
               PROVE  Adjacent(t[i], t[i + 1])
    BY DEF Framed
  <2>1. /\ i + n \in 1..(Len(s) - 1)
        /\ t[i] = s[i + n] /\ t[i + 1] = s[(i + n) + 1]
    <3>1. s \in Seq(Units) /\ t \in Seq(Units) /\ Left(s, t, n)
      OBVIOUS
    <3> HIDE DEF s, t
    <3> QED
      BY <3>1, LeftNeighbours
  <2>2. Adjacent(s[i + n], s[(i + n) + 1])
    BY <2>1 DEF Framed
  <2> QED
    BY <2>1, <2>2
<1> QED
  BY <1>2, <1>3, <1>4

\* ListUnit and Analyse: no file is on its way.
LEMMA ListOrAnalyseLinks ==
  ASSUME Living, ClientTypes, NEW c \in Clients, Link(c), ListUnit(c) \/ Analyse(c), Frozen
  PROVE  Link(c)' /\ ClientTypes'
<1>1. /\ cpc[c] \in {"list", "sniff"} /\ cpc'[c] = cpc[c] /\ inbuf[c] # << >>
      /\ UNCHANGED <<asked, outbox, rest, file>>
  BY DEF ListUnit, Analyse, connVars
<1>2. inbuf[c] \in Seq(Units) /\ buffer[c] \in Seq(Units)
  BY DEF ClientTypes
<1>3. \E n \in Nat : /\ inbuf' \in [Clients -> Seq(Units)]
                     /\ Left(inbuf[c], inbuf'[c], n)
  <2>1. CASE ListUnit(c)
    <3>1. inbuf' = [inbuf EXCEPT ![c] = Tail(inbuf[c])]
      BY <2>1 DEF ListUnit
    <3>2. Left(inbuf[c], Tail(inbuf[c]), 1) /\ Tail(inbuf[c]) \in Seq(Units)
      BY <1>1, <1>2, TailLeft
    <3> QED
      BY <3>1, <3>2 DEF ClientTypes
  <2>2. CASE Analyse(c)
    <3>1. PICK n \in 1..Len(inbuf[c]) :
            inbuf' = [inbuf EXCEPT ![c] = SubSeq(inbuf[c], n + 1, Len(inbuf[c]))]
      BY <2>2 DEF Analyse
    <3>2. /\ SubSeq(inbuf[c], n + 1, Len(inbuf[c])) \in Seq(Units)
          /\ Left(inbuf[c], SubSeq(inbuf[c], n + 1, Len(inbuf[c])), n)
          /\ n \in Nat
      BY <1>2, Suffix DEF Left
    <3> QED
      BY <3>1, <3>2 DEF ClientTypes
  <2> QED
    BY <2>1, <2>2
<1>4. PICK n \in Nat : /\ inbuf' \in [Clients -> Seq(Units)]
                       /\ Left(inbuf[c], inbuf'[c], n)
  BY <1>3
<1>5. Joined(c)' /\ Framed(c)' /\ (inbuf'[c] # << >> => inbuf[c] # << >>)
  BY <1>1, <1>2, <1>4, ReadKeeps DEF Link
<1>6. Heard(c)' /\ Opening(c)' /\ Sorted(c)' /\ Filed(c)'
  BY <1>1, <1>5 DEF Link, Heard, Opening, Sorted, ItemsFor, Filed, Frozen
<1>7. Copying(c)'
  BY <1>1 DEF Link, Copying, OnItsWay, Sent, Frozen
<1>8. buffer' \in [Clients -> Seq(Units)]
  <2>1. CASE ListUnit(c)
    BY <2>1 DEF ListUnit, ClientTypes
  <2>2. CASE Analyse(c)
    <3>1. PICK m \in 1..Len(inbuf[c]) :
            buffer' = [buffer EXCEPT ![c] = SubSeq(inbuf[c], 1, m)
                                            \o SubSeq(buffer[c], m + 1, Len(buffer[c]))]
      BY <2>2 DEF Analyse
    <3>2. SubSeq(inbuf[c], 1, m) \in Seq(Units)
      BY <1>2, SubSeqProperties
    <3>3. SubSeq(buffer[c], m + 1, Len(buffer[c])) \in Seq(Units)
      BY <1>2, SubSeqProperties
    <3>4. SubSeq(inbuf[c], 1, m) \o SubSeq(buffer[c], m + 1, Len(buffer[c])) \in Seq(Units)
      BY <3>2, <3>3, Concat
    <3> QED
      BY <3>1, <3>4 DEF ClientTypes
  <2> QED
    BY <2>1, <2>2
<1>9. ClientTypes'
  BY <1>1, <1>4, <1>8 DEF ClientTypes
<1> QED
  BY <1>5, <1>6, <1>7, <1>9 DEF Link

\* ReadAnswer: what follows the answer to a get is the file from its beginning.
LEMMA AnswerLinks ==
  ASSUME Living, ClientTypes, NEW c \in Clients, Link(c), TakesAnswer(c), Frozen
  PROVE  Link(c)' /\ ClientTypes'
<1> DEFINE s == inbuf[c]
           a == Head(s)
<1>1. /\ cpc[c] = "answer" /\ s # << >> /\ s \in Seq(Units) /\ outbox[c] \in Seq(Items)
      /\ inbuf' = [inbuf EXCEPT ![c] = Tail(s)] /\ rest' = [rest EXCEPT ![c] = a.nbbytes]
      /\ inbuf'[c] = Tail(s) /\ rest'[c] = a.nbbytes
      /\ UNCHANGED <<asked, outbox, file, buffer>>
      /\ cpc'[c] \in {"create", "list", "sniff"}
      /\ cpc'[c] = "create" => asked[c].kind = REQUEST_GET
  BY NextStates DEF TakesAnswer, connVars, Living, Tied, ClientTypes, StreamInv, Inv,
                    TypeOK, ProcessTypeOK
<1>2. Left(s, Tail(s), 1) /\ Tail(s) \in Seq(Units)
  BY <1>1, TailLeft
<1>3. a \in Units /\ a.tag = "answer"
  BY <1>1 DEF Link, Opening
<1>4. a.nbbytes \in Nat
  BY <1>3 DEF Units, Items, Listing, Text
<1>5. ClientTypes'
  BY <1>1, <1>2, <1>4 DEF ClientTypes
<1>6. Joined(c)' /\ Framed(c)'
  BY <1>1, <1>2, ReadKeeps DEF Link
<1>7. file[c] = << >>
  BY <1>1 DEF Link, Filed
<1>8. Heard(c)' /\ Opening(c)' /\ Sorted(c)' /\ Filed(c)'
  BY <1>1, <1>7 DEF Link, Heard, Opening, Sorted, ItemsFor, Filed, Frozen
<1>9. Copying(c)'
  <2> SUFFICES ASSUME NEW h \in Clients, hfd[h] = c, hpc[h] \in {"copy", "done"},
                      asked[c] # NoRequest, asked[c].kind = REQUEST_GET
               PROVE  OnItsWay(c, h)'
    BY <1>1 DEF Copying, Frozen
  <2> DEFINE path == asked[c].path
             b == Answer(ANSWER_OK, FileSize[path])
             cs == ChunksOf(path, Sent(h, path))
  <2>1. /\ path \in DOMAIN FileSize /\ Sent(h, path) <= FileSize[path]
        /\ s \o outbox[c] = <<b>> \o cs
    BY <1>1 DEF Link, Copying, OnItsWay
  <2>2. /\ path \in Paths /\ FileSize[path] \in Nat /\ Sent(h, path) \in Nat
    BY <2>1, FileSizeType, Numbers DEF Sent
  <2>3. b \in Wares /\ <<b>> \in Seq(Wares) /\ <<b>> # << >>
    <3>1. b \in Items
      BY <2>2, ItemTypes
    <3> QED
      BY <3>1 DEF Wares
  <2>4. cs \in Seq(Wares) /\ s \in Seq(Wares) /\ outbox[c] \in Seq(Wares)
    BY <1>1, <2>2, WareSeqs, Chunks
  <2> HIDE DEF b, cs
  <2>5. Head(s \o outbox[c]) = a /\ Tail(s \o outbox[c]) = Tail(s) \o outbox[c]
    <3>1. \A x, y \in Seq(Wares) : x # << >> =>
            Head(x \o y) = Head(x) /\ Tail(x \o y) = Tail(x) \o y
      BY HeadOfConcat
    <3>2. s \in Seq(Wares) /\ outbox[c] \in Seq(Wares) /\ s # << >>
      BY <1>1, <2>4
    <3> DEFINE t == outbox[c]
    <3> HIDE DEF s, t
    <3>3. Head(s \o t) = Head(s) /\ Tail(s \o t) = Tail(s) \o t
      BY <3>1, <3>2, ZenonT(30) DEF t
    <3> QED
      BY <3>3 DEF t
  <2>6. Head(<<b>> \o cs) = b /\ Tail(<<b>> \o cs) = cs
    BY <2>3, <2>4
  <2>7. a = b /\ Tail(s) \o outbox[c] = cs
    BY <2>1, <2>5, <2>6
  <2>8. rest'[c] = FileSize[path]
    BY <1>1, <2>7 DEF b, Answer
  <2>9. /\ Tail(s) \o outbox[c] \in Seq(Wares)
        /\ << >> \o (Tail(s) \o outbox[c]) = Tail(s) \o outbox[c]
    BY <2>4, <2>7, Concat
  <2>10. Sent(h, path)' = Sent(h, path) /\ Len(file'[c]) = 0 /\ asked'[c] = asked[c]
    BY <1>1, <1>7 DEF Sent, Frozen
  <2>11. /\ file'[c] \o (inbuf'[c] \o outbox'[c]) = ChunksOf(path, Sent(h, path))
         /\ rest'[c] + Len(file'[c]) = FileSize[path]
         /\ cpc'[c] # "answer" /\ asked'[c].path = path
    <3>1. inbuf'[c] = Tail(s) /\ outbox'[c] = outbox[c] /\ file'[c] = << >>
      BY <1>1, <1>7
    <3>2. file'[c] \o (inbuf'[c] \o outbox'[c]) = cs
      BY <2>7, <2>9, <3>1
    <3>3. rest'[c] + Len(file'[c]) = FileSize[path]
      BY <2>2, <2>8, <2>10
    <3>4. cpc'[c] # "answer" /\ asked'[c].path = path
      BY <1>1
    <3> QED
      BY <3>2, <3>3, <3>4 DEF cs
  <2> QED
    BY <2>1, <2>10, <2>11 DEF OnItsWay
<1> QED
  BY <1>5, <1>6, <1>8, <1>9 DEF Link

\* CopyUnit moves the next unit from the socket to the local file.
LEMMA CopyLinks ==
  ASSUME Living, ClientTypes, NEW c \in Clients, Link(c), CopyUnit(c), Frozen
  PROVE  Link(c)' /\ ClientTypes'
<1> DEFINE s == inbuf[c]
           f == file[c]
<1>1. /\ cpc[c] = "copy" /\ cpc'[c] = "copy" /\ s # << >> /\ s \in Seq(Units)
      /\ outbox[c] \in Seq(Items) /\ f \in Seq(Units) /\ rest[c] # 0 /\ rest[c] \in Nat
      /\ inbuf' = [inbuf EXCEPT ![c] = Tail(s)] /\ rest' = [rest EXCEPT ![c] = rest[c] - 1]
      /\ file' = [file EXCEPT ![c] = Append(f, Head(s))]
      /\ inbuf'[c] = Tail(s) /\ rest'[c] = rest[c] - 1 /\ file'[c] = Append(f, Head(s))
      /\ UNCHANGED <<asked, outbox, buffer>>
  BY DEF CopyUnit, connVars, Living, Tied, ClientTypes, StreamInv, Inv, TypeOK,
         ProcessTypeOK
<1>2. Left(s, Tail(s), 1) /\ Tail(s) \in Seq(Units)
  BY <1>1, TailLeft
<1>3. /\ Append(f, Head(s)) \in Seq(Units) /\ Len(Append(f, Head(s))) = Len(f) + 1
      /\ Len(f) \in Nat
  BY <1>1
<1>4. rest[c] - 1 \in Nat
  BY <1>1
<1>5. ClientTypes'
  BY <1>1, <1>2, <1>3, <1>4 DEF ClientTypes
<1>6. Joined(c)' /\ Framed(c)'
  BY <1>1, <1>2, ReadKeeps DEF Link
<1>7. Heard(c)' /\ Opening(c)' /\ Sorted(c)' /\ Filed(c)'
  BY <1>1 DEF Link, Heard, Opening, Sorted, ItemsFor, Filed, Frozen
<1>8. Copying(c)'
  <2> SUFFICES ASSUME NEW h \in Clients, hfd[h] = c, hpc[h] \in {"copy", "done"},
                      asked[c] # NoRequest, asked[c].kind = REQUEST_GET
               PROVE  OnItsWay(c, h)'
    BY <1>1 DEF Copying, Frozen
  <2> DEFINE path == asked[c].path
             cs == ChunksOf(path, Sent(h, path))
  <2>1. /\ path \in DOMAIN FileSize /\ Sent(h, path) <= FileSize[path]
        /\ f \o (s \o outbox[c]) = cs /\ rest[c] + Len(f) = FileSize[path]
    BY <1>1 DEF Link, Copying, OnItsWay
  <2>2. f \in Seq(Wares) /\ s \in Seq(Wares) /\ outbox[c] \in Seq(Wares)
    BY <1>1, WareSeqs
  <2> HIDE DEF cs
  <2>3. Append(f, Head(s)) \o (Tail(s) \o outbox[c]) = f \o (s \o outbox[c])
    <3>1. \A x, y, z \in Seq(Wares) : y # << >> =>
            Append(x, Head(y)) \o (Tail(y) \o z) = x \o (y \o z)
      OBVIOUS
    <3>2. f \in Seq(Wares) /\ s \in Seq(Wares) /\ outbox[c] \in Seq(Wares) /\ s # << >>
      BY <1>1, <2>2
    <3> HIDE DEF s, f
    <3> QED
      BY <3>1, <3>2
  <2>4. (rest[c] - 1) + (Len(f) + 1) = FileSize[path]
    BY <1>1, <1>3, <2>1
  <2>5. Sent(h, path)' = Sent(h, path) /\ asked'[c] = asked[c]
    BY <1>1 DEF Sent, Frozen
  <2> QED
    BY <1>1, <1>3, <2>1, <2>3, <2>4, <2>5 DEF OnItsWay, cs
<1> QED
  BY <1>5, <1>6, <1>7, <1>8 DEF Link

-----------------------------------------------------------------------------
(* The network *)

\* Sequences of adjacent units make one when they fit at the junction.
LEMMA Junction ==
  ASSUME NEW S, NEW s \in Seq(S), NEW u \in Seq(S), u # << >>,
         \A i \in 1..(Len(s) - 1) : Adjacent(s[i], s[i + 1]),
         \A i \in 1..(Len(u) - 1) : Adjacent(u[i], u[i + 1]),
         s # << >> => Adjacent(LastOf(s), u[1])
  PROVE  \A i \in 1..(Len(s \o u) - 1) : Adjacent((s \o u)[i], (s \o u)[i + 1])
<1> DEFINE t == s \o u
           m == Len(s)
<1>1. /\ Len(t) = m + Len(u) /\ m \in Nat /\ Len(u) \in Nat
      /\ \A i \in 1..m : t[i] = s[i]
      /\ \A i \in 1..Len(u) : t[m + i] = u[i]
  BY Concat
<1>2. Len(u) # 0
  BY EmptySeq
<1> HIDE DEF t
<1> SUFFICES ASSUME NEW i \in 1..(Len(t) - 1)
             PROVE  Adjacent(t[i], t[i + 1])
  BY DEF t
<1>3. CASE i < m
  <2>1. t[i] = s[i] /\ t[i + 1] = s[i + 1] /\ i \in 1..(m - 1)
    BY <1>1, <1>3
  <2> QED
    BY <2>1
<1>4. CASE i = m
  <2>1. 1 \in 1..Len(u) /\ m \in 1..m /\ m # 0
    BY <1>1, <1>2, <1>4
  <2>2. t[m] = s[m] /\ t[m + 1] = u[1]
    BY <1>1, <2>1
  <2>3. s # << >>
    BY <2>1
  <2> QED
    BY <1>4, <2>2, <2>3 DEF LastOf
<1>5. CASE i > m
  <2> DEFINE j == i - m
  <2>1. j \in 1..(Len(u) - 1) /\ j \in 1..Len(u) /\ j + 1 \in 1..Len(u)
    BY <1>1, <1>5
  <2>2. m + j = i /\ m + (j + 1) = i + 1
    BY <1>1, <1>5
  <2> HIDE DEF j
  <2>3. t[m + j] = u[j] /\ t[m + (j + 1)] = u[j + 1]
    BY <1>1, <2>1
  <2>4. t[i] = u[j] /\ t[i + 1] = u[j + 1]
    BY <2>2, <2>3
  <2> QED
    BY <2>1, <2>4
<1> QED
  BY <1>1, <1>3, <1>4, <1>5

\* The ends of a concatenation.
LEMMA EndsOfConcat ==
  ASSUME NEW S, NEW s \in Seq(S), NEW u \in Seq(S), u # << >>
  PROVE  /\ s \o u # << >> /\ LastOf(s \o u) = LastOf(u)
         /\ Head(s \o u) = IF s = << >> THEN u[1] ELSE Head(s)
<1>1. /\ Len(s \o u) = Len(s) + Len(u) /\ Len(s) \in Nat /\ Len(u) \in Nat
      /\ \A i \in 1..Len(u) : (s \o u)[Len(s) + i] = u[i]
  BY Concat
<1>2. Len(u) # 0
  BY EmptySeq
<1>3. s \o u # << >>
  BY <1>1, <1>2
<1>4. LastOf(s \o u) = LastOf(u)
  <2>1. Len(u) \in 1..Len(u)
    BY <1>1, <1>2
  <2> QED
    BY <1>1, <2>1 DEF LastOf
<1>5. Head(s \o u) = IF s = << >> THEN u[1] ELSE Head(s)
  OBVIOUS
<1> QED
  BY <1>3, <1>4, <1>5

\* A frame is cut in adjacent pieces, from the first to the last.
LEMMA CutFits ==
  ASSUME NEW x \in Items, NEW u \in Cuts(x)
  PROVE  /\ \A i \in 1..(Len(u) - 1) : Adjacent(u[i], u[i + 1])
         /\ x.tag # "packet" => u[1] = x /\ LastOf(u) = x
         /\ x.tag = "packet" =>
              /\ u[1] = Piece(x.frame, 1)
              /\ \E n \in Sendable(x.frame) : LastOf(u) = Piece(x.frame, n)
<1>1. CASE x.tag # "packet"
  <2>1. u = <<x>>
    BY <1>1, CutItem
  <2> QED
    BY <1>1, <2>1 DEF LastOf
<1>2. CASE x.tag = "packet"
  <2> DEFINE f == x.frame
  <2>1. PICK n \in Sendable(f) : n \in Nat \ {0} /\ u = [i \in 1..n |-> Piece(f, i)]
    BY <1>2, CutItem
  <2> HIDE DEF f
  <2>2. Len(u) = n /\ \A i \in 1..n : u[i] = Piece(f, i)
    BY <2>1
  <2>3. u[1] = Piece(f, 1) /\ LastOf(u) = Piece(f, n)
    BY <2>1, <2>2 DEF LastOf
  <2>4. ASSUME NEW i \in 1..(n - 1)
        PROVE  Adjacent(u[i], u[i + 1])
    <3>1. u[i] = Piece(f, i) /\ u[i + 1] = Piece(f, i + 1) /\ (i + 1) - 1 = i
      BY <2>1, <2>2
    <3>2. Piece(f, i) = [Piece(f, i + 1) EXCEPT !.at = @ - 1]
      BY <3>1 DEF Piece
    <3>3. Piece(f, i + 1).tag = "piece"
      BY DEF Piece
    <3> QED
      BY <3>1, <3>2, <3>3 DEF Adjacent
  <2> QED
    BY <1>2, <2>1, <2>2, <2>3, <2>4 DEF f
<1> QED
  BY <1>1, <1>2

\* Transmit: what the kernel delivers next goes on where the last delivery ended.
LEMMA TransmitLinks ==
  ASSUME Living, ClientTypes, NEW c \in Clients, Link(c), Transmit(c), Frozen
  PROVE  Link(c)' /\ ClientTypes'
<1> DEFINE s == inbuf[c]
           o == outbox[c]
           z == Head(o)
<1>0. PICK u \in Cuts(z) : inbuf' = [inbuf EXCEPT ![c] = s \o u]
  BY DEF Transmit
<1>1. /\ s \in Seq(Units) /\ o \in Seq(Items) /\ o # << >> /\ conn[c] = "open"
      /\ inbuf' = [inbuf EXCEPT ![c] = s \o u]
      /\ inbuf'[c] = s \o u /\ outbox'[c] = Tail(o)
      /\ UNCHANGED <<asked, cpc, rest, file, buffer>>
  BY <1>0 DEF Transmit, Living, StreamInv, Inv, TypeOK, ProcessTypeOK, ClientTypes
<1>2. z \in Items /\ o[1] = z /\ Tail(o) \in Seq(Items)
  BY <1>1
<1>3. u \in Seq(Units) /\ u # << >>
  BY <1>2, CutType
<1>4. /\ Len(o) \in Nat /\ Len(o) # 0 /\ Len(Tail(o)) = Len(o) - 1
      /\ Tail(o) # << >> => Head(Tail(o)) = o[2] /\ Len(o) >= 2
      /\ Tail(o) = << >> => LastOf(o) = z
  <2>1. Len(o) \in Nat /\ Len(o) # 0 /\ Len(Tail(o)) = Len(o) - 1
    BY <1>1, EmptySeq
  <2>2. ASSUME Tail(o) # << >> PROVE Head(Tail(o)) = o[2] /\ Len(o) >= 2
    BY <1>1, <2>1, <2>2
  <2>3. ASSUME Tail(o) = << >> PROVE LastOf(o) = z
    <3> DEFINE t == Tail(o)
    <3>1. t = << >> /\ Len(t) = Len(o) - 1
      BY <2>1, <2>3
    <3> HIDE DEF t
    <3>2. Len(o) = 1
      BY <2>1, <3>1
    <3> QED
      BY <1>2, <3>2 DEF LastOf
  <2> QED
    BY <2>1, <2>2, <2>3
<1>5. /\ z.tag # "piece"
      /\ z.tag = "packet" => asked[c].kind = REQUEST_SNIFF
      /\ asked[c].kind = REQUEST_SNIFF => z.tag \in {"answer", "packet"}
  <2>1. z \in ItemsFor(asked[c])
    BY <1>1 DEF Link, Sorted
  <2>2. z.tag # "piece"
    BY <1>2 DEF Items, Listing, Text
  <2> QED
    BY <2>1, <2>2 DEF ItemsFor
<1>6. asked[c] # NoRequest /\ \E h \in Clients : hfd[h] = c /\ hpc[h] \in Late
  BY <1>1 DEF Living, StreamInv, Streams, Stream, Begun, Late
<1>7. /\ \A i \in 1..(Len(u) - 1) : Adjacent(u[i], u[i + 1])
      /\ z.tag # "packet" => u[1] = z /\ LastOf(u) = z
      /\ z.tag = "packet" =>
           /\ u[1] = Piece(z.frame, 1)
           /\ \E n \in Sendable(z.frame) : LastOf(u) = Piece(z.frame, n)
  BY <1>2, CutFits
<1>8. /\ s \o u \in Seq(Units) /\ s \o u # << >> /\ LastOf(s \o u) = LastOf(u)
      /\ Head(s \o u) = IF s = << >> THEN u[1] ELSE Head(s)
  <2>1. s \o u \in Seq(Units)
    BY <1>1, <1>3, Concat
  <2> QED
    BY <1>1, <1>3, <2>1, EndsOfConcat
<1> HIDE DEF z
<1>9. ClientTypes'
  BY <1>1, <1>8 DEF ClientTypes
<1>10. Heard(c)'
  BY <1>1, <1>6 DEF Heard, Frozen
<1>11. Opening(c)'
  <2> SUFFICES ASSUME cpc[c] \in {"ask", "answer"}
               PROVE  Head(s \o u).tag = "answer"
    BY <1>1, <1>8 DEF Opening
  <2>1. CASE s # << >>
    BY <1>8, <2>1 DEF Link, Opening
  <2>2. CASE s = << >>
    <3>1. z.tag = "answer"
      BY <1>1, <2>2 DEF Link, Opening, z
    <3> QED
      BY <1>7, <1>8, <2>2, <3>1
  <2> QED
    BY <2>1, <2>2
<1>12. Sorted(c)'
  <2>1. Tail(o) \in Seq(ItemsFor(asked[c]))
    <3>1. o \in Seq(ItemsFor(asked[c])) /\ o # << >>
      BY <1>1 DEF Link, Sorted
    <3> HIDE DEF o
    <3> QED
      BY <3>1
  <2> QED
    BY <1>1, <2>1 DEF Sorted, ItemsFor
<1>13. Joined(c)'
  <2> DEFINE w == LastOf(u)
  <2>1. w.tag = "piece" => w.at \in Sendable(w.frame) /\ asked[c].kind = REQUEST_SNIFF
    BY <1>5, <1>7 DEF Piece
  <2>2. ASSUME Tail(o) # << >>, Head(Tail(o)).tag = "packet"
        PROVE  w = Answer(ANSWER_OK, SentSize(Head(Tail(o)).frame))
    <3>1. MayFollow(asked[c], o[1], o[1 + 1])
      <4>1. 1 \in 1..(Len(o) - 1)
        BY <1>4, <2>2
      <4> QED
        BY <1>1, <4>1 DEF Living, StreamInv, Streams, Stream, Chained
    <3>2. MayFollow(asked[c], z, Head(Tail(o)))
      BY <1>2, <1>4, <2>2, <3>1
    <3>3. z = Answer(ANSWER_OK, SentSize(Head(Tail(o)).frame))
      BY <2>2, <3>2 DEF MayFollow, Chunk, Listing, Text
    <3>4. z.tag = "answer"
      BY <3>3 DEF Answer
    <3> QED
      BY <1>7, <3>3, <3>4
  <2>3. ASSUME Tail(o) = << >>, spc = "body", sfd = c
        PROVE  w = Answer(ANSWER_OK, SentSize(frame))
    <3>1. asked[c].kind = REQUEST_SNIFF
      BY <1>1, <2>3, Assumptions
      DEF Living, StreamInv, Delivering, AllAssumptions, ProcessAssumption
    <3>2. LastOf(o) = Answer(ANSWER_OK, SentSize(frame))
      BY <1>1, <2>3, <3>1 DEF Living, StreamInv, Streams, Stream, SniffEnd
    <3>3. z = Answer(ANSWER_OK, SentSize(frame)) /\ z.tag = "answer"
      BY <1>4, <2>3, <3>2 DEF Answer
    <3> QED
      BY <1>7, <3>3
  <2> HIDE DEF w
  <2>4. inbuf'[c] = s \o u /\ outbox'[c] = Tail(o) /\ LastOf(s \o u) = w /\ asked' = asked
        /\ spc' = spc /\ sfd' = sfd /\ frame' = frame
    BY <1>1, <1>8 DEF Frozen, w
  <2>5. Joined(c)' = (inbuf'[c] # << >> =>
          LET x == LastOf(inbuf'[c]) IN
          /\ x.tag = "piece" => /\ x.at \in Sendable(x.frame)
                                /\ asked'[c].kind = REQUEST_SNIFF
          /\ outbox'[c] # << >> /\ Head(outbox'[c]).tag = "packet" =>
               x = Answer(ANSWER_OK, SentSize(Head(outbox'[c]).frame))
          /\ outbox'[c] = << >> /\ spc' = "body" /\ sfd' = c =>
               x = Answer(ANSWER_OK, SentSize(frame')))
    BY DEF Joined, LastOf
  <2> QED
    BY <2>1, <2>2, <2>3, <2>4, <2>5
<1>14. Framed(c)'
  <2>1. ASSUME s # << >>
        PROVE  Adjacent(LastOf(s), u[1])
    <3> DEFINE x == LastOf(s)
    <3>1. /\ x.tag = "piece" => /\ x.at \in Sendable(x.frame)
                                /\ asked[c].kind = REQUEST_SNIFF
          /\ z.tag = "packet" => x = Answer(ANSWER_OK, SentSize(z.frame))
      BY <1>1, <2>1 DEF Link, Joined, z
    <3> HIDE DEF x
    <3>2. CASE z.tag = "packet"
      <4>1. u[1].tag = "piece" /\ u[1].at = 1 /\ u[1].frame = z.frame
        BY <1>7, <3>2 DEF Piece
      <4> QED
        BY <3>1, <3>2, <4>1 DEF Adjacent, x
    <3>3. CASE z.tag # "packet"
      <4>1. u[1] = z /\ (x.tag = "piece" => z.tag = "answer")
        BY <1>5, <1>7, <3>1, <3>3
      <4> QED
        BY <1>5, <3>1, <4>1 DEF Adjacent, x
    <3> QED
      BY <3>2, <3>3
  <2>2. \A i \in 1..(Len(s) - 1) : Adjacent(s[i], s[i + 1])
    BY DEF Link, Framed
  <2>3. s \in Seq(Units) /\ u \in Seq(Units) /\ u # << >>
    BY <1>1, <1>3
  <2> HIDE DEF s
  <2>4. \A i \in 1..(Len(s \o u) - 1) : Adjacent((s \o u)[i], (s \o u)[i + 1])
    BY <1>7, <2>1, <2>2, <2>3, Junction
  <2> QED
    BY <1>1, <2>4 DEF Framed, s
<1>15. Filed(c)'
  BY <1>1 DEF Link, Filed
<1>16. Copying(c)'
  <2> SUFFICES ASSUME NEW h \in Clients, hfd[h] = c, hpc[h] \in {"copy", "done"},
                      asked[c] # NoRequest, asked[c].kind = REQUEST_GET
               PROVE  OnItsWay(c, h)'
    BY <1>1 DEF Copying, Frozen
  <2>1. OnItsWay(c, h)
    BY DEF Link, Copying
  <2>2. z.tag # "packet"
    BY <1>5 DEF REQUEST_GET, REQUEST_SNIFF
  <2>3. u = <<z>>
    BY <1>2, <2>2, CutItem DEF z
  <2>4. (s \o u) \o Tail(o) = s \o o
    <3>1. \A x, y \in Seq(Wares) : y # << >> => (x \o <<Head(y)>>) \o Tail(y) = x \o y
      BY MoveItem
    <3>2. s \in Seq(Wares) /\ o \in Seq(Wares) /\ o # << >>
      BY <1>1, WareSeqs
    <3>3. u = <<Head(o)>>
      BY <2>3 DEF z
    <3> HIDE DEF s, o
    <3> QED
      BY <3>1, <3>2, <3>3
  <2>5. /\ asked'[c] = asked[c] /\ cpc'[c] = cpc[c] /\ file'[c] = file[c]
        /\ inbuf'[c] \o outbox'[c] = inbuf[c] \o outbox[c] /\ rest'[c] = rest[c]
        /\ hpc' = hpc /\ hpos' = hpos
    BY <1>1, <2>4 DEF Frozen
  <2> QED
    BY <2>1, <2>5 DEF OnItsWay, Sent
<1> QED
  BY <1>9, <1>10, <1>11, <1>12, <1>13, <1>14, <1>15, <1>16 DEF Link

-----------------------------------------------------------------------------
(* The invariant is inductive *)

\* A program's own connection.
LEMMA OwnLink ==
  ASSUME Living, ClientTypes, Apart, Links, NEW d \in Clients, ClientSide(d)
  PROVE  /\ ClientTypes'
         /\ conn'[d] = "open" => Link(d)'
         /\ conn'[d] # "open" => inbuf'[d] = << >>
         /\ cpc'[d] = "connect" => file'[d] = << >>
<1> USE DEF connVars, procVars
<1>1. /\ conn \in [Clients -> {"idle", "open", "gone"}]
      /\ cpc \in [Clients -> Talking \cup Ended \cup {"connect"}]
      /\ cpc[d] \in Talking => conn[d] = "open"
  BY DEF Living, StreamInv, Inv, TypeOK, ProcessTypeOK, Tied
<1>2. ASSUME proc' = proc PROVE Frozen
  BY <1>2 DEF ClientSide, Frozen, handlerVars, threadVars, snifferVars
<1>3. ASSUME conn' = conn, proc' = proc, conn[d] = "open", cpc'[d] # "connect",
             Link(d) /\ Frozen => Link(d)' /\ ClientTypes'
      PROVE  /\ ClientTypes'
             /\ conn'[d] = "open" => Link(d)'
             /\ conn'[d] # "open" => inbuf'[d] = << >>
             /\ cpc'[d] = "connect" => file'[d] = << >>
  BY <1>2, <1>3 DEF Links
<1>4. CASE Ends(d)
  <2>1. PICK pc \in Ended : End(d, pc)
    BY <1>4 DEF Ends
  <2>2. conn'[d] # "open" /\ inbuf'[d] = << >> /\ cpc'[d] # "connect"
    BY <1>1, <2>1 DEF End, Ended, ClientTypes
  <2>3. ClientTypes'
    BY <2>1 DEF End, ClientTypes
  <2> QED
    BY <2>2, <2>3
<1>5. CASE Dials(d)
  <2>1. Frozen
    BY <1>2, <1>5 DEF Dials, Dial, Connect
  <2>2. conn'[d] = "open" /\ cpc'[d] = "ask" /\ ClientTypes'
    BY <1>1, <1>5 DEF Dials, Dial, Connect, ClientTypes
  <2> QED
    BY <1>5, <2>1, <2>2, DialLinks
<1>6. CASE Ask(d)
  <2>1. /\ conn' = conn /\ proc' = proc /\ conn[d] = "open" /\ cpc'[d] # "connect"
        /\ ClientTypes'
    BY <1>1, <1>6 DEF Ask, Talking, ClientTypes
  <2> QED
    BY <1>3, <1>6, <2>1, AskLinks
<1>7. CASE Transmit(d)
  <2>1. conn' = conn /\ proc' = proc /\ conn[d] = "open" /\ cpc'[d] # "connect"
    BY <1>7 DEF Transmit, Living, Tied
  <2> QED
    BY <1>3, <1>7, <2>1, TransmitLinks
<1>8. CASE TakesAnswer(d)
  <2>1. conn' = conn /\ proc' = proc /\ conn[d] = "open" /\ cpc'[d] # "connect"
    BY <1>1, <1>8, NextStates DEF TakesAnswer, Talking
  <2> QED
    BY <1>3, <1>8, <2>1, AnswerLinks
<1>9. CASE TakesNoAnswer(d)
  <2>1. conn' = conn /\ proc' = proc /\ conn[d] = "open" /\ cpc'[d] # "connect"
    BY <1>1, <1>9, NextStates DEF TakesNoAnswer, Talking
  <2>2. ClientTypes'
    BY <1>9 DEF TakesNoAnswer, ClientTypes
  <2> QED
    BY <1>3, <1>9, <2>1, <2>2, NoAnswerLinks
<1>10. CASE Creates(d)
  <2>1. /\ conn' = conn /\ proc' = proc /\ conn[d] = "open" /\ cpc'[d] # "connect"
        /\ ClientTypes'
    BY <1>1, <1>10 DEF Creates, Talking, ClientTypes
  <2> QED
    BY <1>3, <1>10, <2>1, CreateLinks
<1>11. CASE CopyUnit(d)
  <2>1. conn' = conn /\ proc' = proc /\ conn[d] = "open" /\ cpc'[d] # "connect"
    BY <1>1, <1>11 DEF CopyUnit, Talking
  <2> QED
    BY <1>3, <1>11, <2>1, CopyLinks
<1>12. CASE ListUnit(d) \/ Analyse(d)
  <2>1. conn' = conn /\ proc' = proc /\ conn[d] = "open" /\ cpc'[d] # "connect"
    BY <1>1, <1>12 DEF ListUnit, Analyse, Talking
  <2> QED
    BY <1>3, <1>12, <2>1, ListOrAnalyseLinks
<1> QED
  BY <1>4, <1>5, <1>6, <1>7, <1>8, <1>9, <1>10, <1>11, <1>12, ClientSteps

\* Every step of a program keeps the links.
LEMMA ClientLinks ==
  ASSUME Living, ClientTypes, Apart, Links, NEW d \in Clients, ClientSide(d)
  PROVE  ClientTypes' /\ Apart' /\ Links'
<1>1. \A c \in Clients : conn'[c] = "open" => Link(c)'
  BY OwnLink, OtherLinks
<1>2. ASSUME NEW c \in Clients
      PROVE  /\ conn'[c] # "open" => inbuf'[c] = << >>
             /\ cpc'[c] = "connect" => file'[c] = << >>
  <2>1. CASE c = d
    BY <2>1, OwnLink
  <2>2. CASE c # d
    BY <2>2, OthersStill DEF Still, Apart
  <2> QED
    BY <2>1, <2>2
<1> QED
  BY <1>1, <1>2, OwnLink DEF Apart, Links

\* The invariant holds at first,
LEMMA NetInitInv == NetInit => NetInv
<1> SUFFICES ASSUME NetInit
             PROVE  NetInv
  OBVIOUS
<1>1. Living
  BY NetInitLiving
<1>2. ClientTypes /\ Apart
  BY DEF NetInit, ClientInit, ClientTypes, Apart
<1>3. Links
  BY DEF NetInit, Init, ProcessInit, Links
<1> QED
  BY <1>1, <1>2, <1>3 DEF NetInv

\* and every step of the server, the network and the programs keeps it.
LEMMA NetStep == NetInv /\ [NetNext]_netVars => NetInv'
<1> SUFFICES ASSUME NetInv, [NetNext]_netVars
             PROVE  NetInv'
  OBVIOUS
<1>1. Living'
  BY LivingStep DEF NetInv
<1>2. CASE ServerRuns
  BY <1>1, <1>2, ServerLinks DEF NetInv
<1>3. ASSUME NEW d \in Clients, ClientSide(d) PROVE NetInv'
  BY <1>1, <1>3, ClientLinks DEF NetInv
<1>4. CASE UNCHANGED netVars
  <2>1. UNCHANGED <<proc, conn, asked, outbox, hpc, hfd, hpos, spc, sfd, frame, cpc,
                    inbuf, rest, file, buffer>>
    BY <1>4 DEF netVars, vars, connVars, procVars, handlerVars, threadVars, snifferVars,
                clientVars
  <2>2. ClientTypes' /\ Apart'
    BY <2>1 DEF NetInv, ClientTypes, Apart
  <2>3. ASSUME NEW c \in Clients, conn'[c] = "open"
        PROVE  Link(c)'
    <3>1. Link(c) /\ Still(c) /\ Unwritten(c)
      BY <2>1, <2>3 DEF NetInv, Links, Still, Unwritten, Finished, Sending
    <3> QED
      BY <3>1, QuietLink, Numbers DEF NetInv
  <2> QED
    BY <1>1, <2>2, <2>3 DEF NetInv, Links
<1> QED
  BY <1>2, <1>3, <1>4 DEF NetNext

\* The invariant of the connections, from the thread that writes to the local file
\* or the buffer of frames, holds in every reachable state.
THEOREM WhatClientsReceive == NetSpec => []NetInv
BY NetInitInv, NetStep, PTL DEF NetSpec

\* The types of the programs; what a program takes for its answer was sent as one.
THEOREM AnswersAreAnswers == NetSpec => []ClientTypeOK
<1>1. ASSUME NetInv PROVE ClientTypeOK
  <2>1. cpc \in [Clients -> Talking \cup Ended \cup {"connect"}]
    BY <1>1 DEF NetInv, Living, Tied
  <2>2. ASSUME NEW c \in Clients, cpc[c] = "answer", inbuf[c] # << >>
        PROVE  Head(inbuf[c]).tag = "answer"
    <3>1. conn[c] = "open"
      BY <1>1, <2>2 DEF NetInv, Living, Tied, Talking
    <3> QED
      BY <1>1, <2>2, <3>1 DEF NetInv, Links, Link, Opening
  <2> QED
    BY <1>1, <2>1, <2>2 DEF NetInv, ClientTypes, ClientTypeOK
<1> QED
  BY <1>1, WhatClientsReceive, PTL

\* No frame is cut short or doubled on its way to a client of sniff().
THEOREM FramesStayWhole == NetSpec => []FramesWhole
<1>1. ASSUME NetInv PROVE FramesWhole
  <2>1. ASSUME NEW c \in Clients, NEW i \in 1..(Len(inbuf[c]) - 1)
        PROVE  Adjacent(inbuf[c][i], inbuf[c][i + 1])
    <3>1. CASE conn[c] = "open"
      BY <1>1, <2>1, <3>1 DEF NetInv, Links, Link, Framed
    <3>2. CASE conn[c] # "open"
      <4>1. Len(inbuf[c]) = 0
        BY <1>1, <3>2 DEF NetInv, Apart
      <4> QED
        BY <2>1, <4>1
    <3> QED
      BY <3>1, <3>2
  <2> QED
    BY <2>1 DEF FramesWhole, Adjacent
<1> QED
  BY <1>1, WhatClientsReceive, PTL

\* While a client receives a file, each chunk of it is in the local file, on its
\* way, or yet to be read by the thread that sends it, once and in order.
THEOREM FilesExact == NetSpec => []TransferExact
<1>1. ASSUME NetInv PROVE TransferExact
  <2> SUFFICES ASSUME NEW c \in Clients, NEW h \in Clients, conn[c] = "open",
                      cpc[c] = "copy", hfd[h] = c, hpc[h] \in {"copy", "done"}
               PROVE  LET path == asked[c].path
                          sent == IF hpc[h] = "done" THEN FileSize[path] ELSE hpos[h]
                      IN  /\ file[c] \o inbuf[c] \o outbox[c] = ChunksOf(path, sent)
                          /\ rest[c] + Len(file[c]) = FileSize[path]
    BY DEF TransferExact
  <2>1. Link(c) /\ asked[c] # NoRequest
    BY <1>1 DEF NetInv, Links, Living, Tied, Talking
  <2>2. asked[c].kind = REQUEST_GET
    BY <2>1 DEF Link, Filed
  <2>3. OnItsWay(c, h)
    BY <2>1, <2>2 DEF Link, Copying
  <2>4. file[c] \in Seq(Wares) /\ inbuf[c] \in Seq(Wares) /\ outbox[c] \in Seq(Wares)
    BY <1>1, WareSeqs DEF NetInv, Living, StreamInv, Inv, TypeOK, ProcessTypeOK,
                          ClientTypes
  <2>5. (file[c] \o inbuf[c]) \o outbox[c] = file[c] \o (inbuf[c] \o outbox[c])
    <3> DEFINE x == file[c]  y == inbuf[c]  z == outbox[c]
    <3>1. x \in Seq(Wares) /\ y \in Seq(Wares) /\ z \in Seq(Wares)
      BY <2>4
    <3> HIDE DEF x, y, z
    <3>2. (x \o y) \o z = x \o (y \o z)
      BY <3>1, Assoc
    <3> QED
      BY <3>2 DEF x, y, z
  <2> QED
    BY <2>3, <2>5 DEF OnItsWay, Sent
<1> QED
  BY <1>1, WhatClientsReceive, PTL
=============================================================================
