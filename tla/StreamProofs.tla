---------------------------- MODULE StreamProofs ----------------------------
(***************************************************************************)
(* That what a connected client is sent, by the handlers and the capture   *)
(* thread without a lock, is a piece of the stream its request calls for.  *)
(***************************************************************************)
EXTENDS ServerProofs, SequenceTheorems

-----------------------------------------------------------------------------
(* The inductive invariant *)

\* A handler answers a request in the function for its kind.
Kinds ==
  \A h \in Clients :
    /\ hpc[h] \in {"reject", "answer", "copy"} => hreq[h].kind = REQUEST_GET
    /\ hpc[h] \in ListingPCs => hreq[h].kind = REQUEST_DIR

\* The tables a frame is still to be sent to are among those of its route.
Routed ==
  spc \in {"scan", "header", "body"} =>
    \A i \in DOMAIN route : \E j \in DOMAIN Route(frame) : Route(frame)[j] = route[i]

\* The capture thread holds the descriptor of a client only while it sends it a
\* frame, of the protocol the client asked for.
Delivering ==
  sfd # NoFd =>
    /\ spc \in {"header", "body"}
    /\ conn[sfd] = "open" => /\ asked[sfd] # NoRequest
                             /\ asked[sfd].kind = REQUEST_SNIFF
                             /\ Head(route) = TableOf[asked[sfd].path]

\* The last item of a stream.
LastOf(s) == s[Len(s)]

\* Where a thread is once it has answered.
Late == {"copy", "dupout", "duperr", "exec", "exit", "done"}

\* Nothing is sent before a thread answers.
Begun(c) ==
  outbox[c] # << >> =>
    /\ asked[c] # NoRequest
    /\ \E h \in Clients : hfd[h] = c /\ hpc[h] \in Late

Chained(c) ==
  \A i \in 1..(Len(outbox[c]) - 1) :
    MayFollow(asked[c], outbox[c][i], outbox[c][i + 1])

\* What was sent last is what the thread that is to send more has sent last.
SniffEnd(c) ==
  outbox[c] # << >> /\ asked[c].kind = REQUEST_SNIFF =>
    IF spc = "body" /\ sfd = c
    THEN LastOf(outbox[c]) = Answer(ANSWER_OK, SentSize(frame))
    ELSE LastOf(outbox[c]).tag = "packet"

CopyEnd(c) ==
  \A h \in Clients : outbox[c] # << >> /\ hfd[h] = c /\ hpc[h] = "copy" =>
    LastOf(outbox[c]) = IF hpos[h] = 0 THEN Answer(ANSWER_OK, FileSize[hreq[h].path])
                        ELSE Chunk(hreq[h].path, hpos[h] - 1)

ListEnd(c) ==
  outbox[c] # << >> /\ asked[c].kind = REQUEST_DIR /\ proc # "exited" =>
    LastOf(outbox[c]) \in {Answer(ANSWER_OK, 0), Text}

Stream(c) == Begun(c) /\ Chained(c) /\ SniffEnd(c) /\ CopyEnd(c) /\ ListEnd(c)

Streams == \A c \in Clients : conn[c] # "gone" => Stream(c)

StreamInv == Inv /\ Kinds /\ Routed /\ Delivering /\ Streams

-----------------------------------------------------------------------------
(* Streams as sequences *)

\* A stream that is written to keeps its items and ends in the new one.
LEMMA Appended ==
  ASSUME NEW s \in Seq(Items), NEW x \in Items
  PROVE  /\ Append(s, x) # << >> /\ LastOf(Append(s, x)) = x
         /\ Len(Append(s, x)) = Len(s) + 1 /\ Len(s) \in Nat
         /\ \A i \in 1..Len(s) : Append(s, x)[i] = s[i]
<1>1. /\ Append(s, x) \in Seq(Items) /\ Len(Append(s, x)) = Len(s) + 1
      /\ \A i \in 1..Len(s) : Append(s, x)[i] = s[i]
      /\ Append(s, x)[Len(s) + 1] = x /\ Len(s) \in Nat
  BY AppendProperties, LenProperties
<1>2. Append(s, x) # << >>
  BY <1>1, EmptySeq
<1> QED
  BY <1>1, <1>2 DEF LastOf

\* It stays chained when the new item may follow the last one.
LEMMA ChainGrows ==
  ASSUME NEW s \in Seq(Items), NEW x \in Items, NEW r,
         \A i \in 1..(Len(s) - 1) : MayFollow(r, s[i], s[i + 1]),
         s # << >> => MayFollow(r, LastOf(s), x)
  PROVE  \A i \in 1..(Len(Append(s, x)) - 1) :
           MayFollow(r, Append(s, x)[i], Append(s, x)[i + 1])
<1> DEFINE a == Append(s, x)
<1>1. /\ Len(a) = Len(s) + 1 /\ Len(s) \in Nat
      /\ \A i \in 1..Len(s) : a[i] = s[i]
      /\ a[Len(s) + 1] = x
  BY Appended DEF LastOf
<1> HIDE DEF a
<1> SUFFICES ASSUME NEW i \in 1..(Len(a) - 1)
             PROVE  MayFollow(r, a[i], a[i + 1])
  BY DEF a
<1>2. CASE i = Len(s)
  <2>1. s # << >>
    BY <1>1, <1>2, EmptySeq
  <2>2. a[i] = LastOf(s) /\ a[i + 1] = x
    BY <1>1, <1>2 DEF LastOf
  <2> QED
    BY <2>1, <2>2
<1>3. CASE i # Len(s)
  <2>1. i \in 1..(Len(s) - 1) /\ i \in 1..Len(s) /\ i + 1 \in 1..Len(s)
    BY <1>1, <1>3
  <2>2. a[i] = s[i] /\ a[i + 1] = s[i + 1]
    BY <1>1, <2>1
  <2> QED
    BY <2>1, <2>2
<1> QED
  BY <1>2, <1>3

\* A stream that is read from keeps its end.
LEMMA Rest ==
  ASSUME NEW s \in Seq(Items), s # << >>
  PROVE  /\ Len(Tail(s)) = Len(s) - 1 /\ Len(s) \in Nat
         /\ \A i \in 1..(Len(s) - 1) : Tail(s)[i] = s[i + 1]
         /\ Tail(s) # << >> => LastOf(Tail(s)) = LastOf(s)
<1>1. /\ Tail(s) \in Seq(Items) /\ Len(Tail(s)) = Len(s) - 1 /\ Len(s) \in Nat
      /\ \A i \in 1..Len(Tail(s)) : Tail(s)[i] = s[i + 1]
  BY HeadTailProperties, LenProperties
<1>2. ASSUME Tail(s) # << >> PROVE LastOf(Tail(s)) = LastOf(s)
  <2>1. Len(Tail(s)) # 0 /\ Len(Tail(s)) \in Nat
    BY <1>1, <1>2, EmptySeq, LenProperties
  <2>2. Len(Tail(s)) \in 1..Len(Tail(s)) /\ Len(Tail(s)) + 1 = Len(s)
    BY <1>1, <2>1
  <2> QED
    BY <1>1, <2>2 DEF LastOf
<1> QED
  BY <1>1, <1>2

-----------------------------------------------------------------------------
(* One stream, in a step that does not write to it *)

\* The threads that have sent a client something are still there, none has come
\* to send more, and the capture thread has not begun or ended a frame for it.
SameSenders(c) ==
  /\ \A h \in Clients :
       /\ hfd[h] = c /\ hpc[h] \in Late => hfd'[h] = c /\ hpc'[h] \in Late
       /\ hfd'[h] = c /\ hpc'[h] = "copy" =>
            /\ hfd[h] = c /\ hpc[h] = "copy"
            /\ hpos'[h] = hpos[h] /\ hreq'[h] = hreq[h]
  /\ proc = "exited" => proc' = "exited"
  /\ (spc' = "body" /\ sfd' = c) = (spc = "body" /\ sfd = c)
  /\ spc = "body" /\ sfd = c => frame' = frame

\* A stream that nobody writes to stays what it was.
LEMMA StreamKept ==
  ASSUME NEW c \in Clients, Stream(c), SameSenders(c), outbox'[c] = outbox[c],
         outbox[c] # << >> => asked'[c] = asked[c]
  PROVE  Stream(c)'
<1>1. CASE outbox[c] = << >>
  <2>1. Len(outbox'[c]) = 0
    BY <1>1
  <2>2. Chained(c)'
    BY <2>1 DEF Chained
  <2> QED
    BY <1>1, <2>2 DEF Stream, Begun, SniffEnd, CopyEnd, ListEnd
<1>2. CASE outbox[c] # << >>
  <2>1. Begun(c)'
    BY <1>2 DEF Stream, Begun, SameSenders, Late
  <2>2. Chained(c)'
    BY <1>2 DEF Stream, Chained
  <2>3. SniffEnd(c)'
    BY <1>2 DEF Stream, SniffEnd, SameSenders
  <2>4. CopyEnd(c)'
    BY <1>2 DEF Stream, CopyEnd, SameSenders
  <2>5. ListEnd(c)'
    BY <1>2 DEF Stream, ListEnd, SameSenders
  <2> QED
    BY <2>1, <2>2, <2>3, <2>4, <2>5 DEF Stream
<1> QED
  BY <1>1, <1>2

\* The thread that has, or had, the request of a connected client is the only one.
LEMMA TheHandler ==
  ASSUME Inv, NEW c \in Clients, conn[c] = "open",
         NEW g \in Clients, hfd[g] = c, hpc[g] \in HasRequest \cup Late,
         NEW h \in Clients, hfd[h] = c, hpc[h] \in HasRequest \cup Late
  PROVE  g = h
<1>1. Serves(g, c) /\ Serves(h, c)
  BY DEF Serves, Late, HasRequest, ListingPCs
<1> QED
  BY <1>1 DEF Inv, ServedOnce

-----------------------------------------------------------------------------
(* The handlers *)

\* What a handler writes, and where it goes then.
Sends(h, item, pc) ==
  /\ hfd[h] \in Clients /\ item \in Items
  /\ Write(hfd[h], item)
  /\ hpc[h] \in HasRequest
  /\ hpc' = [hpc EXCEPT ![h] = pc]
  /\ UNCHANGED <<conn, asked, hfd, hreq, frame, spc, sfd>>
  /\ \A g \in Clients \ {h} : hpos'[g] = hpos[g]
  /\ proc # "exited"

\* A handler answers a DIR request with a zero, and what it writes for a GET
\* request is the business of that one.
Suits(r, item) == \/ r.kind = REQUEST_GET
                  \/ r.kind = REQUEST_DIR /\ item = Answer(ANSWER_OK, 0)

\* The streams of other clients, and of all when nobody is there to be written to.
LEMMA OthersKept ==
  ASSUME NEW h \in Clients, NEW item, NEW pc, TypeOK, Streams, Sends(h, item, pc),
         NEW c \in Clients, conn[c] # "gone", c # hfd[h]
  PROVE  Stream(c)'
<1>1. outbox'[c] = outbox[c]
  BY DEF Sends, Write, TypeOK, ProcessTypeOK
<1>2. SameSenders(c)
  <2>1. /\ hfd' = hfd /\ hreq' = hreq /\ frame' = frame /\ spc' = spc /\ sfd' = sfd
        /\ proc # "exited"
        /\ \A g \in Clients : g # h => hpc'[g] = hpc[g] /\ hpos'[g] = hpos[g]
    BY DEF Sends, TypeOK, HandlersTypeOK
  <2> QED
    BY <2>1 DEF SameSenders
<1>3. Stream(c) /\ asked' = asked
  BY DEF Streams, Sends
<1> QED
  BY <1>1, <1>2, <1>3, StreamKept

\* The stream of the client it writes to.
LEMMA Continued ==
  ASSUME NEW h \in Clients, NEW item, NEW pc \in {"copy", "dupout", "exit"},
         StreamInv, Sends(h, item, pc), conn[hfd[h]] = "open",
         Suits(asked[hfd[h]], item),
         outbox[hfd[h]] # << >> => MayFollow(asked[hfd[h]], LastOf(outbox[hfd[h]]), item),
         pc = "copy" => item = IF hpos'[h] = 0 THEN Answer(ANSWER_OK, FileSize[hreq[h].path])
                               ELSE Chunk(hreq[h].path, hpos'[h] - 1)
  PROVE  Stream(hfd[h])'
<1> DEFINE c == hfd[h]
           s == outbox[c]
<1>1. /\ c \in Clients /\ item \in Items /\ s \in Seq(Items) /\ Stream(c)
      /\ outbox'[c] = Append(s, item)
      /\ conn[c] = "open" /\ conn' = conn /\ asked' = asked /\ hfd' = hfd /\ hreq' = hreq
      /\ hpc[h] \in HasRequest /\ hpc'[h] = pc
      /\ \A g \in Clients : g # h => hpc'[g] = hpc[g]
  BY DEF Sends, Write, StreamInv, Inv, TypeOK, ProcessTypeOK, HandlersTypeOK, Streams
<1>2. outbox'[c] # << >> /\ LastOf(outbox'[c]) = item
  BY <1>1, Appended
<1>3. asked[c] # NoRequest
  BY <1>1 DEF StreamInv, Inv, Received, Serves
<1>4. \A g \in Clients : hfd[g] = c /\ hpc'[g] = "copy" => g = h
  BY <1>1, TheHandler DEF StreamInv, Late
<1>5. Begun(c)'
  BY <1>1, <1>3 DEF Begun, Late
<1>6. Chained(c)'
  <2>1. \A i \in 1..(Len(s) - 1) : MayFollow(asked[c], s[i], s[i + 1])
    BY <1>1 DEF Stream, Chained
  <2>2. \A i \in 1..(Len(Append(s, item)) - 1) :
          MayFollow(asked[c], Append(s, item)[i], Append(s, item)[i + 1])
    BY <1>1, <2>1, ChainGrows
  <2> QED
    BY <1>1, <2>2 DEF Chained
<1>7. SniffEnd(c)'
  BY <1>1 DEF SniffEnd, Suits, REQUEST_GET, REQUEST_DIR, REQUEST_SNIFF
<1>8. CopyEnd(c)'
  BY <1>1, <1>2, <1>4 DEF CopyEnd
<1>9. ListEnd(c)'
  <2>1. asked[c].kind = REQUEST_DIR => item = Answer(ANSWER_OK, 0)
    BY DEF Suits, REQUEST_GET, REQUEST_DIR
  <2> QED
    BY <1>1, <1>2, <2>1 DEF ListEnd
<1>10. Stream(c)'
  BY <1>5, <1>6, <1>7, <1>8, <1>9 DEF Stream
<1> QED
  BY <1>1, <1>10

\* A handler that sends the next item of the stream of its client keeps every
\* stream.
LEMMA SendingStreams ==
  ASSUME NEW h \in Clients, NEW item, NEW pc \in {"copy", "dupout", "exit"},
         StreamInv, Sends(h, item, pc),
         conn[hfd[h]] = "open" =>
           /\ Suits(asked[hfd[h]], item)
           /\ outbox[hfd[h]] # << >> =>
                MayFollow(asked[hfd[h]], LastOf(outbox[hfd[h]]), item),
         pc = "copy" => item = IF hpos'[h] = 0 THEN Answer(ANSWER_OK, FileSize[hreq[h].path])
                               ELSE Chunk(hreq[h].path, hpos'[h] - 1)
  PROVE  Streams'
<1> SUFFICES ASSUME NEW c \in Clients, conn'[c] # "gone"
             PROVE  Stream(c)'
  BY DEF Streams
<1>1. conn[c] # "gone"
  BY DEF Sends
<1>2. CASE c = hfd[h]
  <2>1. conn[hfd[h]] = "open"
    BY <1>1, <1>2 DEF Sends, Write
  <2>2. Stream(hfd[h])'
    BY <2>1, Continued
  <2>3. hfd' = hfd
    BY DEF Sends
  <2> QED
    BY <1>2, <2>2, <2>3
<1>3. CASE c # hfd[h]
  BY <1>1, <1>3, OthersKept DEF StreamInv, Inv
<1> QED
  BY <1>2, <1>3

\* A thread that has not answered yet finds an empty stream.
LEMMA NothingSent ==
  ASSUME StreamInv, NEW h \in Clients, hpc[h] \in HasRequest \ Late,
         hfd[h] \in Clients, conn[hfd[h]] = "open"
  PROVE  outbox[hfd[h]] = << >>
<1> SUFFICES ASSUME outbox[hfd[h]] # << >>
             PROVE  FALSE
  OBVIOUS
<1>1. PICK g \in Clients : hfd[g] = hfd[h] /\ hpc[g] \in Late
  BY DEF StreamInv, Streams, Stream, Begun
<1>2. g = h
  BY <1>1, TheHandler DEF StreamInv
<1> QED
  BY <1>1, <1>2

\* A handler's request is the one its connected client sent.
LEMMA TheRequest ==
  ASSUME StreamInv, NEW h \in Clients, hpc[h] \in HasRequest, hfd[h] \in Clients,
         conn[hfd[h]] = "open"
  PROVE  hreq[h] = asked[hfd[h]]
  BY DEF StreamInv, Inv, Received, Serves

\* The steps in which a handler writes.
LEMMA HandlerSends ==
  ASSUME NEW h \in Clients, StreamInv, UNCHANGED snifferVars,
         \/ Reject(h) \/ AnswerGet(h) \/ CopyChunk(h) \/ AnswerDir(h)
  PROVE  Streams'
<1> USE DEF snifferVars, At, Running, Goto, threadVars, mainVars, handlerVars
<1>1. TypeOK /\ HandlersTypeOK /\ hpc \in [Clients -> HandlerPCs] /\ hpos \in [Clients -> Nat]
  BY DEF StreamInv, Inv, TypeOK, HandlersTypeOK
<1>2. ASSUME hpc[h] \in HasRequest
      PROVE  hfd[h] \in Clients
  BY <1>1, <1>2 DEF HandlersTypeOK
<1>4. CASE Reject(h)
  <2> DEFINE item == Answer(ANSWER_ERROR, 0)
  <2>1. hpc[h] = "reject" /\ hpc[h] \in HasRequest \ Late
    BY <1>4 DEF Reject, HasRequest, ListingPCs, Late
  <2>2. Sends(h, item, "exit")
    BY <1>2, <1>4, <2>1, ItemTypes DEF Reject, Sends
  <2>3. conn[hfd[h]] = "open" => /\ Suits(asked[hfd[h]], item)
                                 /\ outbox[hfd[h]] = << >>
    BY <1>2, <2>1, NothingSent, TheRequest DEF StreamInv, Kinds, Suits, ListingPCs
  <2> HIDE DEF item
  <2> QED
    BY <2>2, <2>3, SendingStreams
<1>5. CASE AnswerGet(h)
  <2> DEFINE item == Answer(ANSWER_OK, FileSize[hreq[h].path])
  <2>1. hpc[h] = "answer" /\ hpc[h] \in HasRequest \ Late
    BY <1>5 DEF AnswerGet, HasRequest, ListingPCs, Late
  <2>2. hreq[h].path \in DOMAIN FileSize /\ hpos[h] = 0 /\ hpos' = hpos
    BY <1>1, <1>5, <2>1
    DEF HandlersTypeOK, AnswerGet, StreamInv, Inv, Rewound, HandlerPCs
  <2>3. FileSize[hreq[h].path] \in Nat
    BY <2>2, FileSizeType
  <2>4. item \in Items
    BY <2>3, ItemTypes
  <2>5. Sends(h, item, "copy")
    BY <1>2, <1>5, <2>1, <2>4 DEF AnswerGet, Sends
  <2>6. conn[hfd[h]] = "open" => /\ Suits(asked[hfd[h]], item)
                                 /\ outbox[hfd[h]] = << >>
    BY <1>2, <2>1, NothingSent, TheRequest DEF StreamInv, Kinds, Suits
  <2>7. item = IF hpos'[h] = 0 THEN Answer(ANSWER_OK, FileSize[hreq[h].path])
               ELSE Chunk(hreq[h].path, hpos'[h] - 1)
    BY <2>2
  <2> HIDE DEF item
  <2> QED
    BY <2>5, <2>6, <2>7, SendingStreams
<1>6. CASE CopyChunk(h)
  <2> DEFINE p == hreq[h].path
             k == hpos[h]
             item == Chunk(p, k)
             c == hfd[h]
  <2>1. /\ hpc[h] = "copy" /\ hpc[h] \in HasRequest /\ k \in Nat /\ hpos'[h] = k + 1
        /\ hpc' = [hpc EXCEPT ![h] = "copy"]
        /\ \A g \in Clients : g # h => hpos'[g] = hpos[g]
        /\ UNCHANGED <<proc, conn, asked, hfd, hreq>>
    BY <1>1, <1>6 DEF CopyChunk, HasRequest, procVars
  <2>2. p \in Paths /\ c \in Clients
    BY <1>1, <1>2, <2>1, FileSizeType DEF HandlersTypeOK
  <2>3. item \in Items
    BY <2>1, <2>2, ItemTypes
  <2>4. Sends(h, item, "copy")
    BY <1>6, <2>1, <2>2, <2>3 DEF CopyChunk, Sends
  <2>5. ASSUME conn[c] = "open"
        PROVE  /\ Suits(asked[c], item)
               /\ outbox[c] # << >> => MayFollow(asked[c], LastOf(outbox[c]), item)
    <3>1. hreq[h] = asked[c] /\ asked[c].kind = REQUEST_GET /\ p = asked[c].path
      BY <2>1, <2>2, <2>5, TheRequest DEF StreamInv, Kinds
    <3>2. ASSUME outbox[c] # << >>
          PROVE  MayFollow(asked[c], LastOf(outbox[c]), item)
      <4>1. LastOf(outbox[c]) = IF k = 0 THEN Answer(ANSWER_OK, FileSize[p])
                                ELSE Chunk(p, k - 1)
        BY <2>1, <2>2, <2>5, <3>2 DEF StreamInv, Streams, Stream, CopyEnd
      <4>2. CASE k = 0
        BY <3>1, <4>1, <4>2 DEF MayFollow
      <4>3. CASE k # 0
        <5>1. LastOf(outbox[c]).tag = "chunk" /\ LastOf(outbox[c]).at + 1 = k
          BY <2>1, <4>1, <4>3 DEF Chunk
        <5> QED
          BY <3>1, <5>1 DEF MayFollow
      <4> QED
        BY <4>2, <4>3
    <3> QED
      BY <3>1, <3>2 DEF Suits
  <2>6. item = IF hpos'[h] = 0 THEN Answer(ANSWER_OK, FileSize[hreq[h].path])
               ELSE Chunk(hreq[h].path, hpos'[h] - 1)
    <3>1. hpos'[h] # 0 /\ hpos'[h] - 1 = k
      BY <2>1
    <3> QED
      BY <3>1
  <2> HIDE DEF item
  <2> QED
    BY <2>4, <2>5, <2>6, SendingStreams
<1>7. CASE AnswerDir(h)
  <2> DEFINE item == Answer(ANSWER_OK, 0)
  <2>1. hpc[h] = "list" /\ hpc[h] \in HasRequest \ Late
    BY <1>7 DEF AnswerDir, HasRequest, ListingPCs, Late
  <2>2. Sends(h, item, "dupout")
    BY <1>2, <1>7, <2>1, ItemTypes DEF AnswerDir, Sends
  <2>3. conn[hfd[h]] = "open" => /\ Suits(asked[hfd[h]], item)
                                 /\ outbox[hfd[h]] = << >>
    BY <1>2, <2>1, NothingSent, TheRequest DEF StreamInv, Kinds, Suits, ListingPCs
  <2> HIDE DEF item
  <2> QED
    BY <2>2, <2>3, SendingStreams
<1> QED
  BY <1>4, <1>5, <1>6, <1>7

\* What all threads print, and what ls prints, goes to a client that was sent the
\* answer to its request for a listing.
LEMMA PrintedStreams ==
  ASSUME NEW d \in Clients, d \in {std[1], std[2]}, NEW item \in {Text, Listing},
         StreamInv, Write(d, item), proc # "exited",
         UNCHANGED <<conn, asked, handlerVars, snifferVars>>,
         item = Listing => proc' = "exited"
  PROVE  Streams'
<1> SUFFICES ASSUME NEW c \in Clients, conn'[c] # "gone"
             PROVE  Stream(c)'
  BY DEF Streams
<1> DEFINE s == outbox[c]
<1>1. /\ Stream(c) /\ conn[c] # "gone" /\ s \in Seq(Items) /\ item \in Items
      /\ conn' = conn /\ asked' = asked /\ hpc' = hpc /\ hfd' = hfd
      /\ hreq' = hreq /\ hpos' = hpos /\ spc' = spc /\ sfd' = sfd /\ frame' = frame
  BY ItemTypes DEF StreamInv, Streams, Inv, TypeOK, ProcessTypeOK, handlerVars,
                   threadVars, snifferVars
<1>2. CASE c # d
  <2>1. outbox'[c] = outbox[c]
    BY <1>2 DEF Write, StreamInv, Inv, TypeOK, ProcessTypeOK
  <2>2. SameSenders(c)
    BY <1>1 DEF SameSenders
  <2> QED
    BY <1>1, <2>1, <2>2, StreamKept
<1>3. CASE c = d
  <2>1. conn[c] = "open" /\ outbox'[c] = Append(s, item)
    BY <1>1, <1>3 DEF Write, StreamInv, Inv, TypeOK, ProcessTypeOK
  <2>2. asked[c] # NoRequest /\ asked[c].kind = REQUEST_DIR
    BY <1>3, <2>1 DEF StreamInv, Inv, Redirected
  <2>3. PICK g \in Clients : hfd[g] = c /\ hpc[g] \in {"duperr", "exec", "done"}
    BY <1>3, <2>1 DEF StreamInv, Inv, Redirected
  <2>4. \A h \in Clients : ~(hfd[h] = c /\ hpc[h] = "copy")
    BY <2>1, <2>3, TheHandler DEF StreamInv, Late
  <2>5. outbox'[c] # << >> /\ LastOf(outbox'[c]) = item
    BY <1>1, <2>1, Appended
  <2>6. Begun(c)'
    BY <1>1, <2>2, <2>3 DEF Begun, Late
  <2>7. Chained(c)'
    <3>1. \A i \in 1..(Len(s) - 1) : MayFollow(asked[c], s[i], s[i + 1])
      BY <1>1 DEF Stream, Chained
    <3>2. s # << >> => MayFollow(asked[c], LastOf(s), item)
      BY <1>1, <2>2 DEF Stream, ListEnd, MayFollow
    <3>3. \A i \in 1..(Len(Append(s, item)) - 1) :
            MayFollow(asked[c], Append(s, item)[i], Append(s, item)[i + 1])
      BY <1>1, <3>1, <3>2, ChainGrows
    <3> QED
      BY <1>1, <2>1, <3>3 DEF Chained
  <2>8. SniffEnd(c)' /\ CopyEnd(c)'
    BY <1>1, <2>2, <2>4 DEF SniffEnd, CopyEnd, REQUEST_DIR, REQUEST_SNIFF
  <2>9. ListEnd(c)'
    BY <2>5 DEF ListEnd
  <2> QED
    BY <2>6, <2>7, <2>8, <2>9 DEF Stream
<1> QED
  BY <1>2, <1>3

\* A step of a handler that writes nothing.
Silent(h) ==
  /\ UNCHANGED <<conn, asked, outbox>>
  /\ proc # "exited"
  /\ \A g \in Clients : g # h => /\ hpc'[g] = hpc[g] /\ hfd'[g] = hfd[g]
                                 /\ hpos'[g] = hpos[g] /\ hreq'[g] = hreq[g]
  /\ hpc[h] \in Late => hpc'[h] \in Late /\ hfd'[h] = hfd[h]
  /\ hpc'[h] = "copy" => /\ hpc[h] = "copy" /\ hfd'[h] = hfd[h]
                         /\ hpos'[h] = hpos[h] /\ hreq'[h] = hreq[h]

\* What a step of a handler that writes nothing changes.
LEMMA SilentSteps ==
  ASSUME NEW h \in Clients, StreamInv, HandlerStep(h),
         ~(Reject(h) \/ AnswerGet(h) \/ CopyChunk(h) \/ AnswerDir(h) \/ LsWrites(h))
  PROVE  Silent(h)
<1> USE DEF At, Running, Goto, Return, connVars, procVars, threadVars, mainVars,
            handlerVars
<1>1. hpc \in [Clients -> HandlerPCs] /\ hfd \in [Clients -> Clients \cup {NoFd}]
      /\ hreq \in [Clients -> AnyRequest \cup {NoRequest}] /\ hpos \in [Clients -> Nat]
  BY DEF StreamInv, Inv, TypeOK, HandlersTypeOK
<1>2. CASE Start(h) \/ RecvRequest(h) \/ RecvEof(h) \/ RecvError(h)
  BY <1>1, <1>2 DEF Start, RecvRequest, RecvEof, RecvError, Silent, Late
<1>3. CASE Dispatch(h)
  <2>1. NextPc(hreq[h]) \in {"answer", "reject", "list", "scan", "exit"}
    BY DEF NextPc
  <2>2. hpc[h] = "dispatch" /\ hpc'[h] \in {"answer", "reject", "list", "scan", "exit"}
    BY <1>1, <1>3, <2>1 DEF Dispatch
  <2> QED
    BY <1>1, <1>3, <2>2 DEF Dispatch, Silent, Late
<1>4. CASE ExitProcess(h) \/ CopyFails(h) \/ CopyDone(h) \/ ExecLs(h)
  BY <1>1, <1>4 DEF ExitProcess, CopyFails, CopyDone, ExecLs, Silent, Late
<1>7. CASE DupOut(h) \/ DupErr(h)
  BY <1>1, <1>7 DEF DupOut, DupErr, Dup, Silent, Late
<1>5. CASE ScanFree(h) \/ ScanTaken(h) \/ ScanFull(h) \/ Store(h)
  BY <1>1, <1>5 DEF ScanFree, ScanTaken, ScanFull, Store, Silent, Late
<1>6. CASE HandlerWriteFails(h)
  BY <1>1, <1>6 DEF HandlerWriteFails, Silent, Late
<1> QED
  BY <1>2, <1>3, <1>4, <1>5, <1>6, <1>7 DEF HandlerStep

\* A handler that writes nothing keeps every stream.
LEMMA SilentStreams ==
  ASSUME NEW h \in Clients, StreamInv, Silent(h), UNCHANGED snifferVars
  PROVE  Streams'
<1> SUFFICES ASSUME NEW c \in Clients, conn'[c] # "gone"
             PROVE  Stream(c)'
  BY DEF Streams
<1>1. conn' = conn /\ asked' = asked /\ outbox' = outbox
  BY DEF Silent
<1>2. Stream(c)
  BY <1>1 DEF StreamInv, Streams
<1>3. SameSenders(c)
  BY DEF Silent, SameSenders, snifferVars
<1> QED
  BY <1>1, <1>2, <1>3, StreamKept

\* Where a handler goes depends on the kind of its request.
LEMMA HandlerKinds ==
  ASSUME NEW h \in Clients, TypeOK, Kinds, HandlerStep(h)
  PROVE  Kinds'
<1> USE DEF At, Running, Goto, Return, connVars, procVars, threadVars, mainVars,
            handlerVars
<1>1. hpc \in [Clients -> HandlerPCs]
      /\ hreq \in [Clients -> AnyRequest \cup {NoRequest}]
  BY DEF TypeOK, HandlersTypeOK
<1>2. CASE Dispatch(h)
  <2>1. /\ NextPc(hreq[h]) \in {"reject", "answer", "copy"} => hreq[h].kind = REQUEST_GET
        /\ NextPc(hreq[h]) \in ListingPCs => hreq[h].kind = REQUEST_DIR
    BY DEF NextPc, ListingPCs
  <2> QED
    BY <1>1, <1>2, <2>1 DEF Dispatch, Kinds
<1>3. CASE Start(h) \/ RecvRequest(h) \/ RecvEof(h) \/ RecvError(h) \/ ExitProcess(h)
  BY <1>1, <1>3 DEF Start, RecvRequest, RecvEof, RecvError, ExitProcess, Kinds,
                     ListingPCs
<1>4. CASE Reject(h) \/ AnswerGet(h) \/ CopyChunk(h) \/ CopyFails(h) \/ CopyDone(h)
  BY <1>1, <1>4 DEF Reject, AnswerGet, CopyChunk, CopyFails, CopyDone, Kinds,
                     ListingPCs
<1>5. CASE AnswerDir(h) \/ DupOut(h) \/ DupErr(h) \/ ExecLs(h) \/ LsWrites(h)
           \/ HandlerWriteFails(h)
  BY <1>1, <1>5 DEF AnswerDir, DupOut, DupErr, Dup, ExecLs, LsWrites,
                     HandlerWriteFails, Kinds, ListingPCs
<1>6. CASE ScanFree(h) \/ ScanTaken(h) \/ ScanFull(h) \/ Store(h)
  BY <1>1, <1>6 DEF ScanFree, ScanTaken, ScanFull, Store, Kinds, ListingPCs
<1> QED
  BY <1>2, <1>3, <1>4, <1>5, <1>6 DEF HandlerStep

\* Every step of a handler keeps the invariant.
LEMMA HandlerStreams ==
  ASSUME NEW h \in Clients, StreamInv, HandlerStep(h), UNCHANGED snifferVars
  PROVE  Kinds' /\ Routed' /\ Delivering' /\ Streams'
<1>1. Kinds'
  BY HandlerKinds DEF StreamInv, Inv
<1>2. conn' = conn /\ asked' = asked
  BY DEF HandlerStep, Start, RecvRequest, RecvEof, RecvError, Dispatch, ExitProcess,
         Reject, AnswerGet, CopyChunk, CopyFails, CopyDone, AnswerDir, DupOut,
         DupErr, Dup, ExecLs, LsWrites, ScanFree, ScanTaken, ScanFull, Store, HandlerWriteFails, connVars
<1>3. Routed' /\ Delivering'
  BY <1>2 DEF StreamInv, Routed, Delivering, snifferVars
<1>4. Streams'
  <2>1. CASE LsWrites(h)
    <3>1. /\ std[1] \in Clients /\ Write(std[1], Listing) /\ proc = "ls"
          /\ proc' = "exited" /\ UNCHANGED handlerVars
      BY <2>1 DEF LsWrites, Exit, StreamInv, Inv, TypeOK, HandlersTypeOK
    <3> QED
      BY <1>2, <3>1, PrintedStreams
  <2> QED
    BY <2>1, HandlerSends, SilentSteps, SilentStreams
<1> QED
  BY <1>1, <1>3, <1>4

-----------------------------------------------------------------------------
(* The capture thread *)

\* What it writes goes to a client that asked for it, whose handler has returned.
LEMMA SnifferSends ==
  ASSUME StreamInv, NEW item \in Items, Write(sfd, item), sfd \in Clients,
         UNCHANGED <<handlerVars, conn, asked, frame, proc>>,
         spc \in {"header", "body"}, spc' \in {"body", "scan"},
         spc = "header" => spc' = "body" /\ sfd' = sfd
                           /\ item = Answer(ANSWER_OK, SentSize(frame)),
         spc = "body" => spc' = "scan" /\ sfd' = NoFd /\ item = Packet(frame)
  PROVE  Streams'
<1> SUFFICES ASSUME NEW c \in Clients, conn'[c] # "gone"
             PROVE  Stream(c)'
  BY DEF Streams
<1> DEFINE s == outbox[c]
<1>1. Stream(c) /\ conn[c] # "gone" /\ s \in Seq(Items)
      /\ conn' = conn /\ asked' = asked /\ frame' = frame /\ proc' = proc
      /\ hpc' = hpc /\ hfd' = hfd /\ hreq' = hreq /\ hpos' = hpos
  BY DEF StreamInv, Streams, Inv, TypeOK, ProcessTypeOK, handlerVars, threadVars
<1>2. sfd # NoFd /\ NoFd \notin Clients
  BY Assumptions DEF AllAssumptions, ProcessAssumption
<1>3. CASE c # sfd
  <2>1. outbox'[c] = outbox[c]
    BY <1>3 DEF Write, StreamInv, Inv, TypeOK, ProcessTypeOK
  <2>2. sfd' # c
    BY <1>2, <1>3
  <2>3. SameSenders(c)
    BY <1>1, <1>3, <2>2 DEF SameSenders
  <2> QED
    BY <1>1, <2>1, <2>3, StreamKept
<1>4. CASE c = sfd
  <2>1. conn[c] = "open" /\ outbox'[c] = Append(s, item)
    BY <1>1, <1>4 DEF Write, StreamInv, Inv, TypeOK, ProcessTypeOK
  <2>2. /\ asked[c] # NoRequest /\ asked[c].kind = REQUEST_SNIFF
        /\ Head(route) = TableOf[asked[c].path]
    BY <1>2, <1>4, <2>1 DEF StreamInv, Delivering
  <2>3. PICK g \in Clients : hfd[g] = c /\ hpc[g] = "done"
    BY <1>4, <2>1 DEF StreamInv, Inv, Registered
  <2>4. \A h \in Clients : ~(hfd[h] = c /\ hpc[h] = "copy")
    BY <2>1, <2>3, TheHandler DEF StreamInv, Late
  <2>5. outbox'[c] # << >> /\ LastOf(outbox'[c]) = item
    BY <1>1, <2>1, Appended
  <2>6. ASSUME s # << >> PROVE MayFollow(asked[c], LastOf(s), item)
    <3>1. CASE spc = "header"
      <4>1. LastOf(s).tag = "packet" /\ item.tag = "answer"
        BY <1>1, <2>2, <2>6, <3>1 DEF Stream, SniffEnd, Answer
      <4> QED
        BY <2>2, <4>1 DEF MayFollow
    <3>2. CASE spc = "body"
      <4>1. LastOf(s) = Answer(ANSWER_OK, SentSize(frame))
        BY <1>1, <1>4, <2>2, <2>6, <3>2 DEF Stream, SniffEnd
      <4>2. item.tag = "packet" /\ item.frame = frame
        BY <3>2 DEF Packet
      <4>3. route \in Seq(Tables) /\ route # << >>
        BY <3>2 DEF StreamInv, Inv, TypeOK, SnifferTypeOK
      <4>4. 1 \in DOMAIN route /\ Head(route) = route[1]
        BY <4>3
      <4>5. \E i \in DOMAIN Route(frame) : Route(frame)[i] = TableOf[asked[c].path]
        BY <2>2, <3>2, <4>4 DEF StreamInv, Routed
      <4> QED
        BY <2>2, <4>1, <4>2, <4>5 DEF MayFollow
    <3> QED
      BY <3>1, <3>2
  <2>7. Begun(c)'
    BY <1>1, <2>2, <2>3 DEF Begun, Late
  <2>8. Chained(c)'
    <3>1. \A i \in 1..(Len(s) - 1) : MayFollow(asked[c], s[i], s[i + 1])
      BY <1>1 DEF Stream, Chained
    <3>2. \A i \in 1..(Len(Append(s, item)) - 1) :
            MayFollow(asked[c], Append(s, item)[i], Append(s, item)[i + 1])
      BY <1>1, <2>6, <3>1, ChainGrows
    <3> QED
      BY <1>1, <2>1, <3>2 DEF Chained
  <2>9. SniffEnd(c)'
    <3>1. CASE spc = "header"
      BY <1>1, <1>4, <2>5, <3>1 DEF SniffEnd
    <3>2. CASE spc = "body"
      <4>1. spc' = "scan" /\ item.tag = "packet"
        BY <3>2 DEF Packet
      <4> QED
        BY <2>5, <4>1 DEF SniffEnd
    <3> QED
      BY <3>1, <3>2
  <2>10. CopyEnd(c)' /\ ListEnd(c)'
    BY <1>1, <2>2, <2>4 DEF CopyEnd, ListEnd, REQUEST_DIR, REQUEST_SNIFF
  <2> QED
    BY <2>7, <2>8, <2>9, <2>10 DEF Stream
<1> QED
  BY <1>3, <1>4

\* What it does between two writes leaves the streams alone.
LEMMA SnifferSilent ==
  ASSUME StreamInv, UNCHANGED <<handlerVars, conn, asked, outbox>>,
         proc' = proc \/ proc' = "exited", proc = "run",
         \/ UNCHANGED snifferVars
         \/ spc # "body" /\ spc' # "body"
  PROVE  Streams'
<1> SUFFICES ASSUME NEW c \in Clients, conn'[c] # "gone"
             PROVE  Stream(c)'
  BY DEF Streams
<1>1. Stream(c)
  BY DEF StreamInv, Streams
<1>2. SameSenders(c)
  BY DEF SameSenders, snifferVars, handlerVars, threadVars
<1> QED
  BY <1>1, <1>2, StreamKept

\* What is left of a route when a table has been served.
LEMMA RestOfRoute ==
  ASSUME TypeOK, Routed, spc = "scan"
  PROVE  \A i \in DOMAIN Tail(route) :
           \E j \in DOMAIN Route(frame) : Route(frame)[j] = Tail(route)[i]
<1>1. route \in Seq(Tables) /\ route # << >>
  BY DEF TypeOK, SnifferTypeOK
<1>2. \A i \in DOMAIN Tail(route) :
        i + 1 \in DOMAIN route /\ Tail(route)[i] = route[i + 1]
  BY <1>1
<1> QED
  BY <1>2 DEF Routed

\* The capture thread walks the route of the frame it holds.
LEMMA SnifferRouted ==
  ASSUME TypeOK, Routed, SnifferStep
  PROVE  Routed'
<1>1. CASE OpenDevice \/ Capture
  BY <1>1 DEF OpenDevice, Capture, Routed
<1>2. CASE Classify
  BY <1>2 DEF Classify, DeliverTo, Routed
<1>3. CASE NextTable
  <2>1. spc = "scan" /\ DeliverTo(Tail(route))
    BY <1>3 DEF NextTable
  <2>2. \A i \in DOMAIN Tail(route) :
          \E j \in DOMAIN Route(frame) : Route(frame)[j] = Tail(route)[i]
    BY <2>1, RestOfRoute
  <2> QED
    BY <2>1, <2>2 DEF DeliverTo, Routed
<1>4. CASE SkipSlot \/ TakeSlot
  BY <1>4 DEF SkipSlot, TakeSlot, Routed
<1>5. CASE WriteHeader \/ WriteBody
  BY <1>5 DEF WriteHeader, WriteBody, Routed
<1>6. CASE SnifferWriteFails
  BY <1>6 DEF SnifferWriteFails, snifferVars, Routed
<1> QED
  BY <1>1, <1>2, <1>3, <1>4, <1>5, <1>6 DEF SnifferStep, Deliver

\* The capture thread takes a descriptor from the table it delivers to.
LEMMA SnifferDelivering ==
  ASSUME Inv, Delivering, SnifferStep
  PROVE  Delivering'
<1> USE DEF connVars
<1>1. CASE TakeSlot
  <2>1. /\ Head(route) \in Tables /\ si \in Slots /\ spc' = "header"
        /\ sfd' = tab[Head(route)][si] /\ sfd' # Empty /\ sfd' \in Clients
        /\ UNCHANGED <<conn, asked, route>>
    BY <1>1, Assumptions
    DEF TakeSlot, Slots, Inv, TypeOK, ProcessTypeOK, SnifferTypeOK, AllAssumptions,
        ProcessAssumption
  <2>2. conn[sfd'] = "open" => /\ asked[sfd'] # NoRequest
                               /\ asked[sfd'].kind = REQUEST_SNIFF
                               /\ Head(route) = TableOf[asked[sfd'].path]
    BY <2>1 DEF Inv, RegisteredOnce
  <2> QED
    BY <2>1, <2>2 DEF Delivering
<1>2. CASE OpenDevice \/ Capture \/ SkipSlot
  BY <1>2 DEF OpenDevice, Capture, SkipSlot, Delivering
<1>3. CASE Classify \/ NextTable
  BY <1>3 DEF Classify, NextTable, Delivering
<1>4. CASE WriteHeader
  BY <1>4 DEF WriteHeader, Delivering
<1>5. CASE WriteBody
  BY <1>5 DEF WriteBody, Delivering
<1>6. CASE SnifferWriteFails
  BY <1>6 DEF SnifferWriteFails, snifferVars, Delivering
<1> QED
  BY <1>1, <1>2, <1>3, <1>4, <1>5, <1>6 DEF SnifferStep, Deliver

\* Every step of the capture thread keeps the invariant.
LEMMA SnifferStreams ==
  ASSUME StreamInv, SnifferStep, UNCHANGED handlerVars
  PROVE  Kinds' /\ Routed' /\ Delivering' /\ Streams'
<1> USE DEF connVars, procVars, Running
<1>1. Kinds'
  BY DEF StreamInv, Kinds, handlerVars, threadVars
<1>2. Routed' /\ Delivering'
  BY SnifferRouted, SnifferDelivering DEF StreamInv, Inv
<1>3. CASE WriteHeader
  <2> DEFINE item == Answer(ANSWER_OK, SentSize(frame))
  <2>1. sfd \in Clients /\ frame \in Frames
    BY <1>3 DEF WriteHeader, StreamInv, Inv, TypeOK, SnifferTypeOK
  <2>2. SentSize(frame) \in Nat
    BY <2>1, SentSizeType
  <2>3. item \in Items
    BY <2>2, ItemTypes
  <2>4. /\ Write(sfd, item) /\ spc = "header" /\ spc' = "body" /\ sfd' = sfd
        /\ UNCHANGED <<conn, asked, frame, proc>>
    BY <1>3 DEF WriteHeader
  <2>5. item = Answer(ANSWER_OK, SentSize(frame))
    OBVIOUS
  <2> HIDE DEF item
  <2> QED
    BY <1>1, <1>2, <2>1, <2>3, <2>4, <2>5, SnifferSends
<1>4. CASE WriteBody
  <2> DEFINE item == Packet(frame)
  <2>1. sfd \in Clients /\ frame \in Frames
    BY <1>4 DEF WriteBody, StreamInv, Inv, TypeOK, SnifferTypeOK
  <2>2. item \in Items
    BY <2>1, ItemTypes
  <2>3. /\ Write(sfd, item) /\ spc = "body" /\ spc' = "scan" /\ sfd' = NoFd
        /\ UNCHANGED <<conn, asked, frame, proc>>
    BY <1>4 DEF WriteBody
  <2>4. item = Packet(frame)
    OBVIOUS
  <2> HIDE DEF item
  <2> QED
    BY <1>1, <1>2, <2>1, <2>2, <2>3, <2>4, SnifferSends
<1>5. CASE OpenDevice \/ Capture \/ SkipSlot \/ TakeSlot
  <2>1. /\ spc # "body" /\ spc' # "body" /\ proc = "run"
        /\ proc' = proc \/ proc' = "exited"
        /\ UNCHANGED <<conn, asked, outbox>>
    BY <1>5 DEF OpenDevice, Capture, SkipSlot, TakeSlot, Exit
  <2> QED
    BY <1>1, <1>2, <2>1, SnifferSilent
<1>6. CASE Classify \/ NextTable
  <2>1. /\ spc # "body" /\ spc' # "body" /\ proc = "run" /\ proc' = proc
        /\ UNCHANGED <<conn, asked, outbox>>
    BY <1>6 DEF Classify, NextTable, DeliverTo
  <2> QED
    BY <1>1, <1>2, <2>1, SnifferSilent
<1>7. CASE SnifferWriteFails
  <2>1. /\ UNCHANGED snifferVars /\ proc = "run" /\ proc' = "exited"
        /\ UNCHANGED <<conn, asked, outbox>>
    BY <1>7 DEF SnifferWriteFails, WriteFails, Exit
  <2> QED
    BY <1>1, <1>2, <2>1, SnifferSilent
<1> QED
  BY <1>1, <1>2, <1>3, <1>4, <1>5, <1>6, <1>7 DEF SnifferStep, Deliver

-----------------------------------------------------------------------------
(* What the threads print, main and the clients *)

\* Every print keeps the invariant.
LEMMA PrintStreams ==
  ASSUME NEW n \in {1, 2}, StreamInv, PrintOn(n)
  PROVE  Kinds' /\ Routed' /\ Delivering' /\ Streams'
<1>1. /\ UNCHANGED <<conn, asked, handlerVars, snifferVars>> /\ proc = "run"
      /\ std[n] \in Clients
  BY DEF PrintOn, Running, StreamInv, Inv, TypeOK, HandlersTypeOK
<1>2. Kinds' /\ Routed' /\ Delivering'
  BY <1>1 DEF StreamInv, Kinds, Routed, Delivering, handlerVars, threadVars, snifferVars
<1>3. CASE Write(std[n], Text)
  <2>1. Text # Listing
    BY DEF Text, Listing
  <2> QED
    BY <1>1, <1>2, <1>3, <2>1, PrintedStreams
<1>4. CASE WriteFails(std[n]) /\ UNCHANGED outbox
  <2>1. proc' = "exited" /\ UNCHANGED outbox
    BY <1>4 DEF WriteFails, Exit
  <2> QED
    BY <1>1, <1>2, <2>1, SnifferSilent
<1> QED
  BY <1>3, <1>4 DEF PrintOn


\* Every step of the accept loop keeps the invariant.
LEMMA MainStreams ==
  ASSUME StreamInv, MainStep, UNCHANGED snifferVars
  PROVE  Kinds' /\ Routed' /\ Delivering' /\ Streams'
<1> USE DEF connVars, procVars, threadVars, Running
<1>1. /\ UNCHANGED <<conn, asked, outbox, hfd, hreq, hpos>>
      /\ proc = "run"
      /\ \A g \in Clients : hpc'[g] = hpc[g] \/ (hpc[g] = "none" /\ hpc'[g] = "start")
  <2>1. CASE Setup \/ Accept \/ AcceptFails
    BY <2>1 DEF Setup, Accept, AcceptFails
  <2>2. CASE Spawn
    <3>1. hpc[client] = "none" /\ client \in Clients
      BY <2>2 DEF Spawn, StreamInv, Inv, Created, TypeOK, HandlersTypeOK
    <3> QED
      BY <2>2, <3>1 DEF Spawn, StreamInv, Inv, TypeOK, HandlersTypeOK
  <2> QED
    BY <2>1, <2>2 DEF MainStep
<1>2. Kinds'
  BY <1>1 DEF StreamInv, Kinds, ListingPCs
<1>3. Routed' /\ Delivering'
  BY <1>1 DEF StreamInv, Routed, Delivering, snifferVars
<1>4. Streams'
  <2> SUFFICES ASSUME NEW c \in Clients, conn'[c] # "gone"
               PROVE  Stream(c)'
    BY DEF Streams
  <2>1. Stream(c)
    BY <1>1 DEF StreamInv, Streams
  <2>2. SameSenders(c)
    BY <1>1 DEF SameSenders, snifferVars, Late
  <2> QED
    BY <1>1, <2>1, <2>2, StreamKept
<1> QED
  BY <1>2, <1>3, <1>4

\* Every step of a client keeps the invariant.
LEMMA ClientStreams ==
  ASSUME NEW d \in Clients, StreamInv, ClientMoves(d),
         UNCHANGED <<handlerVars, snifferVars>>
  PROVE  Kinds' /\ Routed' /\ Delivering' /\ Streams'
<1> USE DEF procVars
<1>1. /\ hpc' = hpc /\ hfd' = hfd /\ hreq' = hreq /\ hpos' = hpos /\ proc' = proc
      /\ spc' = spc /\ sfd' = sfd /\ frame' = frame /\ route' = route
  BY DEF handlerVars, threadVars, snifferVars, ClientMoves, Arrive, Connect,
         SendRequest, ReadItem, Leave
<1>2. Kinds' /\ Routed'
  BY <1>1 DEF StreamInv, Kinds, Routed
<1>3. /\ \A c \in Clients : conn'[c] = "open" => conn[c] = "open" \/ conn[c] = "idle"
      /\ \A c \in Clients : conn'[c] # "gone" => conn[c] # "gone"
      /\ \A c \in Clients : asked[c] # NoRequest => asked'[c] = asked[c]
  BY DEF ClientMoves, Arrive, Connect, SendRequest, ReadItem, Leave, StreamInv, Inv,
         TypeOK, ProcessTypeOK
<1>4. Delivering'
  <2> SUFFICES ASSUME sfd # NoFd
               PROVE  /\ spc \in {"header", "body"}
                      /\ conn'[sfd] = "open" => /\ asked'[sfd] # NoRequest
                                                /\ asked'[sfd].kind = REQUEST_SNIFF
                                                /\ Head(route) = TableOf[asked'[sfd].path]
    BY <1>1 DEF Delivering
  <2>1. sfd \in Clients /\ conn[sfd] # "idle"
    BY DEF StreamInv, Inv, Known, TypeOK, SnifferTypeOK
  <2> QED
    BY <1>3, <2>1 DEF StreamInv, Delivering
<1>5. Streams'
  <2> SUFFICES ASSUME NEW c \in Clients, conn'[c] # "gone"
               PROVE  Stream(c)'
    BY DEF Streams
  <2>1. Stream(c) /\ outbox[c] \in Seq(Items)
    BY <1>3 DEF StreamInv, Streams, Inv, TypeOK, ProcessTypeOK
  <2>2. CASE outbox'[c] = outbox[c]
    <3>1. SameSenders(c)
      BY <1>1 DEF SameSenders
    <3>2. outbox[c] # << >> => asked'[c] = asked[c]
      BY <1>3, <2>1 DEF Stream, Begun
    <3> QED
      BY <2>1, <2>2, <3>1, <3>2, StreamKept
  <2>3. CASE outbox'[c] # outbox[c]
    <3>1. outbox[c] # << >> /\ outbox'[c] = Tail(outbox[c]) /\ asked' = asked
      BY <2>3 DEF ClientMoves, Arrive, Connect, SendRequest, ReadItem, Leave, StreamInv,
                  Inv, TypeOK, ProcessTypeOK
    <3>2. /\ Len(outbox'[c]) = Len(outbox[c]) - 1 /\ Len(outbox[c]) \in Nat
          /\ \A i \in 1..(Len(outbox[c]) - 1) : outbox'[c][i] = outbox[c][i + 1]
          /\ outbox'[c] # << >> => LastOf(outbox'[c]) = LastOf(outbox[c])
      BY <2>1, <3>1, Rest
    <3>3. Chained(c)'
      <4> SUFFICES ASSUME NEW i \in 1..(Len(outbox'[c]) - 1)
                   PROVE  MayFollow(asked[c], outbox'[c][i], outbox'[c][i + 1])
        BY <3>1 DEF Chained
      <4>1. /\ i + 1 \in 1..(Len(outbox[c]) - 1) /\ i \in 1..(Len(outbox[c]) - 1)
            /\ (i + 1) + 1 = i + 2
        BY <3>2
      <4>2. MayFollow(asked[c], outbox[c][i + 1], outbox[c][(i + 1) + 1])
        BY <2>1, <4>1 DEF Stream, Chained
      <4>3. outbox'[c][i] = outbox[c][i + 1] /\ outbox'[c][i + 1] = outbox[c][(i + 1) + 1]
        BY <3>2, <4>1
      <4> QED
        BY <4>2, <4>3
    <3>4. Begun(c)' /\ SniffEnd(c)' /\ CopyEnd(c)' /\ ListEnd(c)'
      BY <1>1, <2>1, <3>1, <3>2 DEF Stream, Begun, SniffEnd, CopyEnd, ListEnd
    <3> QED
      BY <3>3, <3>4 DEF Stream
  <2> QED
    BY <2>2, <2>3
<1> QED
  BY <1>2, <1>4, <1>5

-----------------------------------------------------------------------------
(* The theorem *)

\* The invariant holds at first,
LEMMA InitStreams == Init => StreamInv
<1> SUFFICES ASSUME Init
             PROVE  StreamInv
  OBVIOUS
<1>1. Kinds /\ Routed /\ Delivering
  BY DEF Init, ProcessInit, HandlersInit, SnifferInit, Kinds, ListingPCs, Routed,
         Delivering
<1>2. ASSUME NEW c \in Clients PROVE Stream(c)
  <2>1. outbox[c] = << >> /\ Len(outbox[c]) = 0
    BY DEF Init, ProcessInit
  <2>2. Chained(c)
    BY <2>1 DEF Chained
  <2> QED
    BY <2>1, <2>2 DEF Stream, Begun, SniffEnd, CopyEnd, ListEnd
<1>3. Streams
  BY <1>2 DEF Streams
<1> QED
  BY <1>1, <1>3, InitInv DEF StreamInv

\* and every step keeps it, also those of clients once the process exited.
LEMMA StepStreams == StreamInv /\ [AnyNext]_vars => StreamInv'
<1> SUFFICES ASSUME StreamInv, [AnyNext]_vars
             PROVE  StreamInv'
  OBVIOUS
<1>1. Inv'
  BY StepInv DEF StreamInv
<1>2. Kinds' /\ Routed' /\ Delivering' /\ Streams'
  <2>1. CASE UNCHANGED vars
    <3>1. Kinds' /\ Routed' /\ Delivering'
      BY <2>1 DEF StreamInv, Kinds, Routed, Delivering, vars, procVars, connVars,
                  handlerVars, threadVars, snifferVars
    <3>2. ASSUME NEW c \in Clients, conn'[c] # "gone" PROVE Stream(c)'
      <4>1. Stream(c) /\ SameSenders(c) /\ outbox' = outbox /\ asked' = asked
        BY <2>1, <3>2 DEF StreamInv, Streams, SameSenders, vars, procVars, connVars,
                          handlerVars, threadVars, snifferVars
      <4> QED
        BY <4>1, StreamKept
    <3> QED
      BY <3>1, <3>2 DEF Streams
  <2> QED
    BY <2>1, HandlerStreams, MainStreams, SnifferStreams, PrintStreams, ClientStreams
    DEF AnyNext
<1> QED
  BY <1>1, <1>2 DEF StreamInv

\* What a connected client has been sent and has not read is a piece of the one
\* stream its request calls for: an answer and the file; an answer, what the
\* threads print and a listing; or headers each with its frame, although no lock
\* protects a socket.
THEOREM StreamsFramed == Spec => []StreamFramed
<1>1. StreamInv => StreamFramed
  <2> SUFFICES ASSUME StreamInv, NEW c \in Clients, conn[c] = "open", outbox[c] # << >>
               PROVE  /\ asked[c] # NoRequest
                      /\ \A i \in 1..(Len(outbox[c]) - 1) :
                           MayFollow(asked[c], outbox[c][i], outbox[c][i + 1])
                      /\ asked[c].kind = REQUEST_SNIFF
                         /\ outbox[c][Len(outbox[c])].tag = "answer" =>
                           spc = "body" /\ sfd = c
    BY DEF StreamFramed
  <2>1. Stream(c)
    BY DEF StreamInv, Streams
  <2>2. asked[c] # NoRequest
    BY <2>1 DEF Stream, Begun
  <2>3. \A i \in 1..(Len(outbox[c]) - 1) :
          MayFollow(asked[c], outbox[c][i], outbox[c][i + 1])
    BY <2>1 DEF Stream, Chained
  <2>4. ASSUME asked[c].kind = REQUEST_SNIFF, outbox[c][Len(outbox[c])].tag = "answer"
        PROVE  spc = "body" /\ sfd = c
    BY <2>1, <2>4 DEF Stream, SniffEnd, LastOf
  <2> QED
    BY <2>2, <2>3, <2>4
<1>2. Spec => []StreamInv
  BY InitStreams, StepStreams, NextIsAny, PTL DEF Spec
<1> QED
  BY <1>1, <1>2, PTL
=============================================================================
