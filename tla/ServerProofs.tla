---------------------------- MODULE ServerProofs ----------------------------
(***************************************************************************)
(* What the server keeps for any number of clients, any size of its tables *)
(* and buffers, and any files, requests and frames: the types of its       *)
(* variables, and that without a lock and with one variable shared between *)
(* main and its threads it still serves a request once, registers a client *)
(* once, fills its tables from the front, and never has two threads write  *)
(* to the same connected client.                                           *)
(***************************************************************************)
EXTENDS Server, TLAPS

AllAssumptions == /\ RequestsAssumption /\ ProcessAssumption
                  /\ MaxFds \in Nat /\ MaxThreads \in Nat
                  /\ NoFrame \notin AnyFrame

\* The named assumptions of the four modules, as one fact.
LEMMA Assumptions == AllAssumptions
BY RequestsAssume, ProcessAssume, HandlersAssume, SnifferAssume
DEF AllAssumptions

-----------------------------------------------------------------------------
(* Lemmas on the data *)

\* got_packet hands a frame to a sequence of tables.
LEMMA RouteType == ASSUME NEW f \in Frames PROVE Route(f) \in Seq(Tables)
<1>1. f \in AnyFrame
  BY Assumptions DEF AllAssumptions, ProcessAssumption, Capturable
<1>2. f.ether \in {"IP", "ARP", "RARP"}
      /\ f.proto \in {"tcp", "udp", "icmp", "igmp", "other"}
  BY <1>1 DEF AnyFrame
<1>3. EtherTable[f.ether] \in Seq(Tables)
  <2>1. <<"IP">> \in Seq(Tables) /\ <<"ARP">> \in Seq(Tables) /\ << >> \in Seq(Tables)
    BY DEF Tables
  <2>2. CASE f.ether = "IP"
    BY <2>1, <2>2 DEF EtherTable
  <2>3. CASE f.ether = "ARP"
    BY <2>1, <2>3 DEF EtherTable
  <2>4. CASE f.ether = "RARP"
    BY <2>1, <2>4 DEF EtherTable
  <2> QED
    BY <1>2, <2>2, <2>3, <2>4
<1>4. ProtoTable[f.proto] \in Seq(Tables)
  <2>1. /\ <<"TCP">> \in Seq(Tables) /\ <<"UDP">> \in Seq(Tables)
        /\ <<"ICMP">> \in Seq(Tables) /\ <<"IGMP">> \in Seq(Tables)
        /\ << >> \in Seq(Tables)
    BY DEF Tables
  <2>2. CASE f.proto = "tcp"
    BY <2>1, <2>2 DEF ProtoTable
  <2>3. CASE f.proto = "udp"
    BY <2>1, <2>3 DEF ProtoTable
  <2>4. CASE f.proto = "icmp"
    BY <2>1, <2>4 DEF ProtoTable
  <2>5. CASE f.proto = "igmp"
    BY <2>1, <2>5 DEF ProtoTable
  <2>6. CASE f.proto = "other"
    BY <2>1, <2>6 DEF ProtoTable
  <2> QED
    BY <1>2, <2>2, <2>3, <2>4, <2>5, <2>6
<1> DEFINE e == EtherTable[f.ether]
           p == ProtoTable[f.proto]
<1>5. Route(f) = << >> \/ Route(f) = e \o p
  BY DEF Route
<1> HIDE DEF e, p
<1>6. e \o p \in Seq(Tables) /\ << >> \in Seq(Tables)
  BY <1>3, <1>4 DEF e, p
<1> QED
  BY <1>5, <1>6

\* Reading a length in the wrong byte order yields a length.
LEMMA Swap16Type == ASSUME NEW n \in Word16 PROVE Swap16(n) \in Nat
<1> DEFINE low == n % 256
           high == n \div 256
<1>1. n \in Nat
  BY DEF Word16
<1>2. low \in Nat
  BY <1>1, SMTT(30)
<1>3. high \in Nat
  BY <1>1, SMTT(30)
<1> HIDE DEF low, high
<1>4. low * 256 + high \in Nat
  BY <1>2, <1>3
<1> QED
  BY <1>4 DEF Swap16, low, high

\* The size got_packet announces is a natural number.
LEMMA SentSizeType == ASSUME NEW f \in Frames PROVE SentSize(f) \in Nat
<1>1. f \in AnyFrame
  BY Assumptions DEF AllAssumptions, ProcessAssumption, Capturable
<1>2. f.len \in Word16
  BY <1>1 DEF AnyFrame
<1> QED
  BY <1>2, Swap16Type DEF SentSize, SIZE_ETHERNET

\* What the server writes are items.
LEMMA ItemTypes ==
  /\ \A n \in Nat : /\ Answer(ANSWER_OK, n) \in Items
                    /\ Answer(ANSWER_ERROR, n) \in Items
  /\ \A p \in Paths, n \in Nat : Chunk(p, n) \in Items
  /\ \A f \in Frames : Packet(f) \in Items
  /\ Listing \in Items /\ Text \in Items
BY DEF Answer, Chunk, Packet, Listing, Text, Items

\* A write keeps the streams' type.
LEMMA WriteType ==
  ASSUME NEW c \in Clients, NEW item \in Items,
         outbox \in [Clients -> Seq(Items)], Write(c, item)
  PROVE  outbox' \in [Clients -> Seq(Items)]
<1>1. CASE UNCHANGED outbox
  BY <1>1
<1>2. CASE outbox' = [outbox EXCEPT ![c] = Append(@, item)]
  <2>1. Append(outbox[c], item) \in Seq(Items)
    OBVIOUS
  <2> QED
    BY <1>2, <2>1
<1> QED
  BY <1>1, <1>2 DEF Write

\* The files that can be opened have a length.
LEMMA FileSizeType ==
  ASSUME NEW p \in DOMAIN FileSize PROVE p \in Paths /\ FileSize[p] \in Nat
BY Assumptions DEF AllAssumptions, RequestsAssumption

\* A protocol is registered in one of the tables.
LEMMA TableOfType == ASSUME NEW p \in Protocols PROVE TableOf[p] \in Tables
BY DEF TableOf, Tables, Protocols

-----------------------------------------------------------------------------
(* Type correctness *)

\* The initial state is typed.
LEMMA InitType == Init => TypeOK
<1> SUFFICES ASSUME Init PROVE TypeOK
  OBVIOUS
<1> USE Assumptions DEF AllAssumptions
<1>1. ProcessTypeOK
  BY DEF Init, ProcessInit, ProcessTypeOK, Slots, ProcessAssumption
<1>2. HandlersTypeOK
  BY DEF Init, HandlersInit, HandlersTypeOK, HandlerPCs, HasRequest, ListingPCs
<1>3. SnifferTypeOK
  BY DEF Init, SnifferInit, SnifferTypeOK, SnifferPCs, ProcessAssumption
<1> QED
  BY <1>1, <1>2, <1>3 DEF TypeOK

\* main keeps the types.
LEMMA MainType ==
  TypeOK /\ MainStep /\ UNCHANGED snifferVars => TypeOK'
<1> SUFFICES ASSUME TypeOK, MainStep, UNCHANGED snifferVars PROVE TypeOK'
  OBVIOUS
<1> USE DEF TypeOK, procVars, connVars, threadVars
<1>1. SnifferTypeOK'
  BY DEF SnifferTypeOK, snifferVars
<1>2. CASE Setup
  BY <1>1, <1>2 DEF Setup, Exit, ProcessTypeOK, HandlersTypeOK
<1>3. CASE Accept
  <2>1. Head(backlog) \in Clients /\ Tail(backlog) \in Seq(Clients)
    BY <1>3 DEF Accept, ProcessTypeOK
  <2> QED
    BY <1>1, <1>3, <2>1 DEF Accept, ProcessTypeOK, HandlersTypeOK
<1>4. CASE AcceptFails
  BY <1>1, <1>4 DEF AcceptFails, ProcessTypeOK, HandlersTypeOK
<1>5. CASE Spawn
  BY <1>1, <1>5 DEF Spawn, ProcessTypeOK, HandlersTypeOK, HandlerPCs, HasRequest, ListingPCs
<1> QED
  BY <1>2, <1>3, <1>4, <1>5 DEF MainStep

\* Where the switch goes suits the request.
LEMMA NextPcType ==
  ASSUME NEW r \in AnyRequest
  PROVE  /\ NextPc(r) \in {"answer", "reject", "list", "scan", "exit"}
         /\ NextPc(r) = "answer" => r.path \in DOMAIN FileSize
         /\ NextPc(r) = "scan" => r.kind = REQUEST_SNIFF /\ r.path \in Protocols
         /\ NextPc(r) = "list" => r.kind = REQUEST_DIR
BY DEF NextPc, REQUEST_GET, REQUEST_DIR, REQUEST_SNIFF

\* A handler keeps the types.
LEMMA HandlerType ==
  ASSUME NEW h \in Clients, TypeOK, HandlerStep(h), UNCHANGED snifferVars
  PROVE  TypeOK'
<1> USE DEF TypeOK, procVars, connVars, mainVars, threadVars, handlerVars, At
<1>1. SnifferTypeOK'
  BY DEF SnifferTypeOK, snifferVars
<1> USE DEF HandlersTypeOK, HandlerPCs, HasRequest, ListingPCs, Goto
<1>2. CASE Start(h)
  BY <1>1, <1>2 DEF Start, ProcessTypeOK
<1>3. CASE RecvRequest(h)
  <2>1. asked[hfd[h]] \in AnyRequest
    BY <1>3, Assumptions
    DEF RecvRequest, ProcessTypeOK, AllAssumptions, ProcessAssumption, ClientRequests
  <2>2. hfd[h] \in Clients
    BY <1>3 DEF RecvRequest, ProcessTypeOK
  <2> QED
    BY <1>1, <1>3, <2>1, <2>2 DEF RecvRequest, ProcessTypeOK
<1>4. CASE RecvEof(h)
  BY <1>1, <1>4 DEF RecvEof, ProcessTypeOK
<1>5. CASE RecvError(h)
  BY <1>1, <1>5 DEF RecvError, ProcessTypeOK
<1>6. CASE Dispatch(h)
  <2>1. hreq[h] \in AnyRequest /\ hfd[h] \in Clients
    BY <1>6 DEF Dispatch
  <2> QED
    BY <1>1, <1>6, <2>1, NextPcType DEF Dispatch, ProcessTypeOK
<1>7. CASE ExitProcess(h)
  BY <1>1, <1>7 DEF ExitProcess, Exit, ProcessTypeOK
<1>8. CASE Reject(h)
  <2>1. outbox' \in [Clients -> Seq(Items)]
    BY <1>8, WriteType, ItemTypes DEF Reject, ProcessTypeOK
  <2> QED
    BY <1>1, <1>8, <2>1 DEF Reject, ProcessTypeOK
<1>9. CASE AnswerGet(h)
  <2>1. FileSize[hreq[h].path] \in Nat
    BY <1>9, FileSizeType DEF AnswerGet
  <2>2. outbox' \in [Clients -> Seq(Items)]
    BY <1>9, <2>1, WriteType, ItemTypes DEF AnswerGet, ProcessTypeOK
  <2> QED
    BY <1>1, <1>9, <2>2 DEF AnswerGet, ProcessTypeOK
<1>10. CASE CopyChunk(h)
  <2>1. hreq[h].path \in Paths /\ hpos[h] \in Nat
    BY <1>10, FileSizeType DEF CopyChunk
  <2>2. outbox' \in [Clients -> Seq(Items)]
    BY <1>10, <2>1, WriteType, ItemTypes DEF CopyChunk, ProcessTypeOK
  <2>3. hpos' \in [Clients -> Nat] /\ \A g \in Clients : g # h => hpos'[g] = hpos[g]
    BY <1>10, <2>1 DEF CopyChunk
  <2>4. ProcessTypeOK'
    BY <1>10, <2>2 DEF CopyChunk, ProcessTypeOK
  <2>5. hpc[h] = "copy" /\ UNCHANGED <<mainVars, hpc, hfd, hreq>>
    BY <1>10 DEF CopyChunk
  <2> QED
    BY <1>1, <2>3, <2>4, <2>5
<1>11. CASE CopyFails(h)
  BY <1>1, <1>11 DEF CopyFails, ProcessTypeOK
<1>12. CASE CopyDone(h)
  BY <1>1, <1>12 DEF CopyDone, Return, ProcessTypeOK
<1>13. CASE AnswerDir(h)
  <2>1. outbox' \in [Clients -> Seq(Items)]
    BY <1>13, WriteType, ItemTypes DEF AnswerDir, ProcessTypeOK
  <2> QED
    BY <1>1, <1>13, <2>1 DEF AnswerDir, ProcessTypeOK
<1>14. CASE ExecLs(h)
  <2>1. CASE proc' = "ls" /\ UNCHANGED <<hpc, hreq, hpos>>
    BY <1>1, <1>14, <2>1 DEF ExecLs, ProcessTypeOK
  <2>2. CASE Return(h) /\ UNCHANGED proc
    BY <1>1, <1>14, <2>2 DEF ExecLs, Return, ProcessTypeOK
  <2> QED
    BY <1>14, <2>1, <2>2 DEF ExecLs
<1>15. CASE LsWrites(h)
  <2>1. outbox' \in [Clients -> Seq(Items)]
    <3>1. std[1] \in Clients /\ Write(std[1], Listing)
      BY <1>15 DEF LsWrites
    <3> QED
      BY <3>1, WriteType, ItemTypes DEF ProcessTypeOK
  <2> QED
    BY <1>1, <1>15, <2>1 DEF LsWrites, Exit, ProcessTypeOK
<1>21. CASE DupOut(h) \/ DupErr(h)
  <2>1. hfd[h] \in Clients /\ hreq[h] \in AnyRequest /\ hreq[h].kind = REQUEST_DIR
        /\ hpc[h] \in {"dupout", "duperr"}
    BY <1>21 DEF DupOut, DupErr, ListingPCs
  <2>2. /\ std' \in [{1, 2} -> Clients \cup {NoFd}]
        /\ \A g \in Clients : hpc'[g] \in {"duperr", "exec"} => std'[1] \in Clients
        /\ UNCHANGED <<procVars, connVars, mainpc, client, accepted, hfd, hreq, hpos>>
        /\ hpc' \in [Clients -> HandlerPCs]
        /\ hpc'[h] \in {"duperr", "exec"}
        /\ \A g \in Clients : g # h => hpc'[g] = hpc[g]
    BY <1>21, <2>1 DEF DupOut, DupErr, Dup
  <2>3. ProcessTypeOK'
    BY <2>2 DEF ProcessTypeOK
  <2> QED
    BY <1>1, <2>1, <2>2, <2>3 DEF ListingPCs
<1>16. CASE ScanFree(h)
  <2>1. hpos[h] \in Slots
    BY <1>16, Assumptions
    DEF ScanFree, Slots, AllAssumptions, ProcessAssumption
  <2> QED
    BY <1>1, <1>16, <2>1 DEF ScanFree, ProcessTypeOK
<1>17. CASE ScanTaken(h)
  <2>1. /\ hpos' \in [Clients -> Nat] /\ hpc[h] = "scan"
        /\ \A g \in Clients : g # h => hpos'[g] = hpos[g]
        /\ UNCHANGED <<procVars, connVars, mainVars, hpc, hfd, hreq>>
    BY <1>17 DEF ScanTaken
  <2>2. ProcessTypeOK'
    BY <2>1 DEF ProcessTypeOK
  <2> QED
    BY <1>1, <2>1, <2>2
<1>18. CASE ScanFull(h)
  BY <1>1, <1>18 DEF ScanFull, ProcessTypeOK
<1>19. CASE Store(h)
  <2>1. hfd[h] \in Clients /\ hpos[h] \in Slots /\ MyTable(h) \in Tables
    BY <1>19, TableOfType DEF Store, MyTable
  <2>2. tab' \in [Tables -> [Slots -> Clients \cup {Empty}]]
    BY <1>19, <2>1 DEF Store, ProcessTypeOK
  <2> QED
    BY <1>1, <1>19, <2>2 DEF Store, Return, ProcessTypeOK
<1>20. CASE HandlerWriteFails(h)
  BY <1>1, <1>20 DEF HandlerWriteFails, WriteFails, Exit, ProcessTypeOK
<1> QED
  BY <1>2, <1>3, <1>4, <1>5, <1>6, <1>7, <1>8, <1>9, <1>10, <1>11, <1>12,
     <1>13, <1>14, <1>15, <1>16, <1>17, <1>18, <1>19, <1>20, <1>21 DEF HandlerStep

\* The capture thread keeps the types.
LEMMA SnifferType ==
  TypeOK /\ SnifferStep /\ UNCHANGED handlerVars => TypeOK'
<1> SUFFICES ASSUME TypeOK, SnifferStep, UNCHANGED handlerVars PROVE TypeOK'
  OBVIOUS
<1> USE DEF TypeOK, procVars, connVars
<1>1. HandlersTypeOK'
  BY DEF HandlersTypeOK, handlerVars, mainVars, threadVars
<1>2. MAXCLIENTS \in Nat \ {0} /\ Slots = 0..(MAXCLIENTS - 1)
  BY Assumptions DEF AllAssumptions, ProcessAssumption, Slots
<1>3. ASSUME NEW r \in Seq(Tables), DeliverTo(r), spc \in {"classify", "scan"}
      PROVE  /\ route' \in Seq(Tables) /\ si' = 0 /\ spc' \in {"capture", "scan"}
             /\ spc' = "scan" => route' # << >> /\ frame' \in Frames
             /\ frame' \in Frames \cup {NoFrame}
  BY <1>3 DEF DeliverTo, SnifferTypeOK
<1> USE DEF SnifferTypeOK, SnifferPCs
<1>4. CASE OpenDevice
  BY <1>1, <1>4 DEF OpenDevice, Exit, ProcessTypeOK
<1>5. CASE Capture
  BY <1>1, <1>5 DEF Capture, ProcessTypeOK
<1>6. CASE Classify
  <2>1. Route(frame) \in Seq(Tables)
    BY <1>6, RouteType DEF Classify
  <2> QED
    BY <1>1, <1>2, <1>3, <1>6, <2>1 DEF Classify, ProcessTypeOK
<1>7. CASE SkipSlot
  BY <1>1, <1>2, <1>7 DEF SkipSlot, ProcessTypeOK
<1>8. CASE TakeSlot
  <2>1. Head(route) \in Tables /\ si \in Slots
    BY <1>2, <1>8 DEF TakeSlot
  <2>2. sfd' \in Clients
    BY <1>8, <2>1 DEF TakeSlot, ProcessTypeOK
  <2> QED
    BY <1>1, <1>8, <2>1, <2>2 DEF TakeSlot, ProcessTypeOK
<1>9. CASE NextTable
  <2>1. Tail(route) \in Seq(Tables)
    BY <1>9 DEF NextTable
  <2>2. DeliverTo(Tail(route)) /\ UNCHANGED <<procVars, connVars, sfd>> /\ spc = "scan"
    BY <1>9 DEF NextTable
  <2>3. /\ route' \in Seq(Tables) /\ si' = 0 /\ spc' \in {"capture", "scan"}
        /\ spc' = "scan" => route' # << >> /\ frame' \in Frames
        /\ frame' \in Frames \cup {NoFrame}
    BY <1>3, <2>1, <2>2
  <2>4. SnifferTypeOK'
    BY <1>2, <2>2, <2>3
  <2> QED
    BY <1>1, <2>2, <2>4 DEF ProcessTypeOK
<1>10. CASE WriteHeader
  <2>1. frame \in Frames /\ sfd \in Clients
    BY <1>10 DEF WriteHeader
  <2>2. outbox' \in [Clients -> Seq(Items)]
    BY <1>10, <2>1, WriteType, ItemTypes, SentSizeType DEF WriteHeader, ProcessTypeOK
  <2> QED
    BY <1>1, <1>10, <2>1, <2>2 DEF WriteHeader, ProcessTypeOK
<1>11. CASE WriteBody
  <2>1. outbox' \in [Clients -> Seq(Items)]
    BY <1>11, WriteType, ItemTypes DEF WriteBody, ProcessTypeOK
  <2> QED
    BY <1>1, <1>2, <1>11, <2>1 DEF WriteBody, ProcessTypeOK
<1>12. CASE SnifferWriteFails
  BY <1>1, <1>12 DEF SnifferWriteFails, WriteFails, Exit, snifferVars, ProcessTypeOK
<1> QED
  BY <1>4, <1>5, <1>6, <1>7, <1>8, <1>9, <1>10, <1>11, <1>12
  DEF SnifferStep, Deliver

\* What a client does, also once the server process has exited: ClientStep says
\* only that it does not matter to the process then.
ClientMoves(c) == Arrive(c) \/ SendRequest(c) \/ ReadItem(c) \/ Leave(c)

\* A client keeps the types.
LEMMA ClientType ==
  ASSUME NEW c \in Clients, TypeOK, ClientMoves(c),
         UNCHANGED <<handlerVars, snifferVars>>
  PROVE  TypeOK'
<1> USE DEF TypeOK, procVars
<1>1. HandlersTypeOK' /\ SnifferTypeOK'
  BY DEF HandlersTypeOK, handlerVars, mainVars, threadVars, SnifferTypeOK, snifferVars
<1>2. CASE Arrive(c)
  BY <1>1, <1>2 DEF Arrive, Connect, ProcessTypeOK
<1>3. CASE SendRequest(c)
  <2>1. NoRequest \notin Asks
    BY Assumptions
    DEF AllAssumptions, RequestsAssumption, ProcessAssumption, ClientRequests
  <2> QED
    BY <1>1, <1>3, <2>1 DEF SendRequest, ProcessTypeOK
<1>4. CASE ReadItem(c)
  <2>1. Tail(outbox[c]) \in Seq(Items)
    BY <1>4 DEF ReadItem, ProcessTypeOK
  <2> QED
    BY <1>1, <1>4, <2>1 DEF ReadItem, ProcessTypeOK
<1>5. CASE Leave(c)
  BY <1>1, <1>5 DEF Leave, ProcessTypeOK
<1> QED
  BY <1>2, <1>3, <1>4, <1>5 DEF ClientMoves

\* What a thread prints keeps the types.
LEMMA PrintType == ASSUME NEW n \in {1, 2}, TypeOK, PrintOn(n) PROVE TypeOK'
<1> USE DEF TypeOK, HandlersTypeOK, ProcessTypeOK
<1>1. std[n] \in Clients /\ outbox \in [Clients -> Seq(Items)]
  BY DEF PrintOn
<1>2. outbox' \in [Clients -> Seq(Items)]
  BY <1>1, WriteType, ItemTypes DEF PrintOn
<1>3. proc' \in {"run", "ls", "exited"}
  BY DEF PrintOn, WriteFails, Exit
<1>4. UNCHANGED <<tab, conn, asked, pending, backlog, handlerVars, snifferVars>>
  BY DEF PrintOn
<1>5. ProcessTypeOK'
  BY <1>2, <1>3, <1>4
<1>6. HandlersTypeOK' /\ SnifferTypeOK'
  BY <1>4 DEF SnifferTypeOK, handlerVars, mainVars, threadVars, snifferVars
<1> QED
  BY <1>5, <1>6

\* A step that changes nothing keeps the types.
LEMMA StutterType == TypeOK /\ UNCHANGED vars => TypeOK'
BY DEF TypeOK, ProcessTypeOK, HandlersTypeOK, SnifferTypeOK, vars, procVars,
       connVars, handlerVars, mainVars, threadVars, snifferVars

\* The steps of the server and of clients that go on after it.
AnyNext ==
  \/ MainStep /\ UNCHANGED snifferVars
  \/ \E h \in Clients : HandlerStep(h) /\ UNCHANGED snifferVars
  \/ SnifferStep /\ UNCHANGED handlerVars
  \/ \E n \in {1, 2} : PrintOn(n)
  \/ \E c \in Clients : ClientMoves(c) /\ UNCHANGED <<handlerVars, snifferVars>>

\* Those of the specification are among them.
LEMMA NextIsAny == [Next]_vars => [AnyNext]_vars
BY DEF Next, AnyNext, ClientStep, ClientMoves

\* Every step of the server and of its clients keeps the types.
LEMMA StepType == TypeOK /\ [AnyNext]_vars => TypeOK'
BY MainType, HandlerType, SnifferType, PrintType, ClientType, StutterType DEF AnyNext

\* Throughout every execution each variable keeps its type: the request, the
\* descriptor, the table and the frame a thread uses are there when it does.
THEOREM TypeCorrect == Spec => []TypeOK
BY InitType, StepType, NextIsAny, PTL DEF Spec

-----------------------------------------------------------------------------
(* Who has which connection, and how far a table is filled *)

\* The two halves of the invariant: who has which connection, and how far the
\* handlers that register one have scanned.
Ownership == /\ Known /\ Created /\ Received /\ ServedOnce
             /\ Registered /\ RegisteredOnce
Scanning  == Rewound /\ PrefixFilled

\* Nothing is connected, running or registered at first.
LEMMA InitInv == Init => Inv
<1> SUFFICES ASSUME Init PROVE Inv
  OBVIOUS
<1> USE Assumptions DEF AllAssumptions, Init
<1>1. TypeOK
  BY InitType
<1>2. Ownership
  BY DEF Ownership, Known, Created, Received, ServedOnce, Registered, RegisteredOnce,
         Serves, HasRequest, ListingPCs, ProcessInit, HandlersInit, SnifferInit,
         ProcessAssumption
<1>3. Scanning
  BY DEF Scanning, Rewound, PrefixFilled, ProcessInit, HandlersInit, HandlerPCs
<1>4. Redirected
  BY DEF Redirected, HandlersInit, ProcessAssumption
<1> QED
  BY <1>1, <1>2, <1>3, <1>4 DEF Inv, Ownership, Scanning

-----------------------------------------------------------------------------
(* The handlers *)

\* A step of a handler past recv that gives it no new connection and leaves the
\* tables alone.
Quiet(h) ==
  /\ UNCHANGED <<tab, conn, asked, pending, backlog, mainpc, client, accepted, hfd>>
  /\ hpc[h] \in HasRequest \cup {"exit"}
  /\ \E pc \in HasRequest \cup {"exit", "done"} :
       /\ hpc' = [hpc EXCEPT ![h] = pc]
       /\ pc \in HasRequest => hpc[h] \in HasRequest /\ hreq'[h] = hreq[h]
  /\ \A g \in Clients \ {h} : hreq'[g] = hreq[g]

\* Most actions of a handler are quiet.
LEMMA QuietSteps ==
  ASSUME NEW h \in Clients, TypeOK, HandlerStep(h),
         ~Start(h), ~RecvRequest(h), ~RecvEof(h), ~RecvError(h), ~Store(h)
  PROVE  Quiet(h)
<1> USE DEF TypeOK, HandlersTypeOK, At, Goto, procVars, connVars, mainVars,
            threadVars, handlerVars
<1>1. CASE Dispatch(h)
  <2>1. NextPc(hreq[h]) \in HasRequest \cup {"exit"}
    BY <1>1, NextPcType DEF Dispatch, HasRequest, ListingPCs
  <2> QED
    BY <1>1, <2>1 DEF Dispatch, Quiet, HasRequest, ListingPCs
<1>2. CASE ExitProcess(h)
  BY <1>2 DEF ExitProcess, Quiet
<1>3. CASE Reject(h)
  BY <1>3 DEF Reject, Quiet, HasRequest, ListingPCs
<1>4. CASE AnswerGet(h)
  BY <1>4 DEF AnswerGet, Quiet, HasRequest, ListingPCs
<1>5. CASE CopyChunk(h)
  BY <1>5 DEF CopyChunk, Quiet, HasRequest, ListingPCs
<1>6. CASE CopyFails(h)
  BY <1>6 DEF CopyFails, Quiet, HasRequest, ListingPCs
<1>7. CASE CopyDone(h)
  BY <1>7 DEF CopyDone, Return, Quiet, HasRequest, ListingPCs
<1>8. CASE AnswerDir(h)
  BY <1>8 DEF AnswerDir, Quiet, HasRequest, ListingPCs
<1>9. CASE ExecLs(h)
  BY <1>9 DEF ExecLs, Return, Quiet, HasRequest, ListingPCs
<1>10. CASE LsWrites(h)
  BY <1>10 DEF LsWrites, Quiet, HasRequest, ListingPCs
<1>11. CASE ScanFree(h)
  BY <1>11 DEF ScanFree, Quiet, HasRequest, ListingPCs
<1>12. CASE ScanTaken(h)
  BY <1>12 DEF ScanTaken, Quiet, HasRequest, ListingPCs
<1>13. CASE ScanFull(h)
  BY <1>13 DEF ScanFull, Quiet, HasRequest, ListingPCs
<1>14. CASE HandlerWriteFails(h)
  BY <1>14 DEF HandlerWriteFails, Quiet, HasRequest, ListingPCs
<1>15. CASE DupOut(h) \/ DupErr(h)
  BY <1>15 DEF DupOut, DupErr, Dup, Quiet, HasRequest, ListingPCs
<1> QED
  BY <1>1, <1>2, <1>3, <1>4, <1>5, <1>6, <1>7, <1>8, <1>9, <1>10, <1>11,
     <1>12, <1>13, <1>14, <1>15 DEF HandlerStep

\* A quiet step changes nothing of who has which connection.
LEMMA QuietOwnership ==
  ASSUME NEW h \in Clients, TypeOK, Ownership, Quiet(h), UNCHANGED snifferVars
  PROVE  Ownership'
<1> USE DEF TypeOK, HandlersTypeOK, Ownership, mainVars, snifferVars
<1>1. /\ UNCHANGED <<tab, conn, asked, pending, backlog, mainpc, client,
                     accepted, hfd, sfd>>
      /\ hpc[h] \in HasRequest \cup {"exit"}
      /\ hpc'[h] \in HasRequest \cup {"exit", "done"}
      /\ hpc'[h] \in HasRequest => hpc[h] \in HasRequest /\ hreq'[h] = hreq[h]
      /\ \A g \in Clients : g # h => hpc'[g] = hpc[g] /\ hreq'[g] = hreq[g]
  BY DEF Quiet
<1>2. hpc[h] # "done" /\ hpc[h] # "none" /\ hpc'[h] # "none"
  BY <1>1 DEF HasRequest, ListingPCs
<1>3. \A g, c \in Clients : Serves(g, c)' => Serves(g, c)
  BY <1>1 DEF Serves
<1>4. Known'
  BY <1>1 DEF Known
<1>5. Created'
  BY <1>1, <1>2 DEF Created
<1>6. ServedOnce'
  BY <1>1, <1>3 DEF ServedOnce
<1>7. Received'
  <2> SUFFICES ASSUME NEW c \in Clients, conn[c] = "open",
                      NEW g \in Clients, Serves(g, c)'
               PROVE  /\ c \notin pending /\ asked[c] # NoRequest
                      /\ hpc'[g] \in HasRequest => hreq'[g] = asked[c]
    BY <1>1 DEF Received
  <2>1. Serves(g, c)
    BY <1>3
  <2>2. /\ c \notin pending /\ asked[c] # NoRequest
        /\ hpc[g] \in HasRequest => hreq[g] = asked[c]
    BY <2>1 DEF Received
  <2>3. CASE g = h
    BY <1>1, <2>2, <2>3 DEF HasRequest, ListingPCs
  <2> QED
    BY <1>1, <2>2, <2>3
<1>8. Registered'
  BY <1>1, <1>2 DEF Registered
<1>9. RegisteredOnce'
  BY <1>1 DEF RegisteredOnce
<1> QED
  BY <1>4, <1>5, <1>6, <1>7, <1>8, <1>9

\* The steps of a handler that get it a connection or a request, or register
\* its client.
LEMMA HandlerOwnership ==
  ASSUME NEW h \in Clients, TypeOK, Ownership, HandlerStep(h), UNCHANGED snifferVars
  PROVE  Ownership'
<1> USE DEF TypeOK, HandlersTypeOK, Ownership, At, Goto, procVars, connVars,
            mainVars, snifferVars
<1>1. CASE Start(h)
  <2>1. /\ UNCHANGED <<tab, conn, asked, pending, backlog, mainpc, client,
                       accepted, hreq, sfd>>
        /\ hpc[h] = "start" /\ hpc'[h] = "recv" /\ hfd'[h] = client
        /\ \A g \in Clients : g # h => hpc'[g] = hpc[g] /\ hfd'[g] = hfd[g]
    BY <1>1 DEF Start
  <2>2. \A g, c \in Clients : Serves(g, c)' <=> Serves(g, c)
    BY <2>1 DEF Serves, HasRequest, ListingPCs
  <2>3. Known'
    BY <2>1 DEF Known
  <2>4. Created'
    BY <2>1 DEF Created
  <2>5. ServedOnce' /\ RegisteredOnce'
    BY <2>1, <2>2 DEF ServedOnce, RegisteredOnce
  <2>6. Received'
    BY <2>1, <2>2 DEF Received, Serves, HasRequest, ListingPCs
  <2>7. Registered'
    BY <2>1 DEF Registered
  <2> QED
    BY <2>3, <2>4, <2>5, <2>6, <2>7
<1>2. CASE RecvRequest(h)
  <2> DEFINE f == hfd[h]
  <2>1. /\ UNCHANGED <<tab, conn, asked, backlog, mainpc, client, accepted, hfd, sfd>>
        /\ hpc[h] = "recv" /\ hpc'[h] = "dispatch" /\ hreq'[h] = asked[f]
        /\ f \in pending /\ pending' = pending \ {f} /\ f \in Clients
        /\ asked[f] # NoRequest
        /\ \A g \in Clients : g # h => hpc'[g] = hpc[g] /\ hreq'[g] = hreq[g]
    BY <1>2 DEF RecvRequest, ProcessTypeOK
  <2>2. \A g, c \in Clients : Serves(g, c)' => Serves(g, c) \/ (g = h /\ c = f)
    BY <2>1 DEF Serves, HasRequest, ListingPCs
  <2>3. conn[f] = "open" => \A g \in Clients : ~Serves(g, f)
    BY <2>1 DEF Received
  <2>4. Known'
    BY <2>1 DEF Known
  <2>5. Created'
    BY <2>1 DEF Created
  <2>6. ServedOnce'
    BY <2>1, <2>2, <2>3 DEF ServedOnce
  <2>7. Received'
    <3> SUFFICES ASSUME NEW c \in Clients, conn[c] = "open",
                        NEW g \in Clients, Serves(g, c)'
                 PROVE  /\ c \notin pending' /\ asked[c] # NoRequest
                        /\ hpc'[g] \in HasRequest => hreq'[g] = asked[c]
      BY <2>1 DEF Received
    <3>1. CASE g = h /\ c = f
      BY <2>1, <3>1
    <3>2. CASE Serves(g, c)
      <4>1. g # h
        BY <2>1, <3>2 DEF Serves, HasRequest, ListingPCs
      <4> QED
        BY <2>1, <3>2, <4>1 DEF Received
    <3> QED
      BY <2>2, <3>1, <3>2
  <2>8. Registered' /\ RegisteredOnce'
    BY <2>1 DEF Registered, RegisteredOnce
  <2> QED
    BY <2>4, <2>5, <2>6, <2>7, <2>8
<1>3. CASE RecvEof(h) \/ RecvError(h)
  <2>1. /\ UNCHANGED <<tab, conn, asked, pending, backlog, mainpc, client,
                       accepted, hfd, sfd>>
        /\ hpc[h] = "recv" /\ hpc'[h] \in {"dispatch", "exit"}
        /\ hfd[h] \in Clients => conn[hfd[h]] = "gone"
        /\ \A g \in Clients : g # h => hpc'[g] = hpc[g] /\ hreq'[g] = hreq[g]
    BY <1>3, Assumptions
    DEF RecvEof, RecvError, AllAssumptions, ProcessAssumption
  <2>2. \A g, c \in Clients :
          conn[c] = "open" /\ Serves(g, c)' => Serves(g, c) /\ g # h
    BY <2>1 DEF Serves, HasRequest, ListingPCs
  <2>3. Known'
    BY <2>1 DEF Known
  <2>4. Created'
    BY <2>1 DEF Created
  <2>5. ServedOnce' /\ RegisteredOnce'
    BY <2>1, <2>2 DEF ServedOnce, RegisteredOnce
  <2>6. Received'
    BY <2>1, <2>2 DEF Received
  <2>7. Registered'
    BY <2>1 DEF Registered
  <2> QED
    BY <2>3, <2>4, <2>5, <2>6, <2>7
<1>4. CASE Store(h)
  <2> DEFINE f == hfd[h]
             T == MyTable(h)
             k == hpos[h]
  <2>1. /\ UNCHANGED <<conn, asked, pending, backlog, mainpc, client, accepted,
                       hfd, sfd>>
        /\ hpc[h] = "store" /\ hpc'[h] = "done" /\ f \in Clients
        /\ T \in Tables /\ k \in Slots
        /\ \A g \in Clients : g # h => hpc'[g] = hpc[g] /\ hreq'[g] = hreq[g]
    BY <1>4, TableOfType DEF Store, Return, MyTable, HasRequest, ListingPCs
  <2>2. \A t \in Tables : \A i \in Slots :
          tab'[t][i] = IF t = T /\ i = k THEN f ELSE tab[t][i]
    BY <1>4, <2>1 DEF Store, ProcessTypeOK
  <2>3. Serves(h, f) /\ \A g, c \in Clients : Serves(g, c)' <=> Serves(g, c)
    BY <2>1 DEF Serves, HasRequest, ListingPCs
  <2>4. conn[f] = "open" => /\ \A t \in Tables : \A i \in Slots : tab[t][i] # f
                            /\ sfd # f
    <3> SUFFICES ASSUME conn[f] = "open", NEW g \in Clients,
                        hfd[g] = f, hpc[g] = "done"
                 PROVE  FALSE
      BY <2>1 DEF Registered
    <3>1. Serves(g, f)
      BY DEF Serves
    <3> QED
      BY <2>1, <2>3, <3>1 DEF ServedOnce
  <2>5. conn[f] = "open" => /\ asked[f] # NoRequest /\ asked[f].kind = REQUEST_SNIFF
                            /\ T = TableOf[asked[f].path]
    BY <2>1, <2>3 DEF Received, MyTable, HasRequest, ListingPCs
  <2>6. Known'
    BY <2>1, <2>2 DEF Known
  <2>7. Created'
    BY <2>1 DEF Created
  <2>8. ServedOnce'
    BY <2>1, <2>3 DEF ServedOnce
  <2>9. Received'
    BY <2>1, <2>3 DEF Received, HasRequest, ListingPCs
  <2>10. Registered'
    BY <2>1, <2>2 DEF Registered
  <2>11. RegisteredOnce'
    <3> SUFFICES ASSUME NEW c \in Clients, conn[c] = "open",
                        NEW t \in Tables, NEW u \in Tables,
                        NEW i \in Slots, NEW j \in Slots, tab'[t][i] = c
                 PROVE  /\ asked[c] # NoRequest
                        /\ asked[c].kind = REQUEST_SNIFF
                        /\ t = TableOf[asked[c].path]
                        /\ tab'[u][j] = c => t = u /\ i = j
      BY <2>1 DEF RegisteredOnce
    <3>1. CASE c = f
      BY <2>2, <2>4, <2>5, <3>1
    <3>2. CASE c # f
      BY <2>2, <3>2 DEF RegisteredOnce
    <3> QED
      BY <3>1, <3>2
  <2> QED
    BY <2>6, <2>7, <2>8, <2>9, <2>10, <2>11
<1> QED
  BY <1>1, <1>2, <1>3, <1>4, QuietSteps, QuietOwnership

-----------------------------------------------------------------------------
(* The other actors *)

\* main accepts a connection no variable of a thread names, and creates the
\* one thread of it.
LEMMA MainOwnership ==
  ASSUME TypeOK, Ownership, MainStep, UNCHANGED snifferVars
  PROVE  Ownership'
<1> USE DEF TypeOK, HandlersTypeOK, ProcessTypeOK, Ownership, procVars, connVars,
            threadVars, snifferVars
<1>1. CASE Setup \/ AcceptFails
  <2>1. /\ UNCHANGED <<tab, conn, asked, pending, backlog, accepted, hpc, hfd,
                       hreq, sfd>>
        /\ client' \in {client, NoFd} /\ mainpc' \in {mainpc, "accept"}
    BY <1>1 DEF Setup, AcceptFails
  <2>2. mainpc' = "spawn" => mainpc = "spawn" /\ client' = client
    BY <1>1 DEF Setup, AcceptFails
  <2>3. Known' /\ Created'
    BY <2>1, <2>2, Assumptions DEF Known, Created, AllAssumptions, ProcessAssumption
  <2>4. ServedOnce' /\ Received' /\ Registered' /\ RegisteredOnce'
    BY <2>1 DEF ServedOnce, Received, Registered, RegisteredOnce, Serves
  <2> QED
    BY <2>3, <2>4
<1>2. CASE Accept
  <2> DEFINE a == Head(backlog)
  <2>1. /\ UNCHANGED <<tab, conn, asked, pending, hpc, hfd, hreq, sfd>>
        /\ client' = a /\ accepted' = accepted \cup {a}
        /\ mainpc' = "spawn" /\ backlog' = Tail(backlog) /\ backlog # << >>
    BY <1>2 DEF Accept
  <2>2. /\ a \in Clients /\ a = backlog[1] /\ 1 \in DOMAIN backlog
        /\ backlog' \in Seq(Clients)
        /\ \A i \in DOMAIN backlog' : /\ i + 1 \in DOMAIN backlog
                                      /\ backlog'[i] = backlog[i + 1]
                                      /\ i \in Nat /\ i # 0
    BY <2>1, SMTT(30)
  <2>3. conn[a] # "idle" /\ a \notin accepted /\ hpc[a] = "none"
    BY <2>2 DEF Known, Created
  <2>4. Known'
    <3>1. \A i \in DOMAIN backlog' : conn'[backlog'[i]] # "idle"
      BY <2>1, <2>2 DEF Known
    <3>2. \A c \in Clients : conn'[c] = "idle" => client' # c /\ c \notin accepted'
      BY <2>1, <2>3 DEF Known
    <3> QED
      BY <2>1, <3>1, <3>2 DEF Known
  <2>5. Created'
    <3>1. ASSUME NEW i \in DOMAIN backlog', NEW j \in DOMAIN backlog',
                 backlog'[i] = backlog'[j]
          PROVE  i = j
      <4>1. i + 1 = j + 1
        BY <2>2, <3>1 DEF Created
      <4> QED
        BY <2>2, <4>1
    <3>2. ASSUME NEW i \in DOMAIN backlog' PROVE backlog'[i] \notin accepted'
      <4>1. backlog[i + 1] \notin accepted /\ i + 1 # 1
        BY <2>2 DEF Created
      <4>2. backlog[i + 1] # backlog[1]
        BY <2>2, <4>1 DEF Created
      <4> QED
        BY <2>1, <2>2, <4>1, <4>2
    <3> QED
      BY <2>1, <2>3, <3>1, <3>2 DEF Created
  <2>6. ServedOnce' /\ Received' /\ Registered' /\ RegisteredOnce'
    BY <2>1 DEF ServedOnce, Received, Registered, RegisteredOnce, Serves
  <2> QED
    BY <2>4, <2>5, <2>6
<1>3. CASE Spawn
  <2>1. /\ UNCHANGED <<tab, conn, asked, pending, backlog, client, accepted, hfd,
                       hreq, sfd>>
        /\ client \in Clients /\ mainpc = "spawn" /\ mainpc' = "accept"
        /\ hpc'[client] \in {hpc[client], "start"}
        /\ \A g \in Clients : g # client => hpc'[g] = hpc[g]
    BY <1>3 DEF Spawn
  <2>2. hpc[client] = "none" /\ client \in accepted
    BY <2>1 DEF Created
  <2>3. \A g, c \in Clients : Serves(g, c)' <=> Serves(g, c)
    BY <2>1, <2>2 DEF Serves, HasRequest, ListingPCs
  <2>4. Known' /\ Created'
    BY <2>1, <2>2 DEF Known, Created
  <2>5. ServedOnce' /\ RegisteredOnce'
    BY <2>1, <2>3 DEF ServedOnce, RegisteredOnce
  <2>6. Received'
    <3>1. \A g \in Clients : hpc'[g] \in HasRequest => hpc'[g] = hpc[g]
      BY <2>1 DEF HasRequest, ListingPCs
    <3> QED
      BY <2>1, <2>3, <3>1 DEF Received
  <2>7. Registered'
    <3>1. \A g \in Clients : hpc[g] = "done" => hpc'[g] = "done"
      BY <2>1, <2>2
    <3> QED
      BY <2>1, <3>1 DEF Registered
  <2> QED
    BY <2>4, <2>5, <2>6, <2>7
<1> QED
  BY <1>1, <1>2, <1>3 DEF MainStep

\* The capture thread takes its descriptor out of a table and writes nothing
\* but streams.
LEMMA SnifferOwnership ==
  ASSUME TypeOK, Ownership, SnifferStep, UNCHANGED handlerVars
  PROVE  Ownership'
<1> USE DEF TypeOK, SnifferTypeOK, ProcessTypeOK, Ownership, procVars, connVars,
            handlerVars, mainVars, threadVars, snifferVars
<1>1. UNCHANGED <<tab, conn, asked, pending, backlog, mainpc, client, accepted, hpc,
                  hfd, hreq>>
  BY DEF SnifferStep, Deliver, OpenDevice, Capture, Classify, SkipSlot, TakeSlot,
         NextTable, WriteHeader, WriteBody, SnifferWriteFails
<1>2. \/ sfd' = sfd \/ sfd' = NoFd
      \/ /\ sfd' \in Clients
         /\ \E t \in Tables : \E i \in Slots : sfd' = tab[t][i]
  <2>1. CASE TakeSlot
    <3>1. /\ Head(route) \in Tables /\ si \in Slots
          /\ sfd' = tab[Head(route)][si] /\ sfd' # Empty
      BY <2>1, Assumptions DEF TakeSlot, Slots, AllAssumptions, ProcessAssumption
    <3> QED
      BY <3>1
  <2>2. CASE ~TakeSlot
    BY <2>2 DEF SnifferStep, Deliver, OpenDevice, Capture, Classify, SkipSlot,
                NextTable, WriteHeader, WriteBody, SnifferWriteFails
  <2> QED
    BY <2>1, <2>2
<1>3. NoFd \notin Clients
  BY Assumptions DEF AllAssumptions, ProcessAssumption
<1>4. Known'
  BY <1>1, <1>2, <1>3 DEF Known
<1>6. Registered'
  <2>1. ASSUME NEW c \in Clients, conn[c] = "open", sfd' = c
        PROVE  \E h \in Clients : hfd[h] = c /\ hpc[h] = "done"
    <3>1. sfd = c \/ \E t \in Tables : \E i \in Slots : tab[t][i] = c
      BY <1>2, <1>3, <2>1
    <3> QED
      BY <2>1, <3>1 DEF Registered
  <2> QED
    BY <1>1, <2>1 DEF Registered
<1>5. Created' /\ Received' /\ ServedOnce' /\ RegisteredOnce'
  BY <1>1 DEF Created, Received, ServedOnce, RegisteredOnce, Serves
<1> QED
  BY <1>4, <1>5, <1>6

\* A client connects when nothing names it, and sends when nobody serves it.
LEMMA ClientOwnership ==
  ASSUME NEW c \in Clients, TypeOK, Ownership, ClientMoves(c),
         UNCHANGED <<handlerVars, snifferVars>>
  PROVE  Ownership'
<1> USE DEF TypeOK, ProcessTypeOK, Ownership, procVars, handlerVars, mainVars,
            threadVars, snifferVars
<1>1. UNCHANGED <<tab, mainpc, client, accepted, hpc, hfd, hreq, sfd>>
  BY DEF ClientMoves, Arrive, Connect, SendRequest, ReadItem, Leave
<1>2. CASE Arrive(c)
  <2>1. /\ conn[c] = "idle" /\ conn' = [conn EXCEPT ![c] = "open"]
        /\ backlog' = Append(backlog, c) /\ UNCHANGED <<asked, pending>>
    BY <1>2 DEF Arrive, Connect
  <2>2. \A i \in DOMAIN backlog' :
          \/ i \in DOMAIN backlog /\ backlog'[i] = backlog[i]
          \/ i \notin DOMAIN backlog /\ i = Len(backlog) + 1 /\ backlog'[i] = c
    BY <2>1
  <2>3. \A i \in DOMAIN backlog : backlog[i] # c /\ backlog[i] \in Clients
    BY <2>1 DEF Known
  <2>4. Known'
    BY <1>1, <2>1, <2>2, <2>3 DEF Known
  <2>5. Created'
    BY <1>1, <2>1, <2>2, <2>3 DEF Created, Known
  <2>6. \A g \in Clients : ~Serves(g, c)
    BY <2>1 DEF Known, Serves
  <2>7. ServedOnce' /\ Received' /\ Registered' /\ RegisteredOnce'
    BY <1>1, <2>1, <2>6
    DEF ServedOnce, Received, Registered, RegisteredOnce, Serves, Known
  <2> QED
    BY <2>4, <2>5, <2>7
<1>3. CASE SendRequest(c)
  <2>1. /\ conn[c] = "open" /\ asked[c] = NoRequest /\ UNCHANGED <<conn, backlog>>
        /\ pending' = pending \cup {c}
        /\ \A d \in Clients : d # c => asked'[d] = asked[d]
    BY <1>3 DEF SendRequest
  <2>2. Known' /\ Created' /\ Registered'
    BY <1>1, <2>1 DEF Known, Created, Registered
  <2>3. \A g \in Clients : ~Serves(g, c)
    BY <2>1 DEF Received
  <2>4. ServedOnce' /\ Received'
    BY <1>1, <2>1, <2>3 DEF ServedOnce, Received, Serves
  <2>5. RegisteredOnce'
    BY <1>1, <2>1 DEF RegisteredOnce
  <2> QED
    BY <2>2, <2>4, <2>5
<1>4. CASE ReadItem(c) \/ Leave(c)
  <2>1. /\ UNCHANGED <<backlog, asked, pending>>
        /\ \A d \in Clients : /\ conn'[d] = "open" => conn[d] = "open"
                              /\ conn'[d] = "idle" <=> conn[d] = "idle"
    BY <1>4 DEF ReadItem, Leave
  <2>2. Known'
    BY <1>1, <2>1 DEF Known
  <2>3. Created' /\ ServedOnce' /\ Received' /\ Registered' /\ RegisteredOnce'
    BY <1>1, <2>1 DEF Created, ServedOnce, Received, Registered, RegisteredOnce, Serves
  <2> QED
    BY <2>2, <2>3
<1> QED
  BY <1>2, <1>3, <1>4 DEF ClientMoves

\* Printing changes nothing of it.
LEMMA PrintOwnership ==
  ASSUME NEW n \in {1, 2}, Ownership, PrintOn(n) PROVE Ownership'
BY DEF PrintOn, Ownership, Known, Created, Received, ServedOnce, Registered,
       RegisteredOnce, Serves, handlerVars, mainVars, threadVars, snifferVars

-----------------------------------------------------------------------------
(* Where what is printed goes *)

Redirecting == {"duperr", "exec", "done"}

\* A step that calls no dup2 keeps Redirected when what it changes of the client
\* at 1 or 2 is that it leaves.
LEMMA RedirectedStays ==
  ASSUME Redirected, UNCHANGED std,
         \A c \in Clients : c \in {std[1], std[2]} =>
           /\ conn[c] # "idle" => conn'[c] # "idle"
           /\ conn'[c] = "open" => conn[c] = "open" \/ conn[c] = "idle"
           /\ conn'[c] = "open" =>
                /\ asked[c] # NoRequest => asked'[c] = asked[c]
                /\ sfd # c => sfd' # c,
         \A h \in Clients : hpc[h] \in Redirecting =>
           hpc'[h] \in Redirecting /\ hfd'[h] = hfd[h]
  PROVE  Redirected'
BY DEF Redirected, Redirecting

\* dup2 is called for the client the thread serves.
LEMMA HandlerRedirected ==
  ASSUME NEW h \in Clients, TypeOK, Ownership, Redirected, HandlerStep(h),
         UNCHANGED snifferVars
  PROVE  Redirected'
<1> USE DEF TypeOK, HandlersTypeOK, ProcessTypeOK, At, Goto, procVars, connVars,
            mainVars, threadVars, handlerVars, snifferVars
<1>1. CASE DupOut(h) \/ DupErr(h)
  <2> DEFINE f == hfd[h]
  <2>1. /\ UNCHANGED <<conn, asked, hfd, sfd>> /\ f \in Clients
        /\ hpc[h] \in ListingPCs /\ hreq[h].kind = REQUEST_DIR
        /\ hpc'[h] \in Redirecting
        /\ \A g \in Clients : g # h => hpc'[g] = hpc[g]
        /\ \A n \in {1, 2} : std'[n] \in {std[n], f}
    BY <1>1 DEF DupOut, DupErr, Dup, HasRequest, ListingPCs, Redirecting
  <2>2. Serves(h, f) /\ hpc[h] \in HasRequest /\ hpc[h] # "done"
    BY <2>1 DEF Serves, HasRequest, ListingPCs
  <2>3. conn[f] # "idle"
    BY <2>1 DEF Ownership, Known
  <2>4. conn[f] = "open" => /\ sfd # f /\ asked[f] # NoRequest
                            /\ asked[f].kind = REQUEST_DIR
    <3> SUFFICES ASSUME conn[f] = "open" PROVE sfd # f /\ asked[f] # NoRequest
                                               /\ asked[f].kind = REQUEST_DIR
      OBVIOUS
    <3>1. \A g \in Clients : hfd[g] = f /\ hpc[g] = "done" => FALSE
      BY <2>1, <2>2 DEF Ownership, ServedOnce, Serves
    <3>2. sfd # f
      BY <2>1, <3>1 DEF Ownership, Registered
    <3> QED
      BY <2>1, <2>2, <3>2 DEF Ownership, Received
  <2>5. \A g \in Clients : hpc[g] \in Redirecting => hpc'[g] \in Redirecting
    BY <2>1
  <2> SUFFICES ASSUME NEW c \in Clients, c \in {std'[1], std'[2]}
               PROVE  /\ conn[c] # "idle"
                      /\ conn[c] = "open" =>
                           /\ sfd # c /\ asked[c] # NoRequest
                           /\ asked[c].kind = REQUEST_DIR
                           /\ \E g \in Clients : hfd[g] = c /\ hpc'[g] \in Redirecting
    BY <2>1 DEF Redirected, Redirecting
  <2>6. CASE c = f
    BY <2>1, <2>3, <2>4, <2>6
  <2>7. CASE c \in {std[1], std[2]}
    BY <2>5, <2>7 DEF Redirected, Redirecting
  <2> QED
    BY <2>1, <2>6, <2>7
<1>2. CASE ~DupOut(h) /\ ~DupErr(h)
  <2>1. UNCHANGED <<conn, asked, std, sfd>>
        /\ \A g \in Clients : hpc[g] \in Redirecting =>
             hpc'[g] \in Redirecting /\ hfd'[g] = hfd[g]
    BY <1>2
    DEF HandlerStep, Start, RecvRequest, RecvEof, RecvError, Dispatch, ExitProcess,
        Reject, AnswerGet, CopyChunk, CopyFails, CopyDone, AnswerDir, ExecLs,
        LsWrites, ScanFree, ScanTaken, ScanFull, Store, Return, HandlerWriteFails,
        Redirecting
  <2> QED
    BY <2>1, RedirectedStays
<1> QED
  BY <1>1, <1>2

\* Nobody else calls dup2, and the capture thread takes a client that asked for
\* a protocol.
LEMMA OthersRedirected ==
  ASSUME TypeOK, Ownership, Redirected,
         \/ MainStep /\ UNCHANGED snifferVars
         \/ SnifferStep /\ UNCHANGED handlerVars
         \/ \E n \in {1, 2} : PrintOn(n)
         \/ \E c \in Clients : ClientMoves(c) /\ UNCHANGED <<handlerVars, snifferVars>>
  PROVE  Redirected'
<1> USE DEF TypeOK, HandlersTypeOK, ProcessTypeOK, procVars, connVars, mainVars,
            threadVars, handlerVars, snifferVars
<1>1. CASE MainStep /\ UNCHANGED snifferVars
  <2>1. UNCHANGED <<conn, asked, std, sfd, hfd>>
    BY <1>1 DEF MainStep, Setup, Accept, AcceptFails, Spawn
  <2>2. \A g \in Clients : hpc[g] # "none" => hpc'[g] = hpc[g]
    BY <1>1 DEF MainStep, Setup, Accept, AcceptFails, Spawn, Ownership, Created
  <2> QED
    BY <2>1, <2>2, RedirectedStays DEF Redirecting
<1>2. CASE SnifferStep /\ UNCHANGED handlerVars
  <2>1. UNCHANGED <<conn, asked, std, hpc, hfd>>
    BY <1>2 DEF SnifferStep, Deliver, OpenDevice, Capture, Classify, SkipSlot, TakeSlot,
                NextTable, WriteHeader, WriteBody, SnifferWriteFails
  <2>2. ASSUME NEW c \in Clients, c \in {std[1], std[2]}, conn[c] = "open", sfd # c
        PROVE  sfd' # c
    <3>1. asked[c].kind # REQUEST_SNIFF
      BY <2>2 DEF Redirected, REQUEST_DIR, REQUEST_SNIFF
    <3>2. \A t \in Tables : \A i \in Slots : tab[t][i] # c
      BY <2>2, <3>1 DEF Ownership, RegisteredOnce
    <3>3. CASE TakeSlot
      <4>1. Head(route) \in Tables /\ si \in Slots /\ sfd' = tab[Head(route)][si]
        BY <3>3, Assumptions
        DEF TakeSlot, SnifferTypeOK, Slots, AllAssumptions, ProcessAssumption
      <4> QED
        BY <3>2, <4>1
    <3>4. CASE ~TakeSlot
      <4>1. sfd' = sfd \/ sfd' = NoFd
        BY <1>2, <3>4 DEF SnifferStep, Deliver, OpenDevice, Capture, Classify, SkipSlot,
                          NextTable, WriteHeader, WriteBody, SnifferWriteFails
      <4> QED
        BY <2>2, <4>1, Assumptions DEF AllAssumptions, ProcessAssumption
    <3> QED
      BY <3>3, <3>4
  <2>3. \A c \in Clients : c \in {std[1], std[2]} => conn[c] # "idle"
    BY DEF Redirected
  <2> QED
    BY <2>1, <2>2, <2>3, RedirectedStays
<1>3. CASE \E n \in {1, 2} : PrintOn(n)
  <2>1. UNCHANGED <<conn, asked, std, sfd, hpc, hfd>>
    BY <1>3 DEF PrintOn
  <2> QED
    BY <2>1, RedirectedStays
<1>4. CASE \E c \in Clients : ClientMoves(c) /\ UNCHANGED <<handlerVars, snifferVars>>
  <2>1. UNCHANGED <<std, sfd, hpc, hfd>>
    BY <1>4
  <2>2. \A c \in Clients :
          /\ asked[c] # NoRequest => asked'[c] = asked[c]
          /\ conn[c] # "idle" => conn'[c] # "idle"
          /\ conn'[c] = "open" => conn[c] = "open" \/ conn[c] = "idle"
    BY <1>4 DEF ClientMoves, Arrive, Connect, SendRequest, ReadItem, Leave
  <2> QED
    BY <2>1, <2>2, RedirectedStays
<1> QED
  BY <1>1, <1>2, <1>3, <1>4

-----------------------------------------------------------------------------
(* The scans *)

\* A step that leaves the tables alone and puts no thread in the scan keeps
\* the prefixes.
LEMMA NoScan ==
  ASSUME TypeOK, Scanning, UNCHANGED tab,
         \A g \in Clients :
           \/ hpc'[g] = hpc[g] /\ hreq'[g] = hreq[g] /\ hpos'[g] = hpos[g]
           \/ hpc'[g] \notin {"scan", "store"}
              /\ (hpos'[g] = 0 \/ hpc'[g] \in {"copy", "exit"})
  PROVE  Scanning'
<1>1. Rewound'
  BY DEF Scanning, Rewound, HandlerPCs
<1>2. PrefixFilled'
  BY DEF Scanning, PrefixFilled, MyTable
<1> QED
  BY <1>1, <1>2 DEF Scanning

\* A handler keeps the prefixes: it stores in a slot only with occupied slots
\* behind it.
LEMMA HandlerScanning ==
  ASSUME NEW h \in Clients, TypeOK, Scanning, HandlerStep(h)
  PROVE  Scanning'
<1> USE DEF TypeOK, HandlersTypeOK, At, Goto, procVars, connVars, mainVars,
            threadVars, handlerVars
<1>1. hpc[h] \in HandlerPCs \ {"copy", "scan", "store", "exit"} => hpos[h] = 0
  BY DEF Scanning, Rewound
<1>2. CASE Start(h) \/ RecvRequest(h) \/ RecvEof(h) \/ RecvError(h)
  BY <1>1, <1>2, NoScan DEF Start, RecvRequest, RecvEof, RecvError, HandlerPCs
<1>3. CASE Dispatch(h)
  <2>1. hpos[h] = 0 /\ hpos' = hpos /\ hreq' = hreq /\ tab' = tab
        /\ \A g \in Clients : g # h => hpc'[g] = hpc[g]
    BY <1>1, <1>3 DEF Dispatch, HandlerPCs
  <2>2. Rewound'
    BY <2>1 DEF Scanning, Rewound
  <2>3. PrefixFilled'
    <3>1. \A i \in Slots : ~(i < hpos[h])
      BY <2>1, Assumptions DEF Slots, AllAssumptions, ProcessAssumption
    <3> QED
      BY <2>1, <3>1 DEF Scanning, PrefixFilled, MyTable
  <2> QED
    BY <2>2, <2>3 DEF Scanning
<1>4. CASE ExitProcess(h) \/ LsWrites(h) \/ HandlerWriteFails(h)
  BY <1>4, NoScan DEF ExitProcess, LsWrites, HandlerWriteFails
<1>5. CASE Reject(h) \/ AnswerGet(h) \/ CopyFails(h) \/ AnswerDir(h) \/ ScanFull(h)
  BY <1>1, <1>5, NoScan
  DEF Reject, AnswerGet, CopyFails, AnswerDir, ScanFull, HandlerPCs
<1>6. CASE CopyChunk(h)
  BY <1>6, NoScan DEF CopyChunk
<1>7. CASE CopyDone(h)
  BY <1>7, NoScan DEF CopyDone, Return
<1>8. CASE DupOut(h) \/ DupErr(h) \/ ExecLs(h)
  BY <1>1, <1>8, NoScan DEF DupOut, DupErr, Dup, ExecLs, Return, HandlerPCs
<1>9. CASE ScanFree(h)
  <2>1. hpc[h] = "scan" /\ hpc'[h] = "store" /\ UNCHANGED <<tab, hpos, hreq>>
        /\ \A g \in Clients : g # h => hpc'[g] = hpc[g]
    BY <1>9 DEF ScanFree
  <2> QED
    BY <2>1 DEF Scanning, Rewound, PrefixFilled, MyTable
<1>10. CASE ScanTaken(h)
  <2>1. /\ hpc[h] = "scan" /\ UNCHANGED <<tab, hpc, hreq>> /\ hpos[h] \in Nat
        /\ tab[MyTable(h)][hpos[h]] # Empty /\ hpos'[h] = hpos[h] + 1
        /\ \A g \in Clients : g # h => hpos'[g] = hpos[g]
    BY <1>10 DEF ScanTaken
  <2>2. \A i \in Slots : i < hpos[h] + 1 => i < hpos[h] \/ i = hpos[h]
    BY <2>1, Assumptions DEF Slots, AllAssumptions, ProcessAssumption
  <2>3. Rewound'
    BY <2>1 DEF Scanning, Rewound
  <2>4. PrefixFilled'
    BY <2>1, <2>2 DEF Scanning, PrefixFilled, MyTable
  <2> QED
    BY <2>3, <2>4 DEF Scanning
<1>11. CASE Store(h)
  <2>1. /\ hpc[h] = "store" /\ hpc'[h] = "done" /\ hpos'[h] = 0
        /\ hfd[h] \in Clients /\ hfd[h] # Empty
        /\ MyTable(h) \in Tables /\ hpos[h] \in Slots
        /\ \A g \in Clients : g # h => /\ hpc'[g] = hpc[g] /\ hreq'[g] = hreq[g]
                                       /\ hpos'[g] = hpos[g]
    BY <1>11, TableOfType, Assumptions
    DEF Store, Return, MyTable, HasRequest, ListingPCs, AllAssumptions, ProcessAssumption
  <2>2. \A t \in Tables : \A i \in Slots :
          tab'[t][i] = IF t = MyTable(h) /\ i = hpos[h] THEN hfd[h] ELSE tab[t][i]
    BY <1>11, <2>1 DEF Store, ProcessTypeOK
  <2>3. Rewound'
    BY <2>1 DEF Scanning, Rewound
  <2>4. ASSUME NEW t \in Tables, NEW i \in Slots, NEW j \in Slots,
               i < j, tab'[t][j] # Empty
        PROVE  tab'[t][i] # Empty
    <3>1. CASE t = MyTable(h) /\ j = hpos[h]
      BY <2>1, <2>2, <2>4, <3>1 DEF Scanning, PrefixFilled
    <3>2. CASE ~(t = MyTable(h) /\ j = hpos[h])
      BY <2>1, <2>2, <2>4, <3>2 DEF Scanning, PrefixFilled
    <3> QED
      BY <3>1, <3>2
  <2>5. ASSUME NEW g \in Clients, hpc'[g] \in {"scan", "store"},
               NEW i \in Slots, i < hpos'[g]
        PROVE  tab'[MyTable(g)'][i] # Empty
    <3>1. g # h
      BY <2>1, <2>5
    <3>2. hpc[g] \in {"scan", "store"} /\ MyTable(g)' = MyTable(g) /\ hpos'[g] = hpos[g]
      BY <2>1, <2>5, <3>1 DEF MyTable
    <3>3. MyTable(g) \in Tables
      BY <3>2, TableOfType DEF MyTable
    <3> QED
      BY <2>1, <2>2, <2>5, <3>2, <3>3 DEF Scanning, PrefixFilled
  <2> QED
    BY <2>3, <2>4, <2>5 DEF Scanning, PrefixFilled
<1> QED
  BY <1>2, <1>3, <1>4, <1>5, <1>6, <1>7, <1>8, <1>9, <1>10, <1>11 DEF HandlerStep

\* Nobody else stores in a table, and main creates threads that begin at 0.
LEMMA OthersScanning ==
  ASSUME TypeOK, Created, Scanning,
         \/ MainStep
         \/ SnifferStep /\ UNCHANGED handlerVars
         \/ \E n \in {1, 2} : PrintOn(n)
         \/ \E c \in Clients : ClientMoves(c) /\ UNCHANGED handlerVars
  PROVE  Scanning'
<1> USE DEF TypeOK, HandlersTypeOK, procVars, connVars, mainVars, threadVars, handlerVars
<1>1. UNCHANGED <<tab, hreq, hpos>>
  BY DEF MainStep, Setup, Accept, AcceptFails, Spawn, SnifferStep, Deliver,
         OpenDevice, Capture, Classify, SkipSlot, TakeSlot, NextTable, WriteHeader,
         WriteBody, SnifferWriteFails, PrintOn, ClientMoves, Arrive, Connect,
         SendRequest, ReadItem, Leave
<1>2. CASE hpc' = hpc
  BY <1>1, <1>2, NoScan
<1>3. CASE Spawn
  <2>1. client \in Clients /\ hpc[client] = "none"
    BY <1>3 DEF Spawn, Created
  <2>2. hpos[client] = 0
    BY <2>1 DEF Scanning, Rewound, HandlerPCs
  <2>3. \A g \in Clients : hpc'[g] = hpc[g] \/ (g = client /\ hpc'[g] = "start")
    BY <1>3 DEF Spawn
  <2> QED
    BY <1>1, <2>2, <2>3, NoScan
<1> QED
  BY <1>2, <1>3 DEF MainStep, Setup, Accept, AcceptFails, PrintOn

-----------------------------------------------------------------------------
(* The theorems *)

\* Every step of the system keeps the invariant.
LEMMA StepInv == Inv /\ [AnyNext]_vars => Inv'
<1> SUFFICES ASSUME TypeOK, Ownership, Redirected, Scanning, [AnyNext]_vars
             PROVE  TypeOK' /\ Ownership' /\ Redirected' /\ Scanning'
  BY DEF Inv, Ownership, Scanning
<1>1. TypeOK'
  BY StepType
<1>2. Ownership'
  <2>1. CASE UNCHANGED vars
    BY <2>1 DEF Ownership, Known, Created, Received, ServedOnce, Registered,
                RegisteredOnce, Serves, vars, procVars, connVars, handlerVars,
                mainVars, threadVars, snifferVars
  <2> QED
    BY <2>1, HandlerOwnership, MainOwnership, SnifferOwnership, PrintOwnership,
       ClientOwnership DEF AnyNext
<1>3. Scanning'
  <2>1. CASE UNCHANGED vars
    BY <2>1, NoScan DEF vars, procVars, handlerVars, threadVars
  <2>2. CASE \E h \in Clients : HandlerStep(h)
    BY <2>2, HandlerScanning
  <2> QED
    BY <2>1, <2>2, OthersScanning DEF AnyNext, Ownership
<1>4. Redirected'
  <2>1. CASE UNCHANGED vars
    BY <2>1, RedirectedStays DEF vars, connVars, handlerVars, mainVars, threadVars,
                                 snifferVars
  <2> QED
    BY <2>1, HandlerRedirected, OthersRedirected DEF AnyNext
<1> QED
  BY <1>1, <1>2, <1>3, <1>4

\* The invariant holds throughout every execution.
THEOREM Invariance == Spec => []Inv
BY InitInv, StepInv, NextIsAny, PTL DEF Spec

\* However many threads read the same descriptor, one at most gets the request
\* of a connected client.
THEOREM RequestServedOnce == Spec => []ServedOnce
<1>1. Inv => ServedOnce
  BY DEF Inv
<1> QED
  BY <1>1, Invariance, PTL

\* A connected client is in one slot at most, of the table it asked for.
THEOREM ClientRegisteredOnce == Spec => []RegisteredOnce
<1>1. Inv => RegisteredOnce
  BY DEF Inv
<1> QED
  BY <1>1, Invariance, PTL

\* No two threads have a write to the same connected client ahead of them, and
\* what is printed goes to no connected client but one that was sent the answer to
\* its request for a listing.
THEOREM SingleWriter == Spec => []OneWriter
<1>1. Inv => OneWriter
  <2> SUFFICES ASSUME Inv, NEW c \in Clients, conn[c] = "open"
               PROVE  /\ \A g, h \in Clients : Writes(g, c) /\ Writes(h, c) => g = h
                      /\ sfd = c => \A h \in Clients : ~Writes(h, c)
                      /\ c \in {std[1], std[2]} =>
                           /\ asked[c] # NoRequest /\ asked[c].kind = REQUEST_DIR
                           /\ sfd # c /\ \A h \in Clients : ~Writes(h, c)
    BY DEF OneWriter
  <2>1. \A h \in Clients : Writes(h, c) => Serves(h, c) /\ hpc[h] # "done"
    BY DEF Writes, WritingPCs, Serves, HasRequest, ListingPCs
  <2>2. \A g, h \in Clients : Writes(g, c) /\ Writes(h, c) => g = h
    BY <2>1 DEF Inv, ServedOnce
  <2>3. ASSUME sfd = c, NEW h \in Clients PROVE ~Writes(h, c)
    <3>1. PICK g \in Clients : hfd[g] = c /\ hpc[g] = "done"
      BY <2>3 DEF Inv, Registered
    <3>2. Serves(g, c)
      BY <3>1 DEF Serves
    <3> QED
      BY <2>1, <3>1, <3>2 DEF Inv, ServedOnce
  <2>4. ASSUME c \in {std[1], std[2]}
        PROVE  /\ asked[c] # NoRequest /\ asked[c].kind = REQUEST_DIR
               /\ sfd # c /\ \A h \in Clients : ~Writes(h, c)
    <3>1. /\ asked[c] # NoRequest /\ asked[c].kind = REQUEST_DIR /\ sfd # c
      BY <2>4 DEF Inv, Redirected
    <3>2. PICK g \in Clients : hfd[g] = c /\ hpc[g] \in {"duperr", "exec", "done"}
      BY <2>4 DEF Inv, Redirected
    <3>3. Serves(g, c) /\ ~Writes(g, c)
      BY <3>2 DEF Serves, Writes, WritingPCs, HasRequest, ListingPCs
    <3> QED
      BY <2>1, <3>1, <3>3 DEF Inv, ServedOnce
  <2> QED
    BY <2>2, <2>3, <2>4
<1> QED
  BY <1>1, Invariance, PTL

\* The occupied slots of a table are its first ones.
THEOREM TablesFillUp == Spec => []PrefixFilled
<1>1. Inv => PrefixFilled
  BY DEF Inv
<1> QED
  BY <1>1, Invariance, PTL

\* Whatever the order of the reads and the writes of the tables, no slot that
\* was taken is ever free again.
THEOREM SlotsStay == Spec => SlotsNeverFreed
<1>1. Inv /\ [Next]_vars =>
        [\A t \in Tables : \A i \in Slots : tab[t][i] # Empty => tab'[t][i] # Empty]_vars
  <2> SUFFICES ASSUME Inv, [Next]_vars,
                      NEW t \in Tables, NEW i \in Slots, tab[t][i] # Empty
               PROVE  tab'[t][i] # Empty
    OBVIOUS
  <2>1. CASE UNCHANGED tab
    BY <2>1
  <2>2. CASE \E h \in Clients : Store(h)
    <3>1. PICK h \in Clients : Store(h)
      BY <2>2
    <3>2. hfd[h] # Empty
      BY <3>1, Assumptions
      DEF Store, At, Inv, TypeOK, HandlersTypeOK, HasRequest, ListingPCs, AllAssumptions,
          ProcessAssumption
    <3> QED
      BY <3>1, <3>2 DEF Store, Inv, TypeOK, ProcessTypeOK
  <2>3. UNCHANGED tab \/ \E h \in Clients : Store(h)
    BY DEF Next, vars, procVars, MainStep, Setup, Accept, AcceptFails, Spawn,
           HandlerStep, Start, RecvRequest, RecvEof, RecvError, Dispatch, ExitProcess,
           Reject, AnswerGet, CopyChunk, CopyFails, CopyDone, AnswerDir, DupOut,
           DupErr, Dup, ExecLs, LsWrites, ScanFree, ScanTaken, ScanFull, HandlerWriteFails, SnifferStep,
           Deliver, OpenDevice, Capture, Classify, SkipSlot, TakeSlot, NextTable,
           WriteHeader, WriteBody, SnifferWriteFails, PrintOn, Arrive, Connect,
           ClientStep, SendRequest, ReadItem, Leave
  <2> QED
    BY <2>1, <2>2, <2>3
<1> QED
  BY <1>1, Invariance, PTL DEF Spec, SlotsNeverFreed

\* A sniff request is refused, and the process ended, only when its table is
\* full, whatever other handlers stored meanwhile.
THEOREM RefusalsJustified == Spec => RefusedOnlyWhenFull
<1>1. Inv /\ [Next]_vars =>
        [\A h \in Clients : hpc[h] = "scan" /\ hpc'[h] = "exit" =>
           \A i \in Slots : tab[MyTable(h)][i] # Empty]_vars
  <2> SUFFICES ASSUME Inv, [Next]_vars, NEW h \in Clients,
                      hpc[h] = "scan", hpc'[h] = "exit"
               PROVE  \A i \in Slots : tab[MyTable(h)][i] # Empty
    OBVIOUS
  <2> USE DEF Inv, TypeOK, HandlersTypeOK, At, Goto
  <2>1. CASE ScanFull(h)
    <3>1. hpos[h] = MAXCLIENTS /\ \A i \in Slots : i < MAXCLIENTS
      BY <2>1, Assumptions DEF ScanFull, Slots, AllAssumptions, ProcessAssumption
    <3> QED
      BY <3>1 DEF PrefixFilled
  <2>2. PICK g \in Clients : HandlerStep(g)
    BY DEF Next, vars, handlerVars, threadVars, MainStep, Setup, Accept, AcceptFails,
           Spawn, PrintOn
  <2>3. CASE g # h
    BY <2>2, <2>3
    DEF HandlerStep, Start, RecvRequest, RecvEof, RecvError, Dispatch, ExitProcess,
        Reject, AnswerGet, CopyChunk, CopyFails, CopyDone, AnswerDir, DupOut,
        DupErr, Dup, ExecLs, LsWrites, ScanFree, ScanTaken, ScanFull, Store, Return, HandlerWriteFails,
        handlerVars, threadVars
  <2>4. CASE g = h /\ ~ScanFull(h)
    BY <2>2, <2>4
    DEF HandlerStep, Start, RecvRequest, RecvEof, RecvError, Dispatch, ExitProcess,
        Reject, AnswerGet, CopyChunk, CopyFails, CopyDone, AnswerDir, DupOut,
        DupErr, Dup, ExecLs, LsWrites, ScanFree, ScanTaken, Store, Return, HandlerWriteFails,
        handlerVars, threadVars
  <2> QED
    BY <2>1, <2>3, <2>4
<1> QED
  BY <1>1, Invariance, PTL DEF Spec, RefusedOnlyWhenFull
=============================================================================
