--------------------------- MODULE DeliveryProofs ---------------------------
(***************************************************************************)
(* That the server is the service of PubSub: its initial states are that   *)
(* service's, and under the invariant of StreamProofs every step of it is  *)
(* a step of the service or changes nothing the service shows.             *)
(***************************************************************************)
EXTENDS StreamProofs, Delivery

-----------------------------------------------------------------------------
(* The invariant *)

\* A frame is handed to no table twice.
Straight == \A i, j \in DOMAIN route : route[i] = route[j] => i = j

ServiceInv == StreamInv /\ Straight

\* The table of the ethertype is none of those of ip_p.
LEMMA RouteStraight ==
  ASSUME NEW f \in Frames
  PROVE  \A i, j \in DOMAIN Route(f) : Route(f)[i] = Route(f)[j] => i = j
<1> DEFINE e == EtherTable[f.ether]
           p == ProtoTable[f.proto]
<1>1. f.ether \in {"IP", "ARP", "RARP"}
      /\ f.proto \in {"tcp", "udp", "icmp", "igmp", "other"}
  BY Assumptions DEF AllAssumptions, ProcessAssumption, Capturable, AnyFrame
<1>2. e \in Seq({"IP", "ARP"}) /\ Len(e) <= 1
  <2>1. CASE f.ether = "IP"
    BY <2>1 DEF EtherTable
  <2>2. CASE f.ether = "ARP"
    BY <2>2 DEF EtherTable
  <2>3. CASE f.ether = "RARP"
    BY <2>3 DEF EtherTable
  <2> QED
    BY <1>1, <2>1, <2>2, <2>3
<1>3. p \in Seq({"TCP", "UDP", "ICMP", "IGMP"}) /\ Len(p) <= 1
  <2>1. CASE f.proto = "tcp"
    BY <2>1 DEF ProtoTable
  <2>2. CASE f.proto = "udp"
    BY <2>2 DEF ProtoTable
  <2>3. CASE f.proto = "icmp"
    BY <2>3 DEF ProtoTable
  <2>4. CASE f.proto = "igmp"
    BY <2>4 DEF ProtoTable
  <2>5. CASE f.proto = "other"
    BY <2>5 DEF ProtoTable
  <2> QED
    BY <1>1, <2>1, <2>2, <2>3, <2>4, <2>5
<1>4. Route(f) = << >> \/ Route(f) = e \o p
  BY DEF Route
<1> HIDE DEF e, p
<1>5. e \in Seq(Tables) /\ p \in Seq(Tables)
  BY <1>2, <1>3 DEF Tables
<1>6. /\ Len(e \o p) = Len(e) + Len(p) /\ Len(e) \in Nat /\ Len(p) \in Nat
      /\ DOMAIN (e \o p) = 1..(Len(e) + Len(p))
      /\ \A i \in 1..(Len(e) + Len(p)) :
           (e \o p)[i] = IF i <= Len(e) THEN e[i] ELSE p[i - Len(e)]
  BY <1>5
<1>7. \A i \in 1..(Len(e) + Len(p)) :
        (e \o p)[i] \in {"IP", "ARP"} <=> i <= Len(e)
  <2> SUFFICES ASSUME NEW i \in 1..(Len(e) + Len(p))
               PROVE  (e \o p)[i] \in {"IP", "ARP"} <=> i <= Len(e)
    OBVIOUS
  <2>1. i <= Len(e) => e[i] \in {"IP", "ARP"}
    BY <1>2
  <2>2. ~(i <= Len(e)) => p[i - Len(e)] \in {"TCP", "UDP", "ICMP", "IGMP"}
    BY <1>3, <1>6
  <2> QED
    BY <1>6, <2>1, <2>2
<1>8. \A i, j \in 1..(Len(e) + Len(p)) :
        (i <= Len(e) <=> j <= Len(e)) => i = j
  BY <1>2, <1>3, <1>6
<1>9. \A i, j \in DOMAIN (e \o p) : (e \o p)[i] = (e \o p)[j] => i = j
  BY <1>6, <1>7, <1>8
<1>10. CASE Route(f) = << >>
  BY <1>10
<1> QED
  BY <1>4, <1>9, <1>10

\* Every step keeps it so.
LEMMA StepStraight ==
  ASSUME StreamInv, Straight, [AnyNext]_vars
  PROVE  Straight'
<1>1. CASE UNCHANGED route
  BY <1>1 DEF Straight
<1>2. CASE Classify
  <2>1. frame \in Frames /\ route' = Route(frame)
    BY <1>2 DEF Classify, DeliverTo, StreamInv, Inv, TypeOK, SnifferTypeOK
  <2> QED
    BY <2>1, RouteStraight DEF Straight
<1>3. CASE NextTable
  <2>1. route' = Tail(route) /\ route \in Seq(Tables) /\ route # << >>
    BY <1>3 DEF NextTable, DeliverTo, StreamInv, Inv, TypeOK, SnifferTypeOK
  <2>2. \A i \in DOMAIN Tail(route) :
          i \in Nat /\ i + 1 \in DOMAIN route /\ Tail(route)[i] = route[i + 1]
    BY <2>1
  <2>3. \A i, j \in Nat : i + 1 = j + 1 => i = j
    OBVIOUS
  <2> QED
    BY <2>1, <2>2, <2>3 DEF Straight
<1>4. CASE AnyNext /\ ~Classify /\ ~NextTable
  <2>1. ASSUME NEW c \in Clients, ClientMoves(c), UNCHANGED snifferVars
        PROVE  UNCHANGED route
    BY <2>1 DEF snifferVars
  <2>2. ASSUME SnifferStep
        PROVE  UNCHANGED route
    BY <1>4, <2>2 DEF SnifferStep, Deliver, OpenDevice, Capture, SkipSlot, TakeSlot,
                      WriteHeader, WriteBody, SnifferWriteFails, snifferVars
  <2>3. UNCHANGED route
    BY <1>4, <2>1, <2>2 DEF AnyNext, PrintOn, snifferVars
  <2> QED
    BY <1>1, <2>3
<1> QED
  BY <1>1, <1>2, <1>3, <1>4 DEF vars, snifferVars

\* Both hold of every state the server and its clients reach.
LEMMA InitService == Init => ServiceInv
BY InitStreams DEF Init, SnifferInit, ServiceInv, Straight

LEMMA StepService == ServiceInv /\ [AnyNext]_vars => ServiceInv'
BY StepStreams, StepStraight DEF ServiceInv

-----------------------------------------------------------------------------
(* What the service shows *)

shown == <<Subscriptions, Settled, Published, Due, Current, Unsent, SniffStreams>>

\* The types of what the proofs use.
LEMMA Types ==
  ASSUME StreamInv
  PROVE  /\ conn \in [Clients -> {"idle", "open", "gone"}]
         /\ outbox \in [Clients -> Seq(Items)]
         /\ tab \in [Tables -> [Slots -> Clients \cup {Empty}]] /\ Empty \notin Clients
         /\ hpc \in [Clients -> HandlerPCs] /\ hfd \in [Clients -> Clients \cup {NoFd}]
         /\ route \in Seq(Tables) /\ si \in Nat /\ NoFd \notin Clients
         /\ sfd \in Clients \cup {NoFd} /\ NoFrame \notin Frames
         /\ spc \in {"scan", "header", "body"} => frame \in Frames /\ route # << >>
         /\ spc \in {"header", "body"} => sfd \in Clients /\ si \in Slots
BY Assumptions DEF StreamInv, Inv, TypeOK, ProcessTypeOK, HandlersTypeOK, SnifferTypeOK,
   AllAssumptions, ProcessAssumption, Capturable

\* The slots the capture thread is to come to, as long as it stays where it is.
Remains(c) ==
  \E k \in DOMAIN route, i \in Slots : tab[route[k]][i] = c /\ Ahead(k, i)

\* Due as the clients in those slots.
LEMMA DueIs ==
  Due = {c \in Clients : Connected(c) /\ Published # NoFrame /\ Remains(c)}
BY DEF Due, Remains

\* A client to which the frame is still to be sent is subscribed to one of the
\* topics of the frame.
LEMMA DueInterested == StreamInv => Due \subseteq Service!Interested
<1> SUFFICES ASSUME StreamInv, NEW c \in Due
             PROVE  c \in Service!Interested
  OBVIOUS
<1>1. PICK k \in DOMAIN route, i \in Slots : tab[route[k]][i] = c
  BY DEF Due
<1>2. c \in Clients /\ Connected(c) /\ Published # NoFrame
  BY DEF Due
<1>3. spc \in {"scan", "header", "body"} /\ Published = frame /\ frame \in Frames
  BY <1>2, Types DEF Published
<1>4. PICK j \in DOMAIN Route(frame) : Route(frame)[j] = route[k]
  BY <1>3 DEF StreamInv, Routed
<1>5. route[k] \in Tables
  BY Types
<1>6. <<c, route[k]>> \in Subscriptions
  BY <1>1, <1>2, <1>5 DEF Subscriptions
<1> QED
  BY <1>2, <1>3, <1>4, <1>5, <1>6 DEF Service!Interested

LEMMA DueInterestedNext == (StreamInv => Due \subseteq Service!Interested)'
BY DueInterested, PTL

\* A step that touches neither tables nor the capture thread shows only what it
\* does to the readers and their streams.
LEMMA Elsewhere ==
  ASSUME UNCHANGED <<tab, conn, spc, frame, route, si, sfd>>
  PROVE  UNCHANGED <<Subscriptions, Published, Due, Current, Unsent>>
BY DEF Subscriptions, Published, Due, Current, Unsent, Connected, Ahead

-----------------------------------------------------------------------------
(* main and the handlers *)

\* main shows nothing of what it does.
LEMMA MainShown ==
  ASSUME StreamInv, MainStep, UNCHANGED snifferVars
  PROVE  UNCHANGED shown
<1> USE DEF connVars, procVars, threadVars
<1>1. UNCHANGED <<tab, conn, asked, outbox, hfd>>
  BY DEF MainStep, Setup, Accept, AcceptFails, Spawn
<1>2. \A g \in Clients : (hpc[g] = "done") = (hpc'[g] = "done")
  <2>1. CASE Setup \/ Accept \/ AcceptFails
    BY <2>1 DEF Setup, Accept, AcceptFails
  <2>2. CASE Spawn
    <3>1. hpc[client] = "none" /\ client \in Clients
      BY <2>2 DEF Spawn, StreamInv, Inv, Created, TypeOK, HandlersTypeOK
    <3> QED
      BY <2>2, <3>1, Types DEF Spawn
  <2> QED
    BY <2>1, <2>2 DEF MainStep
<1>3. Settled' = Settled
  BY <1>1, <1>2 DEF Settled, AsksFrames
<1>4. SniffStreams' = SniffStreams
  BY <1>1 DEF SniffStreams, AsksFrames, Connected
<1> QED
  BY <1>1, <1>3, <1>4, Elsewhere DEF shown, snifferVars

\* What a handler may do without being seen by readers: write where no frames are
\* asked for, as ls does, and return from there.
Private(h) ==
  /\ UNCHANGED <<tab, conn, asked>>
  /\ \A g \in Clients : g # h => hpc'[g] = hpc[g] /\ hfd'[g] = hfd[g]
  /\ hpc[h] # "done"
  /\ hpc'[h] = "done" => hpc[h] \in {"copy", "exec"} /\ hfd'[h] = hfd[h]
  /\ \A c \in Clients : outbox'[c] # outbox[c] =>
       /\ conn[c] = "open"
       /\ \/ c = hfd[h] /\ hpc[h] \in {"reject", "answer", "copy", "list"}
          \/ c \in {std[1], std[2]}

\* It does no more in any of its steps but the one that registers.
LEMMA PrivateSteps ==
  ASSUME NEW h \in Clients, StreamInv, HandlerStep(h), ~Store(h)
  PROVE  Private(h)
<1> USE Types DEF At, Running, Goto, Return, Write, connVars, procVars, threadVars,
                  mainVars, handlerVars
<1>1. CASE Start(h) \/ RecvRequest(h) \/ RecvEof(h) \/ RecvError(h)
  BY <1>1 DEF Start, RecvRequest, RecvEof, RecvError, Private
<1>2. CASE Dispatch(h)
  <2>1. NextPc(hreq[h]) # "done"
    BY DEF NextPc
  <2> QED
    BY <1>2, <2>1 DEF Dispatch, Private
<1>3. CASE ExitProcess(h) \/ CopyFails(h) \/ HandlerWriteFails(h)
  BY <1>3 DEF ExitProcess, CopyFails, HandlerWriteFails, Private
<1>4. CASE CopyDone(h) \/ DupOut(h) \/ DupErr(h) \/ ExecLs(h)
  BY <1>4 DEF CopyDone, DupOut, DupErr, Dup, ExecLs, Private
<1>5. CASE Reject(h)
  BY <1>5 DEF Reject, Private
<1>6. CASE AnswerGet(h)
  BY <1>6 DEF AnswerGet, Private
<1>7. CASE CopyChunk(h)
  BY <1>7 DEF CopyChunk, Private
<1>8. CASE AnswerDir(h)
  BY <1>8 DEF AnswerDir, Private
<1>9. CASE LsWrites(h)
  BY <1>9 DEF LsWrites, Private
<1>10. CASE ScanFree(h) \/ ScanTaken(h) \/ ScanFull(h)
  BY <1>10 DEF ScanFree, ScanTaken, ScanFull, Private
<1> QED
  BY <1>1, <1>2, <1>3, <1>4, <1>5, <1>6, <1>7, <1>8, <1>9, <1>10 DEF HandlerStep

\* Where it writes or returns it serves no client that asked for frames.
LEMMA ServesOther ==
  ASSUME StreamInv, NEW h \in Clients, NEW c \in Clients, hfd[h] = c,
         hpc[h] \in {"reject", "answer", "copy"} \cup ListingPCs, conn[c] # "gone"
  PROVE  ~AsksFrames(c)
<1>1. hpc[h] \in HasRequest
  BY DEF HasRequest
<1>2. conn[c] = "open"
  BY Types DEF StreamInv, Inv, Known
<1>3. hreq[h] = asked[c]
  BY <1>1, <1>2, TheRequest
<1>4. hreq[h].kind \in {REQUEST_GET, REQUEST_DIR}
  BY DEF StreamInv, Kinds
<1> QED
  BY <1>3, <1>4 DEF AsksFrames, REQUEST_GET, REQUEST_DIR, REQUEST_SNIFF

\* Nor does what is printed go to one.
LEMMA PrintsOther ==
  ASSUME StreamInv, NEW c \in Clients, c \in {std[1], std[2]}, conn[c] = "open"
  PROVE  ~AsksFrames(c)
BY DEF StreamInv, Inv, Redirected, AsksFrames, REQUEST_DIR, REQUEST_SNIFF

\* So it is not seen.
LEMMA PrivateShown ==
  ASSUME StreamInv, NEW h \in Clients, Private(h), UNCHANGED snifferVars
  PROVE  UNCHANGED shown
<1>1. Settled' = Settled
  <2>1. ASSUME NEW c \in Clients, conn[c] # "gone", AsksFrames(c)
        PROVE  (\E g \in Clients : hfd[g] = c /\ hpc[g] = "done")
               <=> (\E g \in Clients : hfd'[g] = c /\ hpc'[g] = "done")
    <3>1. hfd[h] = c => hpc[h] \notin {"copy", "exec"}
      BY <2>1, ServesOther DEF ListingPCs
    <3> QED
      BY <3>1 DEF Private
  <2> QED
    BY <2>1 DEF Private, Settled, AsksFrames
<1>2. SniffStreams' = SniffStreams
  <2>1. ASSUME NEW c \in Clients, Connected(c), AsksFrames(c)
        PROVE  outbox'[c] = outbox[c]
    BY <2>1, ServesOther, PrintsOther DEF Private, Connected, ListingPCs
  <2> QED
    BY <2>1 DEF Private, SniffStreams, AsksFrames, Connected
<1> QED
  BY <1>1, <1>2, Elsewhere DEF Private, shown, snifferVars

\* What a thread prints is not seen either.
LEMMA PrintShown ==
  ASSUME StreamInv, NEW n \in {1, 2}, PrintOn(n)
  PROVE  UNCHANGED shown
<1>1. UNCHANGED <<tab, conn, asked, hpc, hfd, spc, frame, route, si, sfd>>
  BY DEF PrintOn, handlerVars, threadVars, snifferVars
<1>2. Settled' = Settled
  BY <1>1 DEF Settled, AsksFrames
<1>3. SniffStreams' = SniffStreams
  <2>1. ASSUME NEW c \in Clients, Connected(c), AsksFrames(c)
        PROVE  outbox'[c] = outbox[c]
    <3>1. c # std[n]
      BY <2>1, PrintsOther DEF Connected
    <3> QED
      BY <3>1, Types DEF PrintOn, Write
  <2> QED
    BY <1>1, <2>1 DEF SniffStreams, AsksFrames, Connected
<1> QED
  BY <1>1, <1>2, <1>3, Elsewhere DEF shown

-----------------------------------------------------------------------------
(* Registration *)

\* Before a thread registers a connected client no thread has returned from it,
\* and it is in no table.
LEMMA NotYet ==
  ASSUME StreamInv, NEW h \in Clients, Store(h), conn[hfd[h]] = "open"
  PROVE  /\ \A g \in Clients : hfd[g] = hfd[h] => hpc[g] # "done"
         /\ \A t \in Tables, i \in Slots : tab[t][i] # hfd[h]
<1>1. hpc[h] = "store" /\ hpc[h] \in HasRequest /\ hfd[h] \in Clients
  BY DEF Store, At, HasRequest, StreamInv, Inv, TypeOK, HandlersTypeOK
<1>2. ASSUME NEW g \in Clients, hfd[g] = hfd[h] PROVE hpc[g] # "done"
  <2>1. ASSUME hpc[g] = "done" PROVE g = h
    <3>1. hpc[g] \in HasRequest \cup Late /\ hpc[h] \in HasRequest \cup Late
      BY <1>1, <2>1 DEF Late
    <3> QED
      BY <1>1, <1>2, <3>1, TheHandler DEF StreamInv
  <2> QED
    BY <1>1, <2>1
<1>3. ASSUME NEW t \in Tables, NEW i \in Slots PROVE tab[t][i] # hfd[h]
  BY <1>1, <1>2 DEF StreamInv, Inv, Registered
<1> QED
  BY <1>2, <1>3

\* A registration is the replacement of the client in that slot, if it is one
\* that is still there, by the client of the thread, if that is.
LEMMA StoreReplaces ==
  ASSUME StreamInv, StreamInv', NEW h \in Clients, Store(h), UNCHANGED snifferVars
  PROVE  \E old, new \in Service!AtMostOne, t \in Tables : Service!Replace(old, new, t)
<1> DEFINE c == hfd[h]
           t == MyTable(h)
           i == hpos[h]
           d == tab[t][i]
           new == IF conn[c] = "open" THEN {c} ELSE {}
           old == IF d \in Clients /\ conn[d] = "open" THEN {d} ELSE {}
<1>1. /\ c \in Clients /\ t \in Tables /\ i \in Slots /\ d \in Clients \cup {Empty}
      /\ hreq[h].kind = REQUEST_SNIFF /\ hpc[h] = "store"
  <2>1. /\ hpc[h] = "store" /\ c \in Clients /\ i \in Slots
        /\ hreq[h].kind = REQUEST_SNIFF /\ hreq[h].path \in Protocols
    BY DEF Store, At, HasRequest, StreamInv, Inv, TypeOK, HandlersTypeOK
  <2>2. t \in Tables
    BY <2>1, TableOfType DEF MyTable
  <2> HIDE DEF t, i
  <2>3. d \in Clients \cup {Empty}
    BY <2>1, <2>2, Types
  <2> QED
    BY <2>1, <2>2, <2>3
<1>2. /\ UNCHANGED <<conn, asked, outbox, hfd>>
      /\ hpc' = [hpc EXCEPT ![h] = "done"]
      /\ tab' = [tab EXCEPT ![t][i] = c]
  BY DEF Store, Goto, Return, connVars
<1>3. /\ \A u \in Tables, j \in Slots :
           tab'[u][j] = IF u = t /\ j = i THEN c ELSE tab[u][j]
      /\ \A g \in Clients : hpc'[g] = IF g = h THEN "done" ELSE hpc[g]
  BY <1>1, <1>2, Types
<1>4. conn[c] \in {"open", "gone"}
  BY <1>1, Types DEF StreamInv, Inv, Known
<1>5. ASSUME conn[c] = "open"
      PROVE  /\ AsksFrames(c)
             /\ \A g \in Clients : hfd[g] = c => hpc[g] # "done"
             /\ \A u \in Tables, j \in Slots : tab[u][j] # c
  <2>1. hreq[h] = asked[c] /\ asked[c] # NoRequest
    BY <1>1, <1>5, TheRequest DEF HasRequest, StreamInv, Inv, Received, Serves
  <2> QED
    BY <1>1, <1>5, <2>1, NotYet DEF AsksFrames
<1>6. ASSUME d \in Clients, conn[d] = "open"
      PROVE  /\ d # c
             /\ \A u \in Tables, j \in Slots : tab[u][j] = d => u = t /\ j = i
  BY <1>1, <1>5, <1>6 DEF StreamInv, Inv, RegisteredOnce
<1> HIDE DEF c, t, i, d
<1>7. old \in Service!AtMostOne /\ new \in Service!AtMostOne
  BY <1>1 DEF Service!AtMostOne
<1>8. new \cap Settled = {}
  BY <1>5 DEF Settled
<1>9. old \X {t} \subseteq Subscriptions
  BY <1>1 DEF Subscriptions, Connected, d
<1>10. Settled' = Settled \cup new
  <2>1. ASSUME NEW x \in Clients
        PROVE  x \in Settled' <=> x \in Settled \cup new
    <3>1. CASE x = c /\ conn[c] = "open"
      <4>1. x \in new
        BY <3>1
      <4>2. AsksFrames(x)' /\ hfd'[h] = x /\ hpc'[h] = "done"
        BY <1>2, <1>3, <1>5, <3>1 DEF AsksFrames, c
      <4> QED
        BY <4>1, <4>2 DEF Settled
    <3>2. CASE x = c /\ conn[c] = "gone"
      BY <1>2, <3>2 DEF Settled
    <3>3. CASE x # c
      <4>1. \A g \in Clients : hfd[g] = x => hpc'[g] = hpc[g]
        BY <1>3, <3>3 DEF c
      <4> QED
        BY <1>2, <3>3, <4>1 DEF Settled, AsksFrames
    <3> QED
      BY <1>4, <3>1, <3>2, <3>3
  <2>2. Settled' \subseteq Clients /\ Settled \subseteq Clients /\ new \subseteq Clients
    BY <1>1 DEF Settled
  <2> QED
    BY <2>1, <2>2
<1>11. Subscriptions' = (Subscriptions \ (old \X {t})) \cup (new \X {t})
  <2>1. ASSUME NEW x \in Clients, NEW u \in Tables
        PROVE  (Connected(x) /\ \E j \in Slots : tab'[u][j] = x)
               <=> \/ /\ Connected(x) /\ \E j \in Slots : tab[u][j] = x
                      /\ ~(x \in old /\ u = t)
                   \/ x \in new /\ u = t
    <3>1. CASE x \in new /\ u = t
      BY <1>1, <1>3, <3>1 DEF Connected
    <3>2. CASE x \in old /\ u = t
      <4>1. x = d /\ d \in Clients /\ conn[d] = "open"
        BY <3>2
      <4>2. \A j \in Slots : tab'[u][j] # x
        BY <1>1, <1>3, <1>6, <3>2, <4>1
      <4>3. x \notin new
        BY <1>6, <4>1
      <4> QED
        BY <3>2, <4>2, <4>3
    <3>3. CASE ~(x \in new /\ u = t) /\ ~(x \in old /\ u = t)
      <4>1. \A j \in Slots : Connected(x) => (tab'[u][j] = x <=> tab[u][j] = x)
        BY <1>1, <1>3, <3>3 DEF Connected, d
      <4> QED
        BY <3>3, <4>1
    <3> QED
      BY <3>1, <3>2, <3>3
  <2>2. \A x : Connected(x)' <=> Connected(x)
    BY <1>2 DEF Connected
  <2>3. ASSUME NEW s \in Clients \X Tables
        PROVE  s \in Subscriptions'
               <=> s \in (Subscriptions \ (old \X {t})) \cup (new \X {t})
    <3>1. s = <<s[1], s[2]>> /\ s[1] \in Clients /\ s[2] \in Tables
      OBVIOUS
    <3> QED
      BY <2>1, <2>2, <3>1 DEF Subscriptions
  <2>4. /\ Subscriptions' \subseteq Clients \X Tables
        /\ Subscriptions \subseteq Clients \X Tables
        /\ new \X {t} \subseteq Clients \X Tables
    BY <1>1 DEF Subscriptions
  <2> QED
    BY <2>3, <2>4
<1>12. Due' \in {Due \ old, (Due \ old) \cup new}
  <2>1. \A x \in Clients : Connected(x)' <=> Connected(x)
    BY <1>2 DEF Connected
  <2>2. route' = route /\ Published' = Published /\ \A k, j : Ahead(k, j)' <=> Ahead(k, j)
    BY DEF snifferVars, Published, Ahead
  <2>3. \A k \in DOMAIN route : route[k] \in Tables
    BY Types
  <2>4. ASSUME NEW x \in Clients \ new, Connected(x)
        PROVE  Remains(x)' <=> Remains(x) /\ x \notin old
    <3>1. x # c
      BY <2>4 DEF Connected
    <3>2. CASE x \in old
      <4>1. x = d /\ d \in Clients /\ conn[d] = "open"
        BY <3>2
      <4>2. \A u \in Tables, j \in Slots : tab'[u][j] # x
        BY <1>3, <1>6, <4>1
      <4> QED
        BY <2>2, <2>3, <3>2, <4>2 DEF Remains
    <3>3. CASE x \notin old
      <4>1. \A u \in Tables, j \in Slots : tab'[u][j] = x <=> tab[u][j] = x
        BY <1>3, <2>4, <3>1, <3>3 DEF Connected, d
      <4> QED
        BY <2>2, <2>3, <3>3, <4>1 DEF Remains
    <3> QED
      BY <3>2, <3>3
  <2>5. \A x \in Clients \ new : x \in Due' <=> x \in Due \ old
    BY <2>1, <2>2, <2>4 DEF Due, Remains
  <2>6. \A x \in new : x \notin Due
    BY <1>5, <2>3 DEF Due
  <2>7. Due' \subseteq Clients /\ Due \subseteq Clients /\ new \in {{}, {c}}
    BY DEF Due
  <2>8. CASE new = {}
    BY <2>5, <2>7, <2>8 DEF Due
  <2>9. CASE new = {c} /\ c \in Due'
    <3>1. Due' = (Due \ old) \cup new
      BY <2>5, <2>6, <2>9 DEF Due
    <3> QED
      BY <3>1
  <2>10. CASE new = {c} /\ c \notin Due'
    <3>1. Due' = Due \ old
      BY <2>5, <2>6, <2>10 DEF Due
    <3> QED
      BY <3>1
  <2> QED
    BY <2>8, <2>9, <2>10
<1>13. Due' \subseteq (Service!Interested)'
  BY DueInterestedNext
<1>14. UNCHANGED <<Published, Current, Unsent, SniffStreams>>
  BY <1>2 DEF Published, Current, Unsent, SniffStreams, Connected, AsksFrames, snifferVars
<1> HIDE DEF old, new
<1>15. Service!Replace(old, new, t)
  BY <1>8, <1>9, <1>10, <1>11, <1>12, <1>13, <1>14 DEF Service!Replace
<1> QED
  BY <1>1, <1>7, <1>15

-----------------------------------------------------------------------------
(* The capture thread *)

\* It touches neither connections nor what the handlers stored, so that readers
\* only see what it writes.
LEMMA SnifferSees ==
  ASSUME SnifferStep, UNCHANGED handlerVars
  PROVE  /\ UNCHANGED <<conn, asked, tab, hfd, hpc>>
         /\ UNCHANGED <<Subscriptions, Settled>>
         /\ ~WriteHeader /\ ~WriteBody => UNCHANGED outbox /\ UNCHANGED SniffStreams
<1> USE DEF SnifferStep, Deliver, OpenDevice, Capture, Classify, SkipSlot, TakeSlot,
            NextTable, WriteHeader, WriteBody, SnifferWriteFails,
            procVars, connVars, handlerVars, threadVars, snifferVars
<1>1. UNCHANGED <<conn, asked, tab, hfd, hpc>>
  OBVIOUS
<1>2. ~WriteHeader /\ ~WriteBody => UNCHANGED outbox
  OBVIOUS
<1> QED
  BY <1>1, <1>2 DEF Subscriptions, Settled, SniffStreams, Connected, AsksFrames

\* Before it has a frame to send, and when its write fails, it shows nothing.
LEMMA UnseenSteps ==
  ASSUME StreamInv, OpenDevice \/ Capture \/ SnifferWriteFails, UNCHANGED handlerVars
  PROVE  UNCHANGED shown
<1>1. UNCHANGED <<conn, tab, Subscriptions, Settled, SniffStreams>>
  BY SnifferSees DEF SnifferStep, Deliver, OpenDevice, Capture, SnifferWriteFails,
                     WriteHeader, WriteBody, snifferVars
<1>2. CASE OpenDevice \/ Capture
  BY <1>1, <1>2 DEF OpenDevice, Capture, shown, Published, Due, Current, Unsent
<1>3. CASE SnifferWriteFails
  BY <1>1, <1>3, Elsewhere DEF SnifferWriteFails, shown, snifferVars
<1> QED
  BY <1>2, <1>3

\* A frame with a table to go to is published to the clients in its tables, from
\* the first slot of the first one; a frame with none is never seen.
LEMMA ClassifyPublishes ==
  ASSUME StreamInv, StreamInv', Classify, UNCHANGED handlerVars
  PROVE  UNCHANGED shown \/ \E f \in Frames : Service!Publish(f)
<1>1. /\ UNCHANGED <<conn, tab, sfd, Subscriptions, Settled, SniffStreams>>
      /\ frame \in Frames /\ spc = "classify"
      /\ route' = Route(frame) /\ si' = 0
  BY SnifferSees DEF Classify, DeliverTo, SnifferStep, Deliver, WriteHeader, WriteBody,
                     StreamInv, Inv, TypeOK, SnifferTypeOK
<1>2. Published = NoFrame /\ Current = NoFd /\ Unsent = << >> /\ Due = {}
  BY <1>1 DEF Published, Current, Unsent, Due
<1>3. CASE Route(frame) = << >>
  <2>1. spc' = "capture"
    BY <1>3 DEF Classify, DeliverTo
  <2>2. Published' = NoFrame /\ Current' = NoFd /\ Unsent' = << >> /\ Due' = {}
    BY <2>1 DEF Published, Current, Unsent, Due
  <2> QED
    BY <1>1, <1>2, <2>2 DEF shown
<1>4. CASE Route(frame) # << >>
  <2>1. spc' = "scan" /\ frame' = frame
    BY <1>4 DEF Classify, DeliverTo
  <2>2. Published' = frame /\ Current' = NoFd /\ Unsent' = << >>
    BY <2>1 DEF Published, Current, Unsent
  <2>3. \A k \in DOMAIN route', i \in Slots : Ahead(k, i)'
    BY <1>1, <2>1, Assumptions DEF Ahead, Slots, AllAssumptions, ProcessAssumption
  <2>4. ASSUME NEW c \in (Service!Interested)' PROVE c \in Due'
    <3>1. PICK u \in Tables :
            /\ <<c, u>> \in Subscriptions' /\ Published' # NoFrame
            /\ u \in {Route(frame)[i] : i \in DOMAIN Route(frame)}
      BY <1>1, <2>2, <2>4 DEF Service!Interested
    <3>2. PICK k \in DOMAIN route' : route'[k] = u
      BY <1>1, <3>1
    <3>3. c \in Clients /\ Connected(c)' /\ \E i \in Slots : tab'[u][i] = c
      BY <3>1, <2>4 DEF Subscriptions, Service!Interested
    <3> QED
      BY <2>3, <3>1, <3>2, <3>3 DEF Due
  <2>5. Due' = (Service!Interested)'
    BY <2>4, DueInterestedNext
  <2>6. Service!Publish(frame)
    BY <1>1, <1>2, <2>2, <2>5 DEF Service!Publish
  <2> QED
    BY <1>1, <2>6
<1> QED
  BY <1>3, <1>4

\* A free slot has no client to be served.
LEMMA SkipShown ==
  ASSUME StreamInv, SkipSlot, UNCHANGED handlerVars
  PROVE  UNCHANGED shown
<1>1. /\ UNCHANGED <<conn, tab, sfd, spc, frame, route>>
      /\ UNCHANGED <<Subscriptions, Settled, SniffStreams>>
      /\ spc = "scan" /\ si' = si + 1 /\ tab[Head(route)][si] = Empty
  BY SnifferSees DEF SkipSlot, SnifferStep, Deliver, WriteHeader, WriteBody
<1>2. UNCHANGED <<Published, Current, Unsent>>
  BY <1>1 DEF Published, Current, Unsent, Connected
<1>3. ASSUME NEW c \in Clients, NEW k \in DOMAIN route, NEW i \in Slots,
             tab[route[k]][i] = c
      PROVE  Ahead(k, i)' <=> Ahead(k, i)
  <2>1. si \in Nat /\ i \in Nat /\ route \in Seq(Tables) /\ Empty \notin Clients
    BY Types DEF Slots
  <2>2. k = 1 => route[k] = Head(route)
    BY <2>1
  <2>3. k = 1 => i # si
    BY <1>1, <1>3, <2>1, <2>2
  <2> QED
    BY <1>1, <2>1, <2>3 DEF Ahead
<1>4. Due' = Due
  BY <1>1, <1>2, <1>3 DEF Due, Connected
<1> QED
  BY <1>1, <1>2, <1>4 DEF shown

\* A taken slot begins the sending to its client, which stands nowhere else; if
\* that client left nothing is seen.
LEMMA TakeBegins ==
  ASSUME StreamInv, Straight, TakeSlot, UNCHANGED handlerVars
  PROVE  UNCHANGED shown \/ \E c \in Clients : Service!Begin(c)
<1> DEFINE d == tab[Head(route)][si]
<1>1. /\ UNCHANGED <<conn, tab, si, frame, route>>
      /\ UNCHANGED <<Subscriptions, Settled, SniffStreams>>
      /\ spc = "scan" /\ spc' = "header" /\ sfd' = d /\ d # Empty /\ si < MAXCLIENTS
  BY SnifferSees DEF TakeSlot, SnifferStep, Deliver, WriteHeader, WriteBody
<1>2. /\ route \in Seq(Tables) /\ route # << >> /\ 1 \in DOMAIN route
      /\ route[1] = Head(route) /\ route[1] \in Tables
      /\ frame \in Frames /\ NoFrame \notin Frames /\ NoFd \notin Clients
      /\ si \in Nat /\ si \in Slots
  <2>1. route \in Seq(Tables) /\ route # << >> /\ si \in Nat
    BY <1>1, Types
  <2>2. 1 \in DOMAIN route /\ route[1] = Head(route) /\ route[1] \in Tables
    BY <2>1
  <2>3. si \in Slots
    BY <1>1, <2>1, Assumptions DEF Slots, AllAssumptions, ProcessAssumption
  <2> QED
    BY <1>1, <2>1, <2>2, <2>3, Types
<1>3. d \in Clients
  BY <1>1, <1>2, Types
<1> HIDE DEF d
<1>4. Published' = frame /\ Published = frame /\ Current = NoFd /\ Unsent = << >>
  BY <1>1 DEF Published, Current, Unsent
<1>5. \A k, i : (Ahead(k, i)' <=> k = 1 => si < i)
                /\ (Ahead(k, i) <=> (Ahead(k, i)' \/ (k = 1 /\ i = si)))
  BY <1>1 DEF Ahead
<1>6. ASSUME NEW c \in Clients, c # d
      PROVE  Remains(c)' <=> Remains(c)
  <2>1. \A k \in DOMAIN route, i \in Slots :
          tab[route[k]][i] = c => ~(k = 1 /\ i = si)
    BY <1>2, <1>6 DEF d
  <2> QED
    BY <1>1, <1>5, <2>1 DEF Remains
<1>7. CASE conn[d] = "open"
  <2>1. Current' = d /\ Unsent' = <<Header(frame), Packet(frame)>>
    BY <1>1, <1>2, <1>3, <1>7 DEF Current, Unsent, Connected
  <2>2. d \in Due
    BY <1>2, <1>3, <1>4, <1>5, <1>7 DEF Due, Connected, d
  <2>3. d \notin Due'
    <3>1. \A k \in DOMAIN route, i \in Slots :
            tab[route[k]][i] = d => route[k] = route[1] /\ i = si
      <4>1. \A k \in DOMAIN route : route[k] \in Tables
        BY <1>2
      <4> QED
        BY <1>2, <1>3, <1>7, <4>1 DEF d, StreamInv, Inv, RegisteredOnce
    <3>2. \A k \in DOMAIN route, i \in Slots :
            tab[route[k]][i] = d => k = 1 /\ i = si
      BY <1>2, <3>1 DEF Straight
    <3> QED
      BY <1>1, <1>2, <1>5, <3>2 DEF Due
  <2>4. Due' = Due \ {d}
    BY <1>1, <1>4, <1>6, <2>3, DueIs DEF Due, Remains, Connected
  <2>5. Service!Begin(d)
    BY <1>1, <1>2, <1>3, <1>4, <2>1, <2>2, <2>4 DEF Service!Begin
  <2> QED
    BY <1>3, <2>5
<1>8. CASE conn[d] # "open"
  <2>1. Current' = NoFd /\ Unsent' = << >>
    BY <1>1, <1>8 DEF Current, Unsent, Connected
  <2>2. Due' = Due
    BY <1>1, <1>4, <1>6, <1>8 DEF Due, Remains, Connected
  <2> QED
    BY <1>1, <1>4, <2>1, <2>2 DEF shown
<1> QED
  BY <1>7, <1>8

\* Behind the last slot of a table nobody is due in it; behind that of the last
\* table nobody at all.
LEMMA NextFinishes ==
  ASSUME StreamInv, NextTable, UNCHANGED handlerVars
  PROVE  UNCHANGED shown \/ Service!Finish
<1>1. /\ UNCHANGED <<conn, tab, sfd, Subscriptions, Settled, SniffStreams>>
      /\ spc = "scan" /\ si = MAXCLIENTS /\ route' = Tail(route) /\ si' = 0
  BY SnifferSees DEF NextTable, DeliverTo, SnifferStep, Deliver, WriteHeader, WriteBody
<1>2. /\ route \in Seq(Tables) /\ route # << >> /\ frame \in Frames
      /\ NoFrame \notin Frames
  BY <1>1, Types
<1>3. \A i \in Slots : i \in Nat /\ 0 <= i /\ i < MAXCLIENTS
  BY Assumptions DEF Slots, AllAssumptions, ProcessAssumption
<1>4. Published = frame /\ Current = NoFd /\ Unsent = << >>
  BY <1>1 DEF Published, Current, Unsent
<1>5. \A k, i : Ahead(k, i) <=> (k = 1 => MAXCLIENTS < i \/ MAXCLIENTS = i)
  BY <1>1 DEF Ahead
<1>6. /\ \A k \in DOMAIN Tail(route) :
           k \in Nat /\ k >= 1 /\ k + 1 \in DOMAIN route /\ Tail(route)[k] = route[k + 1]
      /\ \A k \in DOMAIN route : k # 1 => k \in Nat /\ k - 1 \in DOMAIN Tail(route)
                                          /\ Tail(route)[k - 1] = route[k]
  BY <1>2
<1>7. CASE Tail(route) = << >>
  <2>1. spc' = "capture"
    BY <1>7 DEF NextTable, DeliverTo
  <2>2. Published' = NoFrame /\ Current' = NoFd /\ Unsent' = << >> /\ Due' = {}
    BY <2>1 DEF Published, Current, Unsent, Due
  <2>3. \A k \in DOMAIN route : k = 1
    BY <1>6, <1>7
  <2>4. \A k \in DOMAIN route, i \in Slots : ~Ahead(k, i)
    BY <1>3, <1>5, <2>3, Assumptions DEF AllAssumptions, ProcessAssumption
  <2>5. Due = {}
    BY <2>4 DEF Due
  <2> QED
    BY <1>1, <1>2, <1>4, <2>2, <2>5 DEF Service!Finish
<1>8. CASE Tail(route) # << >>
  <2>1. spc' = "scan" /\ frame' = frame
    BY <1>8 DEF NextTable, DeliverTo
  <2>2. Published' = frame /\ Current' = NoFd /\ Unsent' = << >>
    BY <2>1 DEF Published, Current, Unsent
  <2>3. \A k : \A i \in Slots : Ahead(k, i) <=> k # 1
    BY <1>3, <1>5, Assumptions DEF AllAssumptions, ProcessAssumption
  <2>4. \A k : \A i \in Slots : Ahead(k, i)'
    BY <1>1, <1>3, <2>1 DEF Ahead
  <2>5. ASSUME NEW c \in Clients
        PROVE  Remains(c)' <=> Remains(c)
    <3>1. ASSUME Remains(c) PROVE Remains(c)'
      <4>1. PICK k \in DOMAIN route, i \in Slots : tab[route[k]][i] = c /\ Ahead(k, i)
        BY <3>1 DEF Remains
      <4>2. k - 1 \in DOMAIN route' /\ tab'[route'[k - 1]][i] = c /\ Ahead(k - 1, i)'
        BY <1>1, <1>6, <2>3, <2>4, <4>1
      <4> QED
        BY <4>2 DEF Remains
    <3>2. ASSUME Remains(c)' PROVE Remains(c)
      <4>1. PICK k \in DOMAIN route', i \in Slots : tab'[route'[k]][i] = c
        BY <3>2 DEF Remains
      <4>2. k + 1 \in DOMAIN route /\ tab[route[k + 1]][i] = c /\ Ahead(k + 1, i)
        BY <1>1, <1>6, <2>3, <4>1
      <4> QED
        BY <4>2 DEF Remains
    <3> QED
      BY <3>1, <3>2
  <2>6. Due' = Due
    BY <1>1, <1>4, <2>2, <2>5 DEF Due, Remains, Connected
  <2> QED
    BY <1>1, <1>4, <2>2, <2>6 DEF shown
<1> QED
  BY <1>7, <1>8

\* The two writes put the two parts of the frame on the stream of the client in
\* hand; to one that left they show nothing.
LEMMA WritePuts ==
  ASSUME StreamInv, WriteHeader \/ WriteBody, UNCHANGED handlerVars
  PROVE  UNCHANGED shown \/ Service!Put
<1> DEFINE item == IF spc = "header" THEN Header(frame) ELSE Packet(frame)
<1>1. /\ UNCHANGED <<conn, asked, tab, frame, route, Subscriptions, Settled>>
      /\ (spc = "header" /\ WriteHeader) \/ (spc = "body" /\ WriteBody)
  <2>1. SnifferStep /\ UNCHANGED <<frame, route>>
    BY DEF SnifferStep, Deliver, WriteHeader, WriteBody
  <2>2. (spc = "header" /\ WriteHeader) \/ (spc = "body" /\ WriteBody)
    BY DEF WriteHeader, WriteBody
  <2> QED
    BY <2>1, <2>2, SnifferSees
<1>2. /\ sfd \in Clients /\ si \in Slots /\ NoFd \notin Clients /\ frame \in Frames
      /\ outbox \in [Clients -> Seq(Items)]
  BY <1>1, Types
<1>3. spc = "header" => spc' = "body" /\ si' = si /\ sfd' = sfd
  BY <1>1 DEF WriteHeader
<1>4. spc = "body" => spc' = "scan" /\ si' = si + 1
  BY <1>1 DEF WriteBody
<1>5. Write(sfd, item)
  BY <1>1 DEF WriteHeader, WriteBody, Header
<1>6. Published' = frame /\ Published = frame
  BY <1>1, <1>3, <1>4 DEF Published
<1>7. Due' = Due
  <2>1. \A k : \A i \in Slots : Ahead(k, i)' <=> Ahead(k, i)
    BY <1>1, <1>2, <1>3, <1>4 DEF Ahead, Slots
  <2> QED
    BY <1>1, <1>6, <2>1 DEF Due, Connected
<1>8. CASE conn[sfd] = "open"
  <2>1. AsksFrames(sfd)
    BY <1>2, <1>8 DEF StreamInv, Delivering, AsksFrames
  <2>2. outbox' = [outbox EXCEPT ![sfd] = Append(@, item)]
    BY <1>5, <1>8 DEF Write
  <2>3. SniffStreams' = [SniffStreams EXCEPT ![sfd] = Append(@, item)]
    <3>1. \A c \in Clients : (Connected(c)' <=> Connected(c))
                             /\ (AsksFrames(c)' <=> AsksFrames(c))
      BY <1>1 DEF Connected, AsksFrames
    <3>2. \A c \in Clients : outbox'[c] = IF c = sfd THEN Append(outbox[c], item)
                                          ELSE outbox[c]
      BY <1>2, <2>2
    <3> HIDE DEF item
    <3> QED
      BY <1>2, <1>8, <2>1, <3>1, <3>2 DEF SniffStreams, Connected
  <2>4. Current = sfd /\ sfd # NoFd
    BY <1>1, <1>2, <1>8 DEF Current, Connected
  <2>5. Unsent # << >> /\ Head(Unsent) = item /\ Unsent' = Tail(Unsent)
        /\ Current' = IF Unsent' = << >> THEN NoFd ELSE Current
    <3>1. CASE spc = "header"
      BY <1>1, <1>2, <1>3, <1>8, <2>4, <3>1 DEF Unsent, Current, Connected
    <3>2. CASE spc = "body"
      BY <1>1, <1>2, <1>4, <1>8, <2>4, <3>2 DEF Unsent, Current, Connected
    <3> QED
      BY <1>1, <3>1, <3>2
  <2> HIDE DEF item
  <2> QED
    BY <1>1, <1>6, <1>7, <2>3, <2>4, <2>5 DEF Service!Put
<1>9. CASE conn[sfd] # "open"
  <2>1. outbox' = outbox
    BY <1>5, <1>9 DEF Write
  <2>2. SniffStreams' = SniffStreams
    BY <1>1, <2>1 DEF SniffStreams, Connected, AsksFrames
  <2>3. Current = NoFd /\ Unsent = << >> /\ Current' = NoFd /\ Unsent' = << >>
    BY <1>1, <1>3, <1>4, <1>9 DEF Current, Unsent, Connected
  <2> QED
    BY <1>1, <1>6, <1>7, <2>2, <2>3 DEF shown
<1> QED
  BY <1>8, <1>9

-----------------------------------------------------------------------------
(* The clients *)

\* One that connects or sends its request has subscribed to nothing and was sent
\* nothing yet.
LEMMA ArrivalShown ==
  ASSUME StreamInv, NEW d \in Clients, Arrive(d) \/ SendRequest(d),
         UNCHANGED <<handlerVars, snifferVars>>
  PROVE  UNCHANGED shown
<1>1. /\ UNCHANGED <<tab, outbox, hfd, hpc, spc, frame, route, si, sfd>>
      /\ outbox \in [Clients -> Seq(Items)]
      /\ conn \in [Clients -> {"idle", "open", "gone"}] /\ asked \in [Clients -> Asks \cup {NoRequest}]
  BY DEF Arrive, Connect, SendRequest, procVars, handlerVars, threadVars, snifferVars,
         StreamInv, Inv, TypeOK, ProcessTypeOK
<1>2. CASE Arrive(d)
  <2>1. /\ conn[d] = "idle" /\ conn' = [conn EXCEPT ![d] = "open"] /\ asked' = asked
    BY <1>2 DEF Arrive, Connect
  <2>2. /\ sfd # d /\ \A h \in Clients : hfd[h] # d
        /\ \A t \in Tables, i \in Slots : tab[t][i] # d
    BY <2>1 DEF StreamInv, Inv, Known
  <2>3. \A c \in Clients : c # d => (Connected(c)' <=> Connected(c))
                                    /\ (conn'[c] = "gone" <=> conn[c] = "gone")
    BY <1>1, <2>1 DEF Connected
  <2>4. outbox[d] = << >>
    BY <2>1, <2>2 DEF StreamInv, Streams, Stream, Begun
  <2>5. Subscriptions' = Subscriptions
    <3>1. \A s \in Clients \X Tables : s[1] \in Clients /\ s[2] \in Tables
      OBVIOUS
    <3> QED
      BY <1>1, <2>2, <2>3, <3>1 DEF Subscriptions
  <2>6. Settled' = Settled
    BY <1>1, <2>1, <2>2, <2>3 DEF Settled, AsksFrames
  <2>7. Published' = Published /\ Current' = Current /\ Unsent' = Unsent
    <3>1. spc \in {"header", "body"} => sfd \in Clients
      BY Types
    <3>2. Current' = Current
      BY <1>1, <2>2, <2>3, <3>1 DEF Current
    <3> QED
      BY <1>1, <3>2 DEF Published, Unsent
  <2>8. Due' = Due
    <3>1. \A k \in DOMAIN route : route[k] \in Tables
      BY Types
    <3> QED
      BY <1>1, <2>2, <2>3, <2>7, <3>1 DEF Due, Ahead
  <2>9. SniffStreams' = SniffStreams
    BY <1>1, <2>1, <2>3, <2>4 DEF SniffStreams, AsksFrames
  <2> QED
    BY <2>5, <2>6, <2>7, <2>8, <2>9 DEF shown
<1>3. CASE SendRequest(d)
  <2>1. /\ conn' = conn /\ conn[d] = "open" /\ asked[d] = NoRequest
        /\ \A c \in Clients : c # d => asked'[c] = asked[c]
    BY <1>1, <1>3 DEF SendRequest
  <2>2. outbox[d] = << >>
    BY <2>1 DEF StreamInv, Streams, Stream, Begun
  <2>3. \A h \in Clients : hfd[h] = d => hpc[h] # "done"
    BY <2>1 DEF StreamInv, Inv, Received, Serves
  <2>4. Settled' = Settled
    BY <1>1, <2>1, <2>3 DEF Settled, AsksFrames
  <2>5. SniffStreams' = SniffStreams
    BY <1>1, <2>1, <2>2 DEF SniffStreams, AsksFrames, Connected
  <2> QED
    BY <1>1, <2>1, <2>4, <2>5, Elsewhere DEF shown
<1> QED
  BY <1>2, <1>3

\* A read by one that asked for frames is a read of its stream.
LEMMA ReadReads ==
  ASSUME StreamInv, NEW d \in Clients, ReadItem(d),
         UNCHANGED <<handlerVars, snifferVars>>
  PROVE  UNCHANGED shown \/ Service!Read(d)
<1>1. /\ UNCHANGED <<tab, conn, asked, hfd, hpc, spc, frame, route, si, sfd>>
      /\ conn[d] = "open" /\ outbox[d] # << >>
      /\ outbox' = [outbox EXCEPT ![d] = Tail(@)]
      /\ outbox \in [Clients -> Seq(Items)]
  BY DEF ReadItem, procVars, handlerVars, threadVars, snifferVars,
         StreamInv, Inv, TypeOK, ProcessTypeOK
<1>2. UNCHANGED <<Subscriptions, Published, Due, Current, Unsent>>
  BY <1>1, Elsewhere
<1>3. Settled' = Settled
  BY <1>1 DEF Settled, AsksFrames
<1>4. \A c \in Clients : outbox'[c] = IF c = d THEN Tail(outbox[c]) ELSE outbox[c]
  BY <1>1
<1>5. \A c \in Clients : (Connected(c)' <=> Connected(c)) /\ (AsksFrames(c)' <=> AsksFrames(c))
  BY <1>1 DEF Connected, AsksFrames
<1>6. CASE AsksFrames(d)
  <2>1. SniffStreams[d] = outbox[d]
        /\ SniffStreams' = [SniffStreams EXCEPT ![d] = Tail(@)]
    BY <1>1, <1>4, <1>5, <1>6 DEF SniffStreams, Connected
  <2> QED
    BY <1>1, <1>2, <1>3, <2>1 DEF Service!Read
<1>7. CASE ~AsksFrames(d)
  <2>1. SniffStreams' = SniffStreams
    BY <1>4, <1>5, <1>7 DEF SniffStreams
  <2> QED
    BY <1>2, <1>3, <2>1 DEF shown
<1> QED
  BY <1>6, <1>7

\* One that leaves takes its subscription, its place in the delivery and its
\* stream with it.
LEMMA LeaveLeaves ==
  ASSUME StreamInv, NEW d \in Clients, Leave(d),
         UNCHANGED <<handlerVars, snifferVars>>
  PROVE  Service!Leave(d)
<1>1. /\ UNCHANGED <<tab, asked, hfd, hpc, spc, frame, route, si, sfd>>
      /\ conn[d] = "open" /\ conn' = [conn EXCEPT ![d] = "gone"]
      /\ outbox' = [outbox EXCEPT ![d] = << >>]
      /\ outbox \in [Clients -> Seq(Items)]
      /\ conn \in [Clients -> {"idle", "open", "gone"}]
  BY DEF Leave, procVars, handlerVars, threadVars, snifferVars,
         StreamInv, Inv, TypeOK, ProcessTypeOK
<1>2. ~Connected(d)' /\ conn'[d] = "gone"
      /\ \A c \in Clients : c # d => /\ (Connected(c)' <=> Connected(c))
                                     /\ (conn'[c] = "gone" <=> conn[c] = "gone")
                                     /\ outbox'[c] = outbox[c]
  BY <1>1 DEF Connected
<1>3. \A c \in Clients : AsksFrames(c)' <=> AsksFrames(c)
  BY <1>1 DEF AsksFrames
<1>4. Published' = Published
  BY <1>1 DEF Published
<1>5. Settled' = Settled \cup {d}
  <2>1. \A c \in Clients : c \in Settled' <=> c \in Settled \cup {d}
    BY <1>1, <1>2, <1>3 DEF Settled
  <2> QED
    BY <2>1 DEF Settled
<1>6. Subscriptions' = Subscriptions \ ({d} \X Tables)
  <2>1. \A s \in Clients \X Tables :
          s[1] \in Clients /\ s[2] \in Tables /\ (s \in {d} \X Tables <=> s[1] = d)
    OBVIOUS
  <2>2. \A s \in Clients \X Tables :
          s \in Subscriptions' <=> s \in Subscriptions \ ({d} \X Tables)
    BY <1>1, <1>2, <2>1 DEF Subscriptions
  <2>3. Subscriptions' \subseteq Clients \X Tables /\ Subscriptions \subseteq Clients \X Tables
    BY DEF Subscriptions
  <2> QED
    BY <2>2, <2>3
<1>7. Due' = Due \ {d}
  <2>1. \A c \in Clients : c \in Due' <=> c \in Due \ {d}
    BY <1>1, <1>2, <1>4 DEF Due, Ahead
  <2> QED
    BY <2>1 DEF Due
<1>8. IF Current = d THEN Current' = NoFd /\ Unsent' = << >>
                     ELSE UNCHANGED <<Current, Unsent>>
  <2>1. spc \in {"header", "body"} => sfd \in Clients
    BY Types
  <2>2. NoFd \notin Clients
    BY Types
  <2>3. CASE spc \in {"header", "body"} /\ sfd = d
    BY <1>1, <1>2, <2>1, <2>2, <2>3 DEF Current, Unsent, Connected
  <2>4. CASE ~(spc \in {"header", "body"} /\ sfd = d)
    <3>1. Current # d /\ Current' = Current
      BY <1>1, <1>2, <2>1, <2>2, <2>4 DEF Current
    <3> QED
      BY <1>1, <3>1 DEF Unsent
  <2> QED
    BY <2>3, <2>4
<1>9. SniffStreams' = [SniffStreams EXCEPT ![d] = << >>]
  BY <1>2, <1>3 DEF SniffStreams
<1> QED
  BY <1>4, <1>5, <1>6, <1>7, <1>8, <1>9 DEF Service!Leave

-----------------------------------------------------------------------------
(* The server and its clients *)

\* No frame, no registration and no stream to begin with.
LEMMA InitShown == Init => Service!Init
<1> SUFFICES ASSUME Init
             PROVE  Service!Init
  OBVIOUS
<1>1. StreamInv
  BY InitService DEF ServiceInv
<1>2. /\ \A c \in Clients : conn[c] = "idle" /\ asked[c] = NoRequest /\ outbox[c] = << >>
      /\ spc = "open"
  BY DEF Init, ProcessInit, SnifferInit
<1>3. Published = NoFrame /\ Current = NoFd /\ Unsent = << >> /\ Due = {}
  BY <1>2 DEF Published, Current, Unsent, Due
<1>4. Subscriptions = {} /\ Settled = {}
  <2>1. \A s \in Clients \X Tables : s[1] \in Clients
    OBVIOUS
  <2> QED
    BY <1>2, <2>1 DEF Subscriptions, Settled, Connected, AsksFrames
<1>5. SniffStreams = [c \in Clients |-> << >>]
  BY <1>2 DEF SniffStreams, Connected
<1> QED
  BY <1>3, <1>4, <1>5 DEF Service!Init

\* Every step is one of the service, or shows nothing.
LEMMA StepShown ==
  ASSUME ServiceInv, ServiceInv', [AnyNext]_vars
  PROVE  [Service!Next]_(Service!vars)
<1>1. StreamInv /\ StreamInv' /\ Straight
  BY DEF ServiceInv
<1>2. UNCHANGED shown => [Service!Next]_(Service!vars)
  BY DEF shown, Service!vars
<1>3. CASE UNCHANGED vars
  <2>1. UNCHANGED <<tab, conn, asked, outbox, hfd, hpc, spc, frame, route, si, sfd>>
    BY <1>3 DEF vars, procVars, connVars, handlerVars, threadVars, snifferVars
  <2>2. UNCHANGED <<Settled, SniffStreams>>
    BY <2>1 DEF Settled, SniffStreams, Connected, AsksFrames
  <2> QED
    BY <1>2, <2>1, <2>2, Elsewhere DEF shown
<1>4. CASE MainStep /\ UNCHANGED snifferVars
  BY <1>1, <1>2, <1>4, MainShown
<1>5. ASSUME NEW h \in Clients, HandlerStep(h) /\ UNCHANGED snifferVars
      PROVE  [Service!Next]_(Service!vars)
  <2>1. CASE Store(h)
    <3>1. PICK old \in Service!AtMostOne, new \in Service!AtMostOne, t \in Tables :
            Service!Replace(old, new, t)
      BY <1>1, <1>5, <2>1, StoreReplaces
    <3> QED
      BY <3>1 DEF Service!Next
  <2>2. CASE ~Store(h)
    BY <1>1, <1>2, <1>5, <2>2, PrivateSteps, PrivateShown
  <2> QED
    BY <2>1, <2>2
<1>6. CASE SnifferStep /\ UNCHANGED handlerVars
  <2>1. CASE OpenDevice \/ Capture \/ SnifferWriteFails
    BY <1>1, <1>2, <1>6, <2>1, UnseenSteps
  <2>2. CASE Classify
    BY <1>1, <1>2, <1>6, <2>2, ClassifyPublishes DEF Service!Next
  <2>3. CASE SkipSlot
    BY <1>1, <1>2, <1>6, <2>3, SkipShown
  <2>4. CASE TakeSlot
    BY <1>1, <1>2, <1>6, <2>4, TakeBegins DEF Service!Next
  <2>5. CASE NextTable
    BY <1>1, <1>2, <1>6, <2>5, NextFinishes DEF Service!Next
  <2>6. CASE WriteHeader \/ WriteBody
    BY <1>1, <1>2, <1>6, <2>6, WritePuts DEF Service!Next
  <2> QED
    BY <1>6, <2>1, <2>2, <2>3, <2>4, <2>5, <2>6 DEF SnifferStep, Deliver
<1>7. ASSUME NEW c \in Clients, ClientMoves(c), UNCHANGED <<handlerVars, snifferVars>>
      PROVE  [Service!Next]_(Service!vars)
  <2>1. CASE Arrive(c) \/ SendRequest(c)
    BY <1>1, <1>2, <1>7, <2>1, ArrivalShown
  <2>2. CASE ReadItem(c)
    BY <1>1, <1>2, <1>7, <2>2, ReadReads DEF Service!Next
  <2>3. CASE Leave(c)
    BY <1>1, <1>7, <2>3, LeaveLeaves DEF Service!Next
  <2> QED
    BY <1>7, <2>1, <2>2, <2>3 DEF ClientMoves
<1> QED
  BY <1>1, <1>2, <1>3, <1>4, <1>5, <1>6, <1>7, PrintShown DEF AnyNext

\* The server is the service it promises to be, for any number of clients, slots
\* and frames: its tables, threads and connections show subscriptions made once,
\* lost only by leaving or by another registration in the same topic, and frames
\* put whole on the streams of those due to get them, one after the other.
THEOREM ServerImplementsService == Spec => ServerIsService
<1>1. ServiceInv /\ ServiceInv' /\ [AnyNext]_vars => [Service!Next]_(Service!vars)
  BY StepShown
<1>2. Spec => []ServiceInv
  BY InitService, StepService, NextIsAny, PTL DEF Spec
<1>3. Spec => Service!Init /\ [][Service!Next]_(Service!vars)
  BY <1>1, <1>2, InitShown, NextIsAny, PTL DEF Spec
<1> QED
  BY <1>3 DEF ServerIsService, Service!Spec
=============================================================================
