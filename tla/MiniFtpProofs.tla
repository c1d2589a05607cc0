---------------------------- MODULE MiniFtpProofs ----------------------------
(***************************************************************************)
(* Proofs about MiniFtp, for any number of clients: the handler of SIGCHLD *)
(* blocks only after a child was stopped, the server of yassine leaks no   *)
(* descriptor and keeps open none but a connection a listing failed on, a  *)
(* child of trunk accepts only when it has done with its own client, and a *)
(* client stores the beginning of the file it asked for.  IInv is what the *)
(* first needs of the processes; FtpInv adds what travels on the           *)
(* connections.                                                            *)
(***************************************************************************)
EXTENDS MiniFtp, SequenceTheorems, TLAPS

\* The points of the program between accept(), fork() and the end.
Busy   == Serving \cup {"close", "exit"}
Points == Dead \cup Busy \cup {"setup", "accept", "fork"}

\* A process that serves has a connection.
Connected == \A p \in Procs : pc[p] \in Busy => client[p] \in Clients

\* The types the proofs need.
Shape ==
  /\ version \in {"trunk", "yassine"}
  /\ pc \in [Procs -> Points]
  /\ client \in [Procs -> Clients \cup {NoFd}]
  /\ fds \in [Procs -> SUBSET Clients]
  /\ parent \in [Procs -> Procs \cup {Init1}]
  /\ sigchld \in [Procs -> BOOLEAN]
  /\ halted \in [Procs -> BOOLEAN]
  /\ handling \in [Procs -> BOOLEAN]
  /\ req \in [Procs -> AnyRequest]
  /\ asked \in [Clients -> Seq(ClientRequests)]
  /\ backlog \in Seq(Clients)
  /\ cpc \in [Clients -> Talking \cup Ended \cup {"connect"}]
  /\ cmde \in [Clients -> AnyRequest]
  /\ \A c \in Clients : cpc[c] = "answer" => cmde[c] \in ClientRequests
  /\ Connected

Forking(p, c) == pc[p] = "fork" /\ client[p] = c

\* A client that has not connected is known to nobody, one that waits for
\* accept() has no process, and one that was accepted is about to get one, once.
Unused == \A c \in Clients : cpc[c] = "connect" =>
            pc[c] = "none" /\ ~Waits(c) /\ \A p \in Procs : ~Forking(p, c)

Queued == \A i \in DOMAIN backlog :
            pc[backlog[i]] = "none" /\ \A p \in Procs : ~Forking(p, backlog[i])

Distinct == \A i, j \in DOMAIN backlog : backlog[i] = backlog[j] => i = j

ForkOnce == \A p \in Procs : pc[p] = "fork" =>
              /\ client[p] \in Clients /\ pc[client[p]] = "none"
              /\ \A q \in Procs : Forking(q, client[p]) => q = p

Fresh == Unused /\ Queued /\ Distinct /\ ForkOnce

\* In the program of yassine a process holds the connection it works on at most,
\* and none where it accepts.
HoldsOne ==
  version = "yassine" =>
    \A p \in Procs : /\ pc[p] \in {"setup", "accept"} => fds[p] = {}
                     /\ fds[p] \subseteq {client[p]}

IInv == Shape /\ Fresh /\ WaitReturns /\ HoldsOne

-----------------------------------------------------------------------------
(* Kinds of steps *)

\* p goes on from one point of its program to another, alone.
Local(p) ==
  /\ pc[p] \notin Dead
  /\ \E at \in Busy \cup {"accept"} : pc' = [pc EXCEPT ![p] = at]
  /\ UNCHANGED <<version, parent, sigchld, halted, handling, backlog, ftpVars>>

\* It keeps what it holds, and does not come to accept().
Stays(p) ==
  /\ Local(p)
  /\ pc[p] \in Busy /\ pc'[p] \in Busy
  /\ UNCHANGED <<client, fds>>

\* p ends.
Ends(p) == pc[p] \notin Dead /\ End(p) /\ UNCHANGED <<kernelVars, ftpVars>>

\* A client goes on, and not to connect().
Talks(c) ==
  /\ \E at \in Talking \cup Ended : cpc' = [cpc EXCEPT ![c] = at]
  /\ UNCHANGED <<procVars, backlog>>

\* A request is of one of three kinds.
LEMMA Kinds ==
  ASSUME NEW r \in AnyRequest
  PROVE  r.kind \in {"get", "list", "other"}
  BY SMT DEF AnyRequest, ClientRequests, Get, List, Other

\* A client asks for a file or for a listing.
LEMMA KindsOfClients ==
  ASSUME NEW r \in ClientRequests
  PROVE  r.kind \in {"get", "list"} /\ r \in AnyRequest
  BY SMT DEF AnyRequest, ClientRequests, Get, List, Other

-----------------------------------------------------------------------------
(* Local steps *)

\* A local step brings no connection to a second process, and ends no child.
LEMMA LocalFresh ==
  ASSUME NEW p \in Procs, Local(p), IInv,
         client' = client \/ (pc[p] = "accept" /\ client' = [client EXCEPT ![p] = NoFd])
  PROVE  Fresh' /\ WaitReturns'
<1>1. PICK at \in Busy \cup {"accept"} : pc' = [pc EXCEPT ![p] = at]
  BY DEF Local
<1>2. /\ pc[p] \notin Dead
      /\ UNCHANGED <<version, parent, sigchld, halted, handling, backlog, ftpVars>>
  BY DEF Local
<1>3. Shape /\ Fresh /\ WaitReturns
  BY DEF IInv
<1>4. \A q \in Procs : /\ pc'[q] = "none" <=> pc[q] = "none"
                       /\ pc'[q] = "zombie" <=> pc[q] = "zombie"
                       /\ pc'[q] = "fork" => pc[q] = "fork" /\ q # p
  BY <1>1, <1>2, <1>3, SMT DEF Shape, Dead, Busy, Serving, Writing
<1>5. \A q \in Procs : pc'[q] = "fork" => client'[q] = client[q]
  BY <1>4, <1>3, SMT DEF Shape
<1>6. \A q \in Procs : \A c \in Clients : Forking(q, c)' => Forking(q, c)
  BY <1>4, <1>5 DEF Forking
<1>7. Clients \subseteq Procs
  BY DEF Procs
<1>8. \A i \in DOMAIN backlog : backlog[i] \in Clients
  BY <1>3, SMT DEF Shape
<1>9. Unused' /\ Distinct'
  BY <1>2, <1>3, <1>4, <1>6, <1>7 DEF Fresh, Unused, Distinct, Waits, ftpVars
<1>10. Queued'
  BY <1>2, <1>3, <1>4, <1>6, <1>7, <1>8 DEF Fresh, Queued
<1>11. ForkOnce'
  <2> SUFFICES ASSUME NEW q \in Procs, pc'[q] = "fork"
               PROVE  /\ client'[q] \in Clients /\ pc'[client'[q]] = "none"
                      /\ \A r \in Procs : Forking(r, client[q])' => r = q
    BY <1>5 DEF ForkOnce, Forking
  <2>1. pc[q] = "fork" /\ client'[q] = client[q]
    BY <1>4, <1>5
  <2>2. /\ client[q] \in Clients /\ pc[client[q]] = "none"
        /\ \A r \in Procs : Forking(r, client[q]) => r = q
    BY <2>1, <1>3 DEF Fresh, ForkOnce
  <2> QED
    BY <2>1, <2>2, <1>4, <1>6, <1>7
<1>12. \A q \in Procs : Zombies(q)' = Zombies(q)
  BY <1>2, <1>4 DEF Zombies
<1> QED
  BY <1>2, <1>3, <1>9, <1>10, <1>11, <1>12 DEF Fresh, WaitReturns

\* A step inside handle_request() keeps the first invariant.
LEMMA StaysKeeps ==
  ASSUME NEW p \in Procs, Stays(p), IInv
  PROVE  Fresh' /\ WaitReturns' /\ HoldsOne'
<1>1. Fresh' /\ WaitReturns'
  BY LocalFresh DEF Stays
<1>2. HoldsOne'
  BY SMT DEF IInv, HoldsOne, Stays, Local, Shape, Busy, Serving, Writing
<1> QED
  BY <1>1, <1>2

-----------------------------------------------------------------------------
(* The end of a process *)

\* exit(): the parent gets a signal and a child to wait for; the descriptors go.
LEMMA EndsKeeps ==
  ASSUME NEW p \in Procs, Ends(p), IInv
  PROVE  Fresh' /\ WaitReturns' /\ HoldsOne'
<1>1. Shape /\ Fresh /\ WaitReturns /\ HoldsOne
  BY DEF IInv
<1>2. /\ pc' = [q \in Procs |->
              IF q = p THEN (IF parent[p] = Init1 THEN "gone" ELSE "zombie")
              ELSE IF q \in Zombies(p) THEN "gone" ELSE pc[q]]
      /\ parent' = [q \in Procs |-> IF parent[q] = p THEN Init1 ELSE parent[q]]
      /\ sigchld' = [q \in Procs |-> q # p /\ (sigchld[q] \/ q = parent[p])]
      /\ handling' = [handling EXCEPT ![p] = FALSE]
      /\ fds' = [fds EXCEPT ![p] = {}]
      /\ UNCHANGED <<version, client, halted>>
      /\ pc[p] \notin Dead
      /\ UNCHANGED <<backlog, ftpVars>>
  BY DEF Ends, End, kernelVars
<1>3. \A q \in Procs : q \in Zombies(p) => pc[q] = "zombie"
  BY DEF Zombies
<1>4. \A q \in Procs : /\ pc'[q] = "none" <=> pc[q] = "none"
                       /\ pc'[q] = "fork" => pc[q] = "fork" /\ q # p
                       /\ pc'[q] \in {"setup", "accept"} => pc'[q] = pc[q]
  BY <1>2, <1>3, SMT DEF Dead
<1>6. \A q \in Procs : \A c \in Clients : Forking(q, c)' => Forking(q, c)
  BY <1>2, <1>4 DEF Forking
<1>7. Clients \subseteq Procs /\ Init1 \notin Procs
  BY ForkAssume DEF Procs
<1>8. \A i \in DOMAIN backlog : backlog[i] \in Clients
  BY <1>1, SMT DEF Shape
<1>9. Unused' /\ Distinct'
  BY <1>1, <1>2, <1>4, <1>6, <1>7 DEF Fresh, Unused, Distinct, Waits, ftpVars
<1>10. Queued'
  BY <1>1, <1>2, <1>4, <1>6, <1>7, <1>8 DEF Fresh, Queued
<1>11. ForkOnce'
  BY <1>1, <1>2, <1>4, <1>6, <1>7 DEF Fresh, ForkOnce, Forking
<1>12. WaitReturns'
  <2> SUFFICES ASSUME NEW x \in Procs, ~halted[x]
               PROVE  /\ sigchld'[x] \/ handling'[x] => Zombies(x)' # {}
                      /\ sigchld'[x] /\ handling'[x] => \E q, r \in Zombies(x)' : q # r
    BY <1>2 DEF WaitReturns
  <2>1. CASE x = p
    BY <2>1, <1>1, <1>2 DEF Shape
  <2>2. CASE x # p
    <3>1. \A q \in Zombies(x) : q \in Procs /\ pc[q] = "zombie" /\ parent[q] = x /\ q # p
      BY <1>2 DEF Zombies, Dead
    <3>2. Zombies(x) \subseteq Zombies(x)'
      <4> SUFFICES ASSUME NEW q \in Zombies(x)
                   PROVE  pc'[q] = "zombie" /\ parent'[q] = x
        BY <3>1 DEF Zombies
      <4>1. q \notin Zombies(p)
        BY <3>1, <2>2 DEF Zombies
      <4> QED
        BY <4>1, <3>1, <2>2, <1>2
    <3>3. handling'[x] = handling[x]
      BY <2>2, <1>1, <1>2 DEF Shape
    <3>4. CASE x = parent[p]
      <4>1. p \in Zombies(x)'
        BY <3>4, <2>2, <1>2, <1>7 DEF Zombies
      <4>2. handling[x] => \E q \in Zombies(x) : q # p
        BY <1>1, <3>1 DEF WaitReturns
      <4> QED
        BY <4>1, <4>2, <3>2, <3>3
    <3>5. CASE x # parent[p]
      <4>1. sigchld'[x] = sigchld[x]
        BY <3>5, <2>2, <1>1, <1>2 DEF Shape
      <4> QED
        BY <4>1, <3>2, <3>3, <1>1 DEF WaitReturns
    <3> QED
      BY <3>4, <3>5
  <2> QED
    BY <2>1, <2>2
<1>13. HoldsOne'
  BY <1>1, <1>2, <1>4, SMT DEF HoldsOne, Shape
<1> QED
  BY <1>9, <1>10, <1>11, <1>12, <1>13 DEF Fresh

-----------------------------------------------------------------------------
(* The other steps of a process *)

\* accept() takes a connection that no process worked on.
LEMMA AcceptKeeps ==
  ASSUME NEW p \in Procs, Accept(p), UNCHANGED ftpVars, IInv
  PROVE  Fresh' /\ WaitReturns' /\ HoldsOne'
<1> DEFINE c == Head(backlog)
<1>1. Shape /\ Fresh /\ WaitReturns /\ HoldsOne
  BY DEF IInv
<1>2. /\ pc[p] = "accept" /\ backlog # << >>
      /\ client' = [client EXCEPT ![p] = c]
      /\ fds' = [fds EXCEPT ![p] = @ \cup {c}]
      /\ backlog' = Tail(backlog)
      /\ pc' = [pc EXCEPT ![p] = "fork"]
      /\ UNCHANGED <<version, parent, sigchld, halted, handling, ftpVars>>
  BY DEF Accept, At, GoTo
<1>3. c \in Clients /\ 1 \in DOMAIN backlog /\ c = backlog[1]
  BY <1>1, <1>2, SMT DEF Shape
<1>4. \A i \in DOMAIN backlog' : i + 1 \in DOMAIN backlog /\ backlog'[i] = backlog[i + 1]
  BY <1>1, <1>2, SMT DEF Shape
<1>5. Clients \subseteq Procs
  BY DEF Procs
<1>6. \A q \in Procs : /\ q # p => pc'[q] = pc[q] /\ client'[q] = client[q]
                       /\ pc'[q] = "none" <=> pc[q] = "none"
                       /\ pc'[q] = "zombie" <=> pc[q] = "zombie"
  BY <1>1, <1>2, SMT DEF Shape
<1>7. pc'[p] = "fork" /\ client'[p] = c
  BY <1>1, <1>2, SMT DEF Shape
<1>8. pc[c] = "none" /\ c # p /\ \A q \in Procs : ~Forking(q, c)
  BY <1>1, <1>2, <1>3 DEF Fresh, Queued
<1>9. \A q \in Procs : \A d \in Clients :
        Forking(q, d)' => Forking(q, d) \/ (q = p /\ d = c)
  BY <1>6, <1>7 DEF Forking
<1>10. Unused'
  <2> SUFFICES ASSUME NEW d \in Clients, cpc[d] = "connect"
               PROVE  pc'[d] = "none" /\ ~Waits(d)' /\ \A q \in Procs : ~Forking(q, d)'
    BY <1>2 DEF Unused, ftpVars
  <2>1. pc[d] = "none" /\ ~Waits(d) /\ \A q \in Procs : ~Forking(q, d)
    BY <1>1 DEF Fresh, Unused
  <2>2. d # c
    BY <2>1, <1>3 DEF Waits
  <2>3. ~Waits(d)'
    BY <2>1, <1>4 DEF Waits
  <2> QED
    BY <2>1, <2>2, <2>3, <1>5, <1>6, <1>9
<1>11. \A i \in DOMAIN backlog' : backlog'[i] \in Clients /\ backlog'[i] # c
  <2> SUFFICES ASSUME NEW i \in DOMAIN backlog'
               PROVE  backlog'[i] \in Clients /\ backlog'[i] # c
    OBVIOUS
  <2>1. i + 1 \in DOMAIN backlog /\ backlog'[i] = backlog[i + 1] /\ i + 1 # 1
    BY <1>1, <1>2, <1>4, SMT DEF Shape
  <2>2. backlog[i + 1] \in Clients
    BY <2>1, <1>1, SMT DEF Shape
  <2> QED
    BY <2>1, <2>2, <1>1, <1>3 DEF Fresh, Distinct
<1>12. Queued'
  BY <1>1, <1>4, <1>5, <1>6, <1>9, <1>11 DEF Fresh, Queued
<1>13. Distinct'
  <2> SUFFICES ASSUME NEW i \in DOMAIN backlog', NEW j \in DOMAIN backlog',
                      backlog'[i] = backlog'[j]
               PROVE  i = j
    BY DEF Distinct
  <2>1. i + 1 = j + 1
    BY <1>1, <1>4 DEF Fresh, Distinct
  <2> QED
    BY <2>1, <1>1, <1>2, SMT DEF Shape
<1>14. ForkOnce'
  <2> SUFFICES ASSUME NEW q \in Procs, pc'[q] = "fork"
               PROVE  /\ client'[q] \in Clients /\ pc'[client'[q]] = "none"
                      /\ \A r \in Procs : Forking(r, client[q])' => r = q
    BY DEF ForkOnce, Forking
  <2>1. CASE q = p
    BY <2>1, <1>3, <1>5, <1>6, <1>7, <1>8, <1>9
  <2>2. CASE q # p
    <3>1. /\ pc[q] = "fork" /\ client'[q] = client[q]
          /\ client[q] \in Clients /\ pc[client[q]] = "none"
          /\ \A r \in Procs : Forking(r, client[q]) => r = q
      BY <2>2, <1>1, <1>6 DEF Fresh, ForkOnce
    <3>2. client[q] # c
      BY <3>1, <1>8 DEF Forking
    <3> QED
      BY <3>1, <3>2, <1>5, <1>6, <1>9 DEF Forking
  <2> QED
    BY <2>1, <2>2
<1>15. \A q \in Procs : Zombies(q)' = Zombies(q)
  BY <1>2, <1>6 DEF Zombies
<1>16. WaitReturns'
  BY <1>1, <1>2, <1>15 DEF WaitReturns
<1>17. HoldsOne'
  BY <1>1, <1>2, <1>3, <1>7, SMT DEF HoldsOne, Shape
<1> QED
  BY <1>10, <1>12, <1>13, <1>14, <1>16, <1>17 DEF Fresh

\* fork() makes the one child of the connection.
LEMMA ForkKeeps ==
  ASSUME NEW p \in Procs, Fork(p), UNCHANGED ftpVars, IInv
  PROVE  Fresh' /\ WaitReturns' /\ HoldsOne'
<1> DEFINE c == client[p]
<1>1. Shape /\ Fresh /\ WaitReturns /\ HoldsOne
  BY DEF IInv
<1>2. /\ pc[p] = "fork"
      /\ pc' = [pc EXCEPT ![p] = AfterFork, ![c] = "recv"]
      /\ client' = [client EXCEPT ![c] = c]
      /\ fds' = [fds EXCEPT ![c] = fds[p]]
      /\ parent' = [parent EXCEPT ![c] = p]
      /\ UNCHANGED <<version, sigchld, halted, handling, backlog, ftpVars>>
  BY DEF Fork, At, kernelVars
<1>3. c \in Clients /\ pc[c] = "none" /\ \A q \in Procs : Forking(q, c) => q = p
  BY <1>1, <1>2 DEF Fresh, ForkOnce, Forking
<1>4. Clients \subseteq Procs
  BY DEF Procs
<1>5. AfterFork \in {"accept", "close"} /\ AfterFork \notin Dead \cup {"fork", "setup"}
      /\ (version = "yassine" => AfterFork = "close")
  <2>1. CASE version = "trunk"
    BY <2>1, SMT DEF AfterFork, AfterForkTrunk, Dead
  <2>2. CASE version = "yassine"
    BY <2>2, SMT DEF AfterFork, AfterForkYassine, Dead
  <2> QED
    BY <2>1, <2>2, <1>1 DEF Shape
<1>6. /\ pc'[p] = AfterFork /\ pc'[c] = "recv" /\ c # p
      /\ client'[c] = c /\ fds'[c] = fds[p] /\ parent'[c] = p
      /\ \A q \in Procs : q \notin {p, c} => pc'[q] = pc[q]
      /\ \A q \in Procs : q # c => /\ client'[q] = client[q] /\ fds'[q] = fds[q]
                                   /\ parent'[q] = parent[q]
  BY <1>1, <1>2, <1>3, <1>4, <1>5, SMT DEF Shape
<1>7. \A q \in Procs : \A d \in Clients :
        Forking(q, d)' => Forking(q, d) /\ q # p /\ d # c
  BY <1>2, <1>3, <1>5, <1>6 DEF Forking
<1>8. Forking(p, c)
  BY <1>2 DEF Forking
<1>9. Unused'
  BY <1>1, <1>2, <1>3, <1>4, <1>6, <1>7, <1>8 DEF Fresh, Unused, Waits, ftpVars
<1>10. \A i \in DOMAIN backlog : backlog[i] \in Clients
  BY <1>1, SMT DEF Shape
<1>11. Queued'
  <2> SUFFICES ASSUME NEW i \in DOMAIN backlog
               PROVE  /\ pc'[backlog[i]] = "none"
                      /\ \A q \in Procs : ~Forking(q, backlog[i])'
    BY <1>2 DEF Queued
  <2>1. pc[backlog[i]] = "none" /\ \A q \in Procs : ~Forking(q, backlog[i])
    BY <1>1 DEF Fresh, Queued
  <2>2. backlog[i] # c /\ backlog[i] # p
    BY <2>1, <1>2, <1>8
  <2>3. backlog[i] \in Clients /\ backlog[i] \in Procs
    BY <1>4, <1>10
  <2>4. pc'[backlog[i]] = pc[backlog[i]]
    BY <2>2, <2>3, <1>6
  <2>5. \A q \in Procs : ~Forking(q, backlog[i])'
    BY <2>1, <2>3, <1>2, <1>7 DEF Forking
  <2> QED
    BY <2>1, <2>4, <2>5
<1>12. Distinct'
  BY <1>1, <1>2 DEF Fresh, Distinct
<1>13. ForkOnce'
  <2> SUFFICES ASSUME NEW q \in Procs, pc'[q] = "fork"
               PROVE  /\ client'[q] \in Clients /\ pc'[client'[q]] = "none"
                      /\ \A r \in Procs : Forking(r, client[q])' => r = q
    BY DEF ForkOnce, Forking
  <2>1. q \notin {p, c} /\ pc[q] = "fork" /\ client'[q] = client[q]
    BY <1>5, <1>6
  <2>2. /\ client[q] \in Clients /\ pc[client[q]] = "none"
        /\ \A r \in Procs : Forking(r, client[q]) => r = q
    BY <2>1, <1>1 DEF Fresh, ForkOnce
  <2>3. client[q] # c /\ client[q] # p
    BY <2>1, <2>2, <1>2, <1>8
  <2> QED
    BY <2>1, <2>2, <2>3, <1>4, <1>6, <1>7 DEF Forking
<1>14. \A q \in Procs : Zombies(q)' = Zombies(q)
  BY <1>2, <1>3, <1>4, <1>5, <1>6 DEF Zombies, Dead
<1>15. WaitReturns'
  BY <1>1, <1>2, <1>14 DEF WaitReturns
<1>16. HoldsOne'
  <2> SUFFICES ASSUME version = "yassine", NEW q \in Procs
               PROVE  /\ pc'[q] \in {"setup", "accept"} => fds'[q] = {}
                      /\ fds'[q] \subseteq {client'[q]}
    BY <1>2 DEF HoldsOne
  <2>1. CASE q = c
    BY <2>1, <1>1, <1>6 DEF HoldsOne
  <2>2. CASE q # c
    BY <2>2, <1>1, <1>5, <1>6 DEF HoldsOne
  <2> QED
    BY <2>1, <2>2
<1> QED
  BY <1>9, <1>11, <1>12, <1>13, <1>15, <1>16 DEF Fresh

\* AcceptFails and Close are local steps that let go of the connection.
LEMMA LetsGoKeeps ==
  ASSUME NEW p \in Procs, AcceptFails(p) \/ Close(p), UNCHANGED ftpVars, IInv
  PROVE  Fresh' /\ WaitReturns' /\ HoldsOne'
<1>1. CASE AcceptFails(p)
  <2>1. /\ pc[p] = "accept" /\ pc' = pc
        /\ client' = [client EXCEPT ![p] = NoFd]
        /\ UNCHANGED <<version, fds, parent, sigchld, halted, handling, backlog, ftpVars>>
    BY <1>1 DEF AcceptFails, At, kernelVars
  <2>2. /\ pc' = [pc EXCEPT ![p] = "accept"]
        /\ "accept" \in Busy \cup {"accept"} /\ pc[p] \notin Dead
    BY <2>1, SMT DEF IInv, Shape, Dead
  <2>3. Local(p)
    BY <2>1, <2>2, Zenon DEF Local
  <2>4. HoldsOne'
    BY <2>1, SMT DEF IInv, HoldsOne, Shape
  <2> QED
    BY <2>1, <2>3, <2>4, LocalFresh
<1>2. CASE Close(p)
  <2>1. /\ pc[p] = "close" /\ pc' = [pc EXCEPT ![p] = "accept"]
        /\ fds' = [fds EXCEPT ![p] = @ \ {client[p]}]
        /\ UNCHANGED <<version, client, parent, sigchld, halted, handling, backlog, ftpVars>>
    BY <1>2 DEF Close, At, GoTo, kernelVars
  <2>2. "accept" \in Busy \cup {"accept"} /\ pc[p] \notin Dead
    BY <2>1, SMT DEF Dead
  <2>3. Local(p)
    BY <2>1, <2>2, Zenon DEF Local
  <2>4. HoldsOne'
    BY <2>1, SMT DEF IInv, HoldsOne, Shape
  <2> QED
    BY <2>1, <2>3, <2>4, LocalFresh
<1> QED
  BY <1>1, <1>2

\* The signal that was pending is now handled: the child it was for is still there.
LEMMA HandlerBeginsKeeps ==
  ASSUME NEW p \in Procs, HandlerBegins(p), UNCHANGED ftpVars, IInv
  PROVE  Fresh' /\ WaitReturns' /\ HoldsOne'
<1>1. Shape /\ Fresh /\ WaitReturns /\ HoldsOne
  BY DEF IInv
<1>2. /\ sigchld[p] /\ ~handling[p]
      /\ sigchld' = [sigchld EXCEPT ![p] = FALSE]
      /\ handling' = [handling EXCEPT ![p] = TRUE]
      /\ UNCHANGED <<version, pc, client, fds, parent, halted, backlog, ftpVars>>
  BY DEF HandlerBegins, kernelVars
<1>3. Fresh' /\ HoldsOne'
  BY <1>1, <1>2 DEF Fresh, Unused, Queued, Distinct, ForkOnce, Forking, Waits,
                    HoldsOne, ftpVars
<1>4. \A q \in Procs : Zombies(q)' = Zombies(q)
  BY <1>2 DEF Zombies
<1>5. ~sigchld'[p] /\ \A q \in Procs \ {p} : /\ sigchld'[q] = sigchld[q]
                                            /\ handling'[q] = handling[q]
  BY <1>1, <1>2 DEF Shape
<1>6. WaitReturns'
  BY <1>1, <1>2, <1>4, <1>5 DEF WaitReturns
<1> QED
  BY <1>3, <1>6

\* wait() takes one child, and one child is left for a signal still pending.
LEMMA HandlerWaitsKeeps ==
  ASSUME NEW p \in Procs, HandlerWaits(p), UNCHANGED ftpVars, IInv
  PROVE  Fresh' /\ WaitReturns' /\ HoldsOne'
<1>1. Shape /\ Fresh /\ WaitReturns /\ HoldsOne
  BY DEF IInv
<1>2. /\ handling' = [handling EXCEPT ![p] = FALSE] /\ handling[p]
      /\ UNCHANGED <<version, client, fds, parent, sigchld, halted, backlog, ftpVars>>
      /\ \/ \E q \in Zombies(p) : pc' = [pc EXCEPT ![q] = "gone"]
         \/ Children(p) = {} /\ pc' = pc
  BY DEF HandlerWaits, GoTo, kernelVars
<1>3. \A x \in Procs : \A q \in Zombies(x) :
        q \in Procs /\ parent[q] = x /\ pc[q] = "zombie" /\ q \in Children(x)
  BY DEF Zombies, Children
<1>4. \A r \in Procs : \/ pc'[r] = pc[r]
                       \/ r \in Zombies(p) /\ pc'[r] = "gone"
  BY <1>1, <1>2, <1>3 DEF Shape
<1>5. \A r \in Procs : /\ pc'[r] = "none" <=> pc[r] = "none"
                       /\ pc'[r] \in {"fork", "setup", "accept"} => pc'[r] = pc[r]
  BY <1>3, <1>4
<1>9. Clients \subseteq Procs
  BY DEF Procs
<1>10. \A r \in Procs : \A c \in Clients : Forking(r, c)' => Forking(r, c)
  BY <1>2, <1>5 DEF Forking
<1>11. \A i \in DOMAIN backlog : backlog[i] \in Clients
  BY <1>1, SMT DEF Shape
<1>13. Unused' /\ Distinct'
  BY <1>1, <1>2, <1>5, <1>9, <1>10 DEF Fresh, Unused, Distinct, Waits, ftpVars
<1>14. Queued'
  BY <1>1, <1>2, <1>5, <1>9, <1>10, <1>11 DEF Fresh, Queued
<1>15. ForkOnce'
  BY <1>1, <1>2, <1>5, <1>9, <1>10 DEF Fresh, ForkOnce, Forking
<1>16. HoldsOne'
  BY <1>1, <1>2, <1>5 DEF HoldsOne
<1>17. /\ ~handling'[p]
       /\ \A x \in Procs : x # p => handling'[x] = handling[x]
  BY <1>1, <1>2 DEF Shape
<1>18. \A x \in Procs : x # p => Zombies(x)' = Zombies(x)
  <2> SUFFICES ASSUME NEW x \in Procs, x # p, NEW q \in Procs
               PROVE  /\ q \in Zombies(x) => parent'[q] = x /\ pc'[q] = "zombie"
                      /\ parent'[q] = x /\ pc'[q] = "zombie" => q \in Zombies(x)
    BY DEF Zombies
  <2> QED
    BY <1>2, <1>3, <1>4 DEF Zombies
<1>19. ~halted[p] /\ sigchld[p] => Zombies(p)' # {}
  <2> SUFFICES ASSUME ~halted[p], sigchld[p] PROVE Zombies(p)' # {}
    OBVIOUS
  <2>1. PICK r \in Zombies(p), t \in Zombies(p) : r # t
    BY <1>1, <1>2 DEF WaitReturns
  <2>2. PICK q \in Zombies(p) : pc' = [pc EXCEPT ![q] = "gone"]
    BY <1>2, <1>3, <2>1
  <2>3. \A u \in Zombies(p) : u # q => pc'[u] = "zombie" /\ parent'[u] = p
    BY <1>1, <1>2, <1>3, <2>2 DEF Shape
  <2>4. \A u \in Zombies(p) : u # q => u \in Zombies(p)'
    BY <1>3, <2>3 DEF Zombies
  <2> QED
    BY <2>1, <2>4
<1>20. WaitReturns'
  BY <1>1, <1>2, <1>17, <1>18, <1>19 DEF WaitReturns
<1> QED
  BY <1>13, <1>14, <1>15, <1>16, <1>20 DEF Fresh

-----------------------------------------------------------------------------
(* Every step of a process is one of these *)

\* A step to a named point of the program.
LEMMA GoesOn ==
  ASSUME NEW p \in Procs, IInv, NEW at \in Busy, pc[p] \in Busy,
         pc' = [pc EXCEPT ![p] = at],
         UNCHANGED <<version, client, fds, parent, sigchld, halted, handling, backlog, ftpVars>>
  PROVE  Stays(p)
<1>1. pc'[p] = at
  BY DEF IInv, Shape
<1>2. pc[p] \notin Dead
  BY SMT DEF Busy, Serving, Writing, Dead
<1>3. at \in Busy \cup {"accept"}
  OBVIOUS
<1>4. Local(p)
  BY <1>2, <1>3, Zenon DEF Local
<1> QED
  BY <1>1, <1>4 DEF Stays

\* The steps of handle_request() go from one point of it to another.
LEMMA StaySteps ==
  ASSUME NEW p \in Procs, IInv, UNCHANGED ftpVars,
         \/ Recv(p) \/ RecvNothing(p) \/ Dispatch(p)
         \/ AnswerGet(p) \/ CopyChunk(p) \/ CopyDone(p) \/ CopyFails(p)
         \/ AnswerList(p) \/ AnswerDir(p) \/ Exec(p) \/ LsWrites(p)
  PROVE  Stays(p)
<1> DEFINE Unchanged ==
      UNCHANGED <<version, client, fds, parent, sigchld, halted, handling, backlog, ftpVars>>
<1> DEFINE Goes(from, to) ==
      /\ pc[p] = from /\ pc' = [pc EXCEPT ![p] = to] /\ Unchanged
      /\ from \in Busy /\ to \in Busy
<1>1. ASSUME NEW from, NEW to, Goes(from, to)
      PROVE  Stays(p)
  BY <1>1, GoesOn
<1>2. CASE Recv(p)
  <2>1. Goes("recv", "dispatch")
    BY <1>2 DEF Recv, At, GoTo, Busy, Serving, Writing
  <2> QED
    BY <2>1, <1>1
<1>3. CASE RecvNothing(p)
  <2>1. Goes("recv", "dispatch") \/ Goes("recv", "exit")
    BY <1>3 DEF RecvNothing, At, GoTo, Busy, Serving, Writing, kernelVars
  <2> QED
    BY <2>1, <1>1
<1>4. CASE Dispatch(p)
  <2>1. req[p] \in AnyRequest
    BY DEF IInv, Shape
  <2>2. req[p].kind \in {"get", "list", "other"}
    BY <2>1, Kinds
  <2>3. NextPc[req[p].kind] \in {"get", "list", "exit"}
    BY <2>2, SMT DEF NextPc
  <2>4. \/ Goes("dispatch", "get") \/ Goes("dispatch", "list") \/ Goes("dispatch", "exit")
    BY <1>4, <2>3 DEF Dispatch, At, GoTo, Busy, Serving, Writing, kernelVars
  <2> QED
    BY <2>4, <1>1
<1>5. CASE AnswerGet(p)
  <2>1. Goes("get", "copy") \/ Goes("get", "exit")
    BY <1>5 DEF AnswerGet, At, GoTo, Busy, Serving, Writing
  <2> QED
    BY <2>1, <1>1
<1>6. CASE CopyChunk(p)
  <2>1. pc = [pc EXCEPT ![p] = "copy"]
    BY <1>6, SMT DEF CopyChunk, At, IInv, Shape
  <2>2. Goes("copy", "copy")
    BY <1>6, <2>1 DEF CopyChunk, At, Busy, Serving, Writing
  <2> QED
    BY <2>2, <1>1
<1>7. CASE CopyDone(p)
  <2>1. Goes("copy", "exit") \/ Goes("copy", "close")
    BY <1>7 DEF CopyDone, AfterGetTrunk, AfterGetYassine, At, GoTo, Busy, Serving,
                Writing, kernelVars
  <2> QED
    BY <2>1, <1>1
<1>12. CASE CopyFails(p)
  <2>1. Goes("copy", "exit")
    BY <1>12 DEF CopyFails, At, GoTo, Busy, Serving, Writing, kernelVars
  <2> QED
    BY <2>1, <1>1
<1>8. CASE AnswerList(p)
  <2>1. Goes("list", "exec") \/ Goes("list", "close")
    BY <1>8 DEF AnswerList, At, GoTo, Busy, Serving, Writing
  <2> QED
    BY <2>1, <1>1
<1>9. CASE AnswerDir(p)
  <2>1. Goes("list", "exec")
    BY <1>9 DEF AnswerDir, At, GoTo, Busy, Serving, Writing
  <2> QED
    BY <2>1, <1>1
<1>10. CASE Exec(p)
  <2>1. Goes("exec", "ls") \/ Goes("exec", "exit") \/ Goes("exec", "close")
    BY <1>10 DEF Exec, At, GoTo, Busy, Serving, Writing, kernelVars
  <2> QED
    BY <2>1, <1>1
<1>11. CASE LsWrites(p)
  <2>1. Goes("ls", "exit")
    BY <1>11 DEF LsWrites, At, GoTo, Busy, Serving, Writing
  <2> QED
    BY <2>1, <1>1
<1> QED
  BY <1>2, <1>3, <1>4, <1>5, <1>6, <1>7, <1>8, <1>9, <1>10, <1>11, <1>12

\* The three ways a process ends.
LEMMA EndSteps ==
  ASSUME NEW p \in Procs, UNCHANGED ftpVars,
         ForkFails(p) \/ Exit(p) \/ WriteFails(p)
  PROVE  Ends(p)
  BY DEF Ends, ForkFails, Exit, WriteFails, At, Dead, Writing, kernelVars

\* Every step of a process keeps the first invariant.
LEMMA ProcessKeeps ==
  ASSUME NEW p \in Procs, ProcessRuns(p), IInv
  PROVE  Fresh' /\ WaitReturns' /\ HoldsOne'
  BY StaySteps, StaysKeeps, EndSteps, EndsKeeps, AcceptKeeps, ForkKeeps, LetsGoKeeps,
     HandlerBeginsKeeps, HandlerWaitsKeeps DEF ProcessRuns, ProcStep

-----------------------------------------------------------------------------
(* The steps of Main's set-up and of the clients *)

\* The set-up of Main keeps the first invariant.
LEMMA SetupKeeps ==
  ASSUME Setup, UNCHANGED ftpVars, IInv
  PROVE  Fresh' /\ WaitReturns' /\ HoldsOne'
<1>1. Main \in Procs /\ pc[Main] = "setup" /\ UNCHANGED <<kernelVars, backlog>>
  BY DEF Setup, Procs, kernelVars
<1>2. CASE End(Main)
  <2>1. Ends(Main)
    BY <1>1, <1>2 DEF Ends, Dead
  <2> QED
    BY <2>1, <1>1, EndsKeeps
<1>3. CASE ~End(Main)
  <2>1. /\ pc' = [pc EXCEPT ![Main] = "accept"]
        /\ UNCHANGED <<version, client, fds, parent, sigchld, halted, handling>>
    BY <1>3 DEF Setup, GoTo
  <2>2. "accept" \in Busy \cup {"accept"} /\ pc[Main] \notin Dead
    BY <1>1, SMT DEF Dead
  <2>3. Local(Main)
    BY <1>1, <2>1, <2>2, Zenon DEF Local
  <2>4. HoldsOne'
    BY <1>1, <2>1, SMT DEF IInv, HoldsOne, Shape
  <2> QED
    BY <1>1, <2>1, <2>3, <2>4, LocalFresh
<1> QED
  BY <1>2, <1>3

\* connect() puts a connection in the backlog that was not in it.
LEMMA DialKeeps ==
  ASSUME NEW c \in Clients, Dial(c), IInv
  PROVE  Fresh' /\ WaitReturns' /\ HoldsOne'
<1>1. Shape /\ Fresh /\ WaitReturns /\ HoldsOne
  BY DEF IInv
<1>2. /\ cpc[c] = "connect"
      /\ cpc' = [cpc EXCEPT ![c] = "ask"]
      /\ backlog' = Append(backlog, c)
      /\ UNCHANGED <<version, pc, client, fds, parent, sigchld, halted, handling>>
  BY DEF Dial, procVars
<1>3. pc[c] = "none" /\ ~Waits(c) /\ \A p \in Procs : ~Forking(p, c)
  BY <1>1, <1>2 DEF Fresh, Unused
<1>4. \A d \in Clients : cpc'[d] = "connect" => cpc[d] = "connect" /\ d # c
  BY <1>1, <1>2 DEF Shape
<1>5. \A i \in DOMAIN backlog' :
        \/ i \in DOMAIN backlog /\ backlog'[i] = backlog[i]
        \/ i = Len(backlog) + 1 /\ backlog'[i] = c
  BY <1>1, <1>2, SMT DEF Shape
<1>6. \A p \in Procs : \A d \in Clients : Forking(p, d)' <=> Forking(p, d)
  BY <1>2 DEF Forking
<1>7. \A i \in DOMAIN backlog : backlog[i] \in Clients
  BY <1>1, SMT DEF Shape
<1>8. Unused'
  BY <1>1, <1>2, <1>4, <1>5, <1>6 DEF Fresh, Unused, Waits
<1>9. Queued'
  BY <1>1, <1>2, <1>3, <1>5, <1>6, <1>7 DEF Fresh, Queued
<1>10. Distinct'
  BY <1>1, <1>3, <1>5 DEF Fresh, Distinct, Waits
<1>11. ForkOnce' /\ WaitReturns' /\ HoldsOne'
  BY <1>1, <1>2 DEF Fresh, ForkOnce, Forking, WaitReturns, Zombies, HoldsOne
<1> QED
  BY <1>8, <1>9, <1>10, <1>11 DEF Fresh

\* What else a client does leaves the processes alone.
LEMMA TalksKeeps ==
  ASSUME NEW c \in Clients, Talks(c), IInv
  PROVE  Fresh' /\ WaitReturns' /\ HoldsOne'
<1>1. Shape /\ Fresh /\ WaitReturns /\ HoldsOne
  BY DEF IInv
<1>2. UNCHANGED <<version, pc, client, fds, parent, sigchld, halted, handling, backlog>>
  BY DEF Talks, procVars
<1>3. \A d \in Clients : cpc'[d] = "connect" => cpc[d] = "connect"
  BY <1>1, SMT DEF Talks, Shape, Talking, Ended
<1>4. Unused'
  BY <1>1, <1>2, <1>3 DEF Fresh, Unused, Waits, Forking
<1>5. Queued' /\ Distinct' /\ ForkOnce' /\ WaitReturns' /\ HoldsOne'
  BY <1>1, <1>2 DEF Fresh, Queued, Distinct, ForkOnce, Forking, WaitReturns, Zombies,
                    HoldsOne
<1> QED
  BY <1>4, <1>5 DEF Fresh

\* Every step of a client but its connect() is Talks.
LEMMA ClientsTalk ==
  ASSUME NEW c \in Clients, ClientRuns(c) \/ Interrupt(c), IInv
  PROVE  Talks(c)
<1>1. Shape
  BY DEF IInv
<1>2. cpc[c] = "answer" => Command[cmde[c].kind] \in {"create", "list"}
  BY <1>1, KindsOfClients, SMT DEF Shape, Command
<1>3. ASSUME NEW at \in Talking \cup Ended, cpc' = [cpc EXCEPT ![c] = at],
             UNCHANGED <<procVars, backlog>>
      PROVE  Talks(c)
  BY <1>3, Zenon DEF Talks
<1>4. ASSUME NEW at \in Ended, EndClient(c, at)
      PROVE  Talks(c)
  BY <1>3, <1>4 DEF EndClient
<1>5. ASSUME UNCHANGED <<cpc, procVars, backlog>>, cpc[c] \in Talking
      PROVE  Talks(c)
  <2>1. cpc' = [cpc EXCEPT ![c] = cpc[c]]
    BY <1>1, <1>5, SMT DEF Shape
  <2> QED
    BY <2>1, <1>3, <1>5
<1>6. {"answer", "create", "copy", "list"} \subseteq Talking
      /\ "failed" \in Ended /\ "closed" \in Ended
  BY DEF Talking, Ended
<1>7. CASE DialFails(c) \/ AskFails(c) \/ AnswerFails(c) \/ CopyReturns(c) \/ ListReturns(c)
           \/ Interrupt(c)
  BY <1>7, <1>4, <1>6
  DEF DialFails, AskFails, AnswerFails, CopyReturns, ListReturns, Interrupt
<1>8. CASE Ask(c)
  BY <1>8, <1>3, <1>6 DEF Ask
<1>9. CASE ReadAnswer(c) \/ ReadNoAnswer(c)
  BY <1>9, <1>2, <1>3, <1>4, <1>6 DEF ReadAnswer, ReadNoAnswer, kernelVars
<1>10. CASE Create(c)
  BY <1>10, <1>3, <1>4, <1>6 DEF Create, kernelVars
<1>11. CASE CopyUnit(c) \/ ListUnit(c)
  BY <1>11, <1>5, <1>6 DEF CopyUnit, ListUnit, ftpVars
<1> QED
  BY <1>7, <1>8, <1>9, <1>10, <1>11 DEF ClientRuns

-----------------------------------------------------------------------------
(* Types *)

\* Types, in the steps outside handle_request().
LEMMA SpecialShape ==
  ASSUME NEW p \in Procs, IInv, UNCHANGED ftpVars,
         Accept(p) \/ AcceptFails(p) \/ Fork(p) \/ Close(p) \/ Ends(p)
           \/ HandlerBegins(p) \/ HandlerWaits(p)
  PROVE  Shape'
<1>1. Shape /\ Fresh /\ UNCHANGED <<cpc, cmde>>
  BY DEF IInv, ftpVars
<1>2. \A at \in {"accept", "fork", "zombie", "gone"} : at \in Points /\ at \notin Busy
  BY SMT DEF Points, Busy, Serving, Writing, Dead
<1> USE DEF At, GoTo, kernelVars
<1>3. CASE Accept(p)
  BY <1>1, <1>2, <1>3, SMT DEF Shape, Connected, Accept
<1>4. CASE AcceptFails(p)
  BY <1>1, <1>2, <1>4, SMT DEF Shape, Connected, AcceptFails
<1>5. CASE Fork(p)
  <2> DEFINE c == client[p]
  <2>1. c \in Clients /\ c \in Procs
    BY <1>1, <1>5 DEF Fork, Fresh, ForkOnce, Procs
  <2>2. AfterFork \in Points /\ "recv" \in Points
    BY SMT DEF AfterFork, AfterForkTrunk, AfterForkYassine, Points, Busy, Serving
  <2>3. /\ pc' = [pc EXCEPT ![p] = AfterFork, ![c] = "recv"]
        /\ client' = [client EXCEPT ![c] = c]
        /\ fds' = [fds EXCEPT ![c] = fds[p]]
        /\ parent' = [parent EXCEPT ![c] = p]
        /\ UNCHANGED <<version, sigchld, halted, handling, req, asked, backlog>>
    BY <1>5 DEF Fork
  <2>4. pc' \in [Procs -> Points] /\ client' \in [Procs -> Clients \cup {NoFd}]
    <3>1. pc \in [Procs -> Points] /\ client \in [Procs -> Clients \cup {NoFd}]
      BY <1>1 DEF Shape
    <3> QED
      BY <2>1, <2>2, <2>3, <3>1
  <2>5. fds' \in [Procs -> SUBSET Clients] /\ parent' \in [Procs -> Procs \cup {Init1}]
    BY <1>1, <2>1, <2>3, SMT DEF Shape
  <2>6. Connected'
    <3>1. \A q \in Procs : /\ q \notin {p, c} => pc'[q] = pc[q]
                           /\ client'[q] \in {client[q], c}
                           /\ q = p => client'[q] = c
                           /\ q = c => client'[q] = c
      BY <1>1, <2>1, <2>3 DEF Shape
    <3> QED
      BY <1>1, <2>1, <3>1 DEF Shape, Connected
  <2> QED
    BY <1>1, <2>3, <2>4, <2>5, <2>6 DEF Shape
<1>6. CASE Close(p)
  BY <1>1, <1>2, <1>6, SMT DEF Shape, Connected, Close
<1>7. CASE Ends(p)
  <2>1. /\ pc' = [q \in Procs |->
                IF q = p THEN (IF parent[p] = Init1 THEN "gone" ELSE "zombie")
                ELSE IF q \in Zombies(p) THEN "gone" ELSE pc[q]]
        /\ parent' = [q \in Procs |-> IF parent[q] = p THEN Init1 ELSE parent[q]]
        /\ sigchld' = [q \in Procs |-> q # p /\ (sigchld[q] \/ q = parent[p])]
        /\ handling' = [handling EXCEPT ![p] = FALSE]
        /\ fds' = [fds EXCEPT ![p] = {}]
        /\ UNCHANGED <<version, client, halted, req, asked, backlog>>
    BY <1>7 DEF Ends, End, kernelVars
  <2>2. pc' \in [Procs -> Points] /\ Connected'
    BY <1>1, <1>2, <2>1, SMT DEF Shape, Connected
  <2>3. parent' \in [Procs -> Procs \cup {Init1}] /\ fds' \in [Procs -> SUBSET Clients]
    BY <1>1, <2>1, SMT DEF Shape
  <2>4. sigchld' \in [Procs -> BOOLEAN] /\ handling' \in [Procs -> BOOLEAN]
    BY <1>1, <2>1 DEF Shape
  <2> QED
    BY <1>1, <2>1, <2>2, <2>3, <2>4 DEF Shape
<1>8. CASE HandlerBegins(p)
  BY <1>1, <1>8, SMT DEF Shape, Connected, HandlerBegins
<1>9. CASE HandlerWaits(p)
  <2>1. /\ handling' = [handling EXCEPT ![p] = FALSE]
        /\ UNCHANGED <<version, client, fds, parent, sigchld, halted, req, asked, backlog>>
        /\ pc' = pc \/ \E q \in Zombies(p) : pc' = [pc EXCEPT ![q] = "gone"]
    BY <1>9 DEF HandlerWaits
  <2>2. Zombies(p) \subseteq Procs
    BY DEF Zombies
  <2>3. pc' \in [Procs -> Points]
    BY <1>1, <1>2, <2>1, <2>2 DEF Shape
  <2>5. \A r \in Procs : pc'[r] \in {pc[r], "gone"}
    BY <1>1, <2>1, <2>2 DEF Shape
  <2>6. Connected'
    BY <1>1, <1>2, <2>1, <2>5 DEF Shape, Connected
  <2>4. handling' \in [Procs -> BOOLEAN]
    BY <1>1, <2>1 DEF Shape
  <2> QED
    BY <1>1, <2>1, <2>3, <2>4, <2>6 DEF Shape
<1> QED
  BY <1>3, <1>4, <1>5, <1>6, <1>7, <1>8, <1>9

\* Types, in the steps of handle_request().
LEMMA StayShape ==
  ASSUME NEW p \in Procs, IInv, UNCHANGED ftpVars, Stays(p),
         \/ Recv(p) \/ RecvNothing(p) \/ Dispatch(p)
         \/ AnswerGet(p) \/ CopyChunk(p) \/ CopyDone(p) \/ CopyFails(p)
         \/ AnswerList(p) \/ AnswerDir(p) \/ Exec(p) \/ LsWrites(p)
  PROVE  Shape'
<1>1. Shape
  BY DEF IInv
<1>2. /\ pc' \in [Procs -> Points]
      /\ UNCHANGED <<version, client, fds, parent, sigchld, halted, handling, backlog, cpc, cmde>>
  <2>1. PICK at \in Busy \cup {"accept"} : pc' = [pc EXCEPT ![p] = at]
    BY DEF Stays, Local
  <2>2. at \in Points
    BY DEF Points
  <2>3. pc' \in [Procs -> Points]
    BY <1>1, <2>1, <2>2 DEF Shape
  <2> QED
    BY <2>3 DEF Stays, Local, ftpVars
<1>3. req' \in [Procs -> AnyRequest] /\ asked' \in [Clients -> Seq(ClientRequests)]
  <2>1. CASE Recv(p)
    <3> DEFINE c == client[p]
    <3>1. /\ req' = [req EXCEPT ![p] = Head(asked[c])]
          /\ asked' = [asked EXCEPT ![c] = << >>]
          /\ asked[c] # << >>
      BY <2>1 DEF Recv
    <3>2. c \in Clients
      BY <2>1, <1>1, SMT DEF Recv, At, Shape, Connected, Busy, Serving
    <3>3. Head(asked[c]) \in ClientRequests
      BY <3>1, <3>2, <1>1, SMT DEF Shape
    <3>4. Head(asked[c]) \in AnyRequest
      BY <3>3 DEF AnyRequest
    <3> QED
      BY <3>1, <3>2, <3>4, <1>1, SMT DEF Shape
  <2>2. CASE RecvNothing(p)
    <3>1. /\ UNCHANGED asked
          /\ (req' = req \/ \E r \in AnyRequest : req' = [req EXCEPT ![p] = r])
      BY <2>2 DEF RecvNothing, kernelVars
    <3> QED
      BY <3>1, <1>1 DEF Shape
  <2>3. CASE ~Recv(p) /\ ~RecvNothing(p)
    <3>1. UNCHANGED <<req, asked>>
      BY <2>3 DEF Dispatch, AnswerGet, CopyChunk, CopyDone, CopyFails, AnswerList, AnswerDir,
                  Exec, LsWrites, kernelVars
    <3> QED
      BY <3>1, <1>1 DEF Shape
  <2> QED
    BY <2>1, <2>2, <2>3
<1>4. Connected'
  BY <1>1, SMT DEF Stays, Local, Shape, Connected
<1> QED
  BY <1>1, <1>2, <1>3, <1>4 DEF Shape, ftpVars

\* Types, in every step of a process.
LEMMA ProcessShape ==
  ASSUME NEW p \in Procs, ProcessRuns(p), IInv
  PROVE  Shape'
  BY StaySteps, StayShape, EndSteps, SpecialShape DEF ProcessRuns, ProcStep

\* Types, in every step of a client.
LEMMA ClientShape ==
  ASSUME NEW c \in Clients, ClientStep(c), IInv
  PROVE  Shape'
<1>1. Shape
  BY DEF IInv
<1>2. CASE Dial(c)
  BY <1>1, <1>2, SMT DEF Dial, procVars, Shape, Connected, Talking
<1>3. CASE ClientRuns(c) \/ Interrupt(c)
  <2>1. /\ cpc' \in [Clients -> Talking \cup Ended \cup {"connect"}]
        /\ UNCHANGED <<version, pc, client, fds, parent, sigchld, halted, handling, req, backlog>>
    <3>1. Talks(c)
      BY <1>3, ClientsTalk
    <3> QED
      BY <3>1, <1>1 DEF Talks, Shape, procVars
  <2>2. CASE Ask(c)
    <3>1. \A r \in ClientRequests : r \in AnyRequest
      BY DEF AnyRequest
    <3>2. /\ cmde' \in [Clients -> AnyRequest]
          /\ asked' \in [Clients -> Seq(ClientRequests)]
          /\ \A d \in Clients : cpc'[d] = "answer" => cmde'[d] \in ClientRequests
      BY <1>1, <2>2, <3>1, SMT DEF Ask, Shape
    <3> QED
      BY <1>1, <2>1, <3>2 DEF Shape, Connected
  <2>3. CASE ~Ask(c)
    <3>1. UNCHANGED <<cmde, asked>>
      BY <1>3, <2>3 DEF ClientRuns, Interrupt, DialFails, AskFails, ReadAnswer, ReadNoAnswer,
                        AnswerFails, Create, CopyUnit, CopyReturns, ListUnit, ListReturns,
                        EndClient, kernelVars, ftpVars
    <3>2. \A d \in Clients : cpc'[d] = "answer" => cpc[d] = "answer"
      <4>1. cpc[c] = "answer" => Command[cmde[c].kind] \in {"create", "list"}
        BY <1>1, KindsOfClients, SMT DEF Shape, Command
      <4>2. cpc'[c] = "answer" => cpc[c] = "answer"
        BY <1>1, <1>3, <2>3, <4>1, SMT
           DEF Shape, ClientRuns, Interrupt, DialFails, AskFails, ReadAnswer, ReadNoAnswer,
               AnswerFails, Create, CopyUnit, CopyReturns, ListUnit, ListReturns,
               EndClient, ftpVars
      <4>3. \A d \in Clients : d # c => cpc'[d] = cpc[d]
        <5>1. Talks(c)
          BY <1>3, ClientsTalk
        <5> QED
          BY <5>1, <1>1 DEF Talks, Shape
      <4> QED
        BY <4>2, <4>3
    <3> QED
      BY <1>1, <2>1, <3>1, <3>2 DEF Shape, Connected
  <2> QED
    BY <2>2, <2>3
<1> QED
  BY <1>2, <1>3 DEF ClientStep

-----------------------------------------------------------------------------
(* Printing, and signals without an end *)

\* A process that prints ends, or writes to the connection that is its output.
LEMMA PrintSteps ==
  ASSUME NEW p \in Procs, Prints(p), UNCHANGED ftpVars
  PROVE  \/ Ends(p)
         \/ /\ UNCHANGED <<procVars, conn, asked, backlog>>
            /\ out[p] # NoFd /\ conn[out[p]] = "open"
            /\ stream' = [stream EXCEPT ![out[p]] = Append(stream[out[p]], Text)]
  BY DEF Prints, Ends, Alive

\* A child that was stopped or continued leaves a signal, and the parent marked.
LEMMA HaltKeeps ==
  ASSUME NEW p \in Procs, Halt(p), UNCHANGED ftpVars, IInv
  PROVE  IInv'
<1>1. /\ parent[p] \in Procs
      /\ sigchld' = [sigchld EXCEPT ![parent[p]] = TRUE]
      /\ halted' = [halted EXCEPT ![parent[p]] = TRUE]
      /\ UNCHANGED <<version, pc, client, fds, parent, handling, req, asked, backlog, ftpVars>>
  BY DEF Halt, kernelVars
<1>2. Shape /\ Fresh /\ WaitReturns /\ HoldsOne
  BY DEF IInv
<1>3. Shape'
  BY <1>1, <1>2 DEF Shape, Connected, ftpVars
<1>4. Fresh' /\ HoldsOne'
  BY <1>1, <1>2 DEF Fresh, Unused, Queued, Distinct, ForkOnce, Forking, Waits, HoldsOne, ftpVars
<1>5. \A q \in Procs : ~halted'[q] => ~halted[q] /\ sigchld'[q] = sigchld[q]
  BY <1>1, <1>2 DEF Shape
<1>6. \A q \in Procs : Zombies(q)' = Zombies(q)
  BY <1>1 DEF Zombies
<1>7. WaitReturns'
  <2> SUFFICES ASSUME NEW q \in Procs, ~halted'[q]
               PROVE  /\ sigchld'[q] \/ handling'[q] => Zombies(q)' # {}
                      /\ sigchld'[q] /\ handling'[q] => \E r, t \in Zombies(q)' : r # t
    BY DEF WaitReturns
  <2>1. handling' = handling
    BY <1>1
  <2> QED
    BY <1>2, <1>5, <1>6, <2>1 DEF WaitReturns
<1> QED
  BY <1>3, <1>4, <1>7 DEF IInv

-----------------------------------------------------------------------------
(* The invariant *)

\* The first invariant holds at first,
LEMMA InitHolds == FtpInit => IInv
<1> SUFFICES ASSUME FtpInit PROVE IInv
  OBVIOUS
<1> USE DEF FtpInit, ForkInit
<1>1. Other \in AnyRequest
  BY DEF AnyRequest
<1>2. Clients \subseteq Procs /\ Main \in Procs /\ Main \notin Clients
  BY ForkAssume DEF Procs
<1>3. Shape
  BY <1>1, ForkAssume, SMT DEF Shape, Connected, Points, Dead, Busy, Serving, Writing
<1>4. Fresh
  BY <1>2, SMT DEF Fresh, Unused, Queued, Distinct, ForkOnce, Forking, Waits
<1>5. WaitReturns
  BY SMT DEF WaitReturns
<1>6. HoldsOne
  BY SMT DEF HoldsOne
<1> QED
  BY <1>3, <1>4, <1>5, <1>6 DEF IInv

\* and every step keeps it.
LEMMA StepKeeps ==
  ASSUME IInv, [Next]_vars
  PROVE  IInv'
<1>1. CASE Setup /\ UNCHANGED ftpVars
  <2>1. Shape'
    <3>1. CASE End(Main)
      <4>1. Main \in Procs /\ Ends(Main)
        BY <1>1, <3>1 DEF Setup, Ends, Procs, Dead, kernelVars
      <4> QED
        BY <4>1, <1>1, SpecialShape
    <3>2. CASE ~End(Main)
      BY <1>1, <3>2, SMT DEF Setup, GoTo, Procs, IInv, Shape, Connected, Points, Busy, Serving,
                             Writing, kernelVars, ftpVars
    <3> QED
      BY <3>1, <3>2
  <2> QED
    BY <1>1, <2>1, SetupKeeps DEF IInv
<1>2. CASE \E p \in Procs : ProcessRuns(p)
  BY <1>2, ProcessKeeps, ProcessShape DEF IInv
<1>5. CASE \E p \in Procs : (Prints(p) \/ Halt(p)) /\ UNCHANGED ftpVars
  <2>1. PICK p \in Procs : (Prints(p) \/ Halt(p)) /\ UNCHANGED ftpVars
    BY <1>5
  <2>2. CASE Ends(p)
    BY <2>1, <2>2, EndsKeeps, SpecialShape DEF IInv
  <2>3. CASE UNCHANGED <<procVars, asked, backlog>>
    BY <2>1, <2>3 DEF procVars, ftpVars, IInv, Shape, Fresh, Unused, Queued, Distinct,
                      ForkOnce, Forking, Waits, WaitReturns, Zombies, HoldsOne, Connected
  <2>4. CASE Halt(p)
    BY <2>1, <2>4, HaltKeeps
  <2> QED
    BY <2>1, <2>2, <2>3, <2>4, PrintSteps
<1>3. CASE \E c \in Clients : ClientStep(c)
  <2>1. PICK c \in Clients : ClientStep(c)
    BY <1>3
  <2>2. Shape'
    BY <2>1, ClientShape
  <2> QED
    BY <2>1, <2>2, DialKeeps, ClientsTalk, TalksKeeps DEF ClientStep, IInv
<1>4. CASE UNCHANGED vars
  BY <1>4 DEF vars, procVars, kernelVars, ftpVars, IInv, Shape, Fresh, Unused, Queued, Distinct,
              ForkOnce, Forking, Waits, WaitReturns, Zombies, HoldsOne, Connected
<1> QED
  BY <1>1, <1>2, <1>3, <1>4, <1>5 DEF Next

\* The first invariant holds in every reachable state.
LEMMA Inductive == Spec => []IInv
<1>1. FtpInit => IInv
  BY InitHolds
<1>2. IInv /\ [Next]_vars => IInv'
  BY StepKeeps
<1> QED
  BY <1>1, <1>2, PTL DEF Spec

\* traitement_sig: for any number of connections wait() finds a child that ended,
\* and holds no process in its handler, as long as no child of it was stopped.
THEOREM WaitNeverBlocks == Spec => []WaitReturns
<1>1. IInv => WaitReturns
  BY DEF IInv
<1> QED
  BY <1>1, Inductive, PTL

-----------------------------------------------------------------------------
(* What travels on a connection *)

\* The types the first invariant leaves out.
Typed ==
  /\ version \in Versions
  /\ out \in [Procs -> Clients \cup {NoFd}]
  /\ pos \in [Procs -> Nat]
  /\ conn \in [Clients -> {"idle", "open", "gone"}]
  /\ stream \in [Clients -> Seq(Items)]
  /\ rest \in [Clients -> Nat]
  /\ file \in [Clients -> Seq(Items)]

\* A process holds the connection it works on, and one that serves is the child
\* made for it.
Held == \A p \in Procs : pc[p] \in Serving \cup {"fork", "close"} => client[p] \in fds[p]
Own  == \A p \in Procs : pc[p] \in Serving => client[p] = p

\* A child is where the request it read leads.
Fetching == {"get", "copy"}
Showing  == {"list", "exec", "ls"}
OnCourse ==
  \A p \in Procs :
    /\ pc[p] \in Fetching => req[p].kind = "get"
    /\ pc[p] = "get" => pos[p] = 0
    /\ pc[p] = "copy" => req[p].path \in DOMAIN Files
    /\ pc[p] \in Showing => req[p].kind = "list"

\* In the program of trunk the standard output of a process is a connection only
\* after execlp(), and its own.
TrunkOut ==
  version = "trunk" =>
    \A p \in Procs : out[p] # NoFd => out[p] = p /\ pc[p] \in {"ls", "exit"}

\* There a child that is to accept again has closed its own connection.
Returned == {"close", "accept", "fork"}
LetGo ==
  version = "trunk" =>
    \A p \in Clients : /\ pc[p] = "close" => client[p] = p
                       /\ pc[p] \in {"accept", "fork"} => p \notin fds[p]

\* A client talks while its connection is open, and nothing stays in a closed one.
Open(c) ==
  /\ cpc[c] \in Talking <=> conn[c] = "open"
  /\ cpc[c] \notin Talking => stream[c] = << >>

\* A client that has not asked was sent nothing.
Unasked(c) ==
  cpc[c] \in {"connect", "ask"} =>
    /\ asked[c] = << >> /\ stream[c] = << >> /\ file[c] = << >>
    /\ pc[c] \in {"none", "recv", "zombie", "gone"}

\* The child of a client that waits serves what the client asked for.
Reading == Fetching \cup Showing \cup {"dispatch"}
Agreed(c) ==
  cpc[c] \in Talking \ {"ask"} =>
    asked[c] \in {<< >>, <<cmde[c]>>} /\ (pc[c] \in Reading => req[c] = cmde[c])

\* An answer comes first, and the chunks of the file after it.
Answered(c) ==
  cpc[c] = "answer" =>
    /\ file[c] = << >>
    /\ pc[c] \in {"none", "recv", "dispatch", "get", "list"} => stream[c] = << >>
    /\ pc[c] \in {"copy", "exec", "ls"} => stream[c] # << >>
    /\ stream[c] # << >> => stream[c][1].tag = "answer"
    /\ cmde[c].kind = "get" =>
         /\ \A i \in DOMAIN stream[c] : i > 1 => stream[c][i] = Chunk(cmde[c].path, i - 2)
         /\ pc[c] = "copy" => Len(stream[c]) = pos[c] + 1

\* Nobody is to accept the connection of c any more.
PastAccept(c) == pc[c] = "none" => ~Waits(c) /\ \A p \in Procs : ~Forking(p, c)

\* The chunks in the connection go on from those in the file.
Copied(c) ==
  cpc[c] \in {"create", "copy"} =>
    /\ cmde[c].kind = "get"
    /\ PastAccept(c) /\ pc[c] \notin {"recv", "dispatch", "get"}
    /\ cpc[c] = "create" => file[c] = << >>
    /\ \A i \in DOMAIN stream[c] :
         stream[c][i] = Chunk(cmde[c].path, Len(file[c]) + i - 1)
    /\ pc[c] = "copy" => Len(file[c]) + Len(stream[c]) = pos[c]

Stored(c) ==
  \A i \in DOMAIN file[c] :
    cmde[c].kind = "get" /\ file[c][i] = Chunk(cmde[c].path, i - 1)

Wire(c) == Open(c) /\ Unasked(c) /\ Agreed(c) /\ Answered(c) /\ Copied(c) /\ Stored(c)

Wires == \A c \in Clients : Wire(c)

\* The points of a child before it has sent anything but a part of a file.
Before == {"none", "recv", "dispatch", "get", "list"}

\* Once a client reads a listing nobody is to answer it any more.
Past(c) == cpc[c] = "list" => PastAccept(c) /\ pc[c] \notin Before \ {"none"}

\* The client of a child of trunk that is to accept again was refused a listing.
Refused(c) ==
  version = "trunk" /\ pc[c] \in Returned /\ conn[c] = "open" =>
    cmde[c].kind = "list" /\ cpc[c] = "answer" /\ stream[c] = <<Answer(FALSE, 0)>>

\* A connection that is somebody's standard output is that of a client that asked
\* for a listing and was sent the answer.
Printed(c) ==
  (\E p \in Procs : out[p] = c) =>
    /\ pc[c] \notin Before
    /\ conn[c] = "open" => /\ cmde[c].kind = "list" /\ cpc[c] \in {"answer", "list"}
                           /\ cpc[c] = "answer" => stream[c] # << >>

Listed(c) == Past(c) /\ Refused(c) /\ Printed(c)

Listings == \A c \in Clients : Listed(c)

FtpInv == /\ IInv /\ Typed /\ Held /\ Own /\ OnCourse /\ TrunkOut /\ LetGo
          /\ Wires /\ Listings

-----------------------------------------------------------------------------
(* The points of the processes, and their descriptors *)

\* What one step of a child that serves does to its point and its request.
LEMMA StayPoints ==
  ASSUME NEW p \in Procs, IInv, OnCourse, UNCHANGED ftpVars,
         pos \in [Procs -> Nat],
         \/ Recv(p) \/ RecvNothing(p) \/ Dispatch(p)
         \/ AnswerGet(p) \/ CopyChunk(p) \/ CopyDone(p) \/ CopyFails(p)
         \/ AnswerList(p) \/ AnswerDir(p) \/ Exec(p) \/ LsWrites(p)
  PROVE  /\ pc[p] \in Serving /\ pc'[p] \in Serving \cup {"close", "exit"}
         /\ pc'[p] \in Before => pc[p] \in Before
         /\ pc'[p] \in Fetching => req'[p].kind = "get"
         /\ pc'[p] = "get" => pos'[p] = 0
         /\ pc'[p] = "copy" => req'[p].path \in DOMAIN Files
         /\ pc'[p] \in Showing => req'[p].kind = "list"
         /\ \A q \in Procs : q # p => /\ pc'[q] = pc[q] /\ req'[q] = req[q]
                                      /\ pos'[q] = pos[q]
         /\ UNCHANGED <<version, client, fds>>
<1>1. Shape
  BY DEF IInv
<1>2. OnCourse /\ pos \in [Procs -> Nat]
  OBVIOUS
<1> USE DEF At, GoTo, Serving, Writing, Fetching, Showing, Before, kernelVars
<1>3. CASE Recv(p)
  BY <1>1, <1>2, <1>3, SMT DEF Recv, Shape
<1>4. CASE RecvNothing(p)
  BY <1>1, <1>2, <1>4, SMT DEF RecvNothing, Shape
<1>5. CASE Dispatch(p)
  <2>1. req[p].kind \in {"get", "list", "other"}
    BY <1>1, Kinds DEF Shape
  <2>2. /\ req[p].kind = "get" => NextPc[req[p].kind] = "get"
        /\ req[p].kind = "list" => NextPc[req[p].kind] = "list"
        /\ req[p].kind = "other" => NextPc[req[p].kind] = "exit"
    BY SMT DEF NextPc
  <2>3. \/ pc' = [pc EXCEPT ![p] = "get"] /\ req[p].kind = "get"
        \/ pc' = [pc EXCEPT ![p] = "list"] /\ req[p].kind = "list"
        \/ pc' = [pc EXCEPT ![p] = "exit"]
    BY <1>5, <2>1, <2>2, Zenon DEF Dispatch
  <2>4. /\ pc[p] = "dispatch" /\ UNCHANGED <<version, client, fds, req>>
        /\ pos' = [pos EXCEPT ![p] = 0]
    BY <1>5 DEF Dispatch
  <2> QED
    BY <1>1, <1>2, <2>3, <2>4, SMT DEF Shape
<1>6. CASE AnswerGet(p)
  <2>1. /\ pc[p] = "get" /\ UNCHANGED <<version, client, fds, req, pos>>
        /\ \/ pc' = [pc EXCEPT ![p] = "copy"] /\ req[p].path \in DOMAIN Files
           \/ pc' = [pc EXCEPT ![p] = "exit"]
    BY <1>6, Zenon DEF AnswerGet, CanOpen
  <2> QED
    BY <1>1, <1>2, <2>1, SMT DEF Shape, OnCourse
<1>7. CASE CopyChunk(p)
  BY <1>1, <1>2, <1>7, SMT DEF CopyChunk, Shape, OnCourse
<1>8. CASE CopyDone(p)
  BY <1>1, <1>2, <1>8, SMT DEF CopyDone, Shape, AfterGetTrunk, AfterGetYassine
<1>13. CASE CopyFails(p)
  BY <1>1, <1>2, <1>13, SMT DEF CopyFails, Shape
<1>9. CASE AnswerList(p)
  <2>1. /\ pc[p] = "list" /\ UNCHANGED <<version, client, fds, req, pos>>
        /\ \/ pc' = [pc EXCEPT ![p] = "exec"]
           \/ pc' = [pc EXCEPT ![p] = "close"]
    BY <1>9, Zenon DEF AnswerList
  <2> QED
    BY <1>1, <1>2, <2>1, SMT DEF Shape, OnCourse
<1>10. CASE AnswerDir(p)
  BY <1>1, <1>2, <1>10, SMT DEF AnswerDir, Shape, OnCourse
<1>11. CASE Exec(p)
  BY <1>1, <1>2, <1>11, SMT DEF Exec, Shape, OnCourse
<1>12. CASE LsWrites(p)
  BY <1>1, <1>2, <1>12, SMT DEF LsWrites, Shape, OnCourse
<1> QED
  BY <1>3, <1>4, <1>5, <1>6, <1>7, <1>8, <1>9, <1>10, <1>11, <1>12, <1>13

\* Every step of a process keeps the children on course, and every child on its
\* own connection.
LEMMA PointsKeep ==
  ASSUME NEW p \in Procs, ProcessRuns(p) \/ Ends(p), IInv, Held, Own, OnCourse,
         pos \in [Procs -> Nat]
  PROVE  Held' /\ Own' /\ OnCourse'
<1>1. Shape /\ Fresh /\ UNCHANGED ftpVars
  BY DEF IInv, ProcessRuns, Ends
<1>2. Held /\ Own /\ OnCourse
  OBVIOUS
<1>3. Serving \cap {"accept", "fork", "close", "exit", "none", "zombie", "gone"} = {}
      /\ Fetching \cup Showing \subseteq Serving /\ "recv" \notin Fetching \cup Showing
  BY SMT DEF Serving, Writing, Fetching, Showing
<1>4. "copy" \in Fetching /\ "get" \in Fetching
  BY DEF Fetching
<1>5. ASSUME \/ Recv(p) \/ RecvNothing(p) \/ Dispatch(p)
             \/ AnswerGet(p) \/ CopyChunk(p) \/ CopyDone(p) \/ CopyFails(p)
             \/ AnswerList(p) \/ AnswerDir(p) \/ Exec(p) \/ LsWrites(p)
      PROVE  Held' /\ Own' /\ OnCourse'
  <2>1. /\ pc[p] \in Serving /\ pc'[p] \in Serving \cup {"close", "exit"}
        /\ pc'[p] \in Fetching => req'[p].kind = "get"
        /\ pc'[p] = "get" => pos'[p] = 0
        /\ pc'[p] = "copy" => req'[p].path \in DOMAIN Files
        /\ pc'[p] \in Showing => req'[p].kind = "list"
        /\ \A q \in Procs : q # p => /\ pc'[q] = pc[q] /\ req'[q] = req[q]
                                     /\ pos'[q] = pos[q]
        /\ UNCHANGED <<version, client, fds>>
    BY <1>1, <1>5, StayPoints
  <2>2. Held' /\ Own'
    BY <1>2, <1>3, <2>1 DEF Held, Own
  <2>3. OnCourse'
    BY <1>2, <2>1 DEF OnCourse
  <2> QED
    BY <2>2, <2>3
<1>6. ASSUME UNCHANGED <<req, pos>>,
             \A q \in Procs : \/ pc'[q] \in {"accept", "exit", "zombie", "gone", "none"}
                              \/ /\ pc'[q] = pc[q] /\ client'[q] = client[q]
                                 /\ fds'[q] = fds[q]
                              \/ pc'[q] = "recv" /\ client'[q] = q /\ client'[q] \in fds'[q]
                              \/ pc'[q] \in {"fork", "close"} /\ client'[q] \in fds'[q]
      PROVE  Held' /\ Own' /\ OnCourse'
  <2>1. Held' /\ Own'
    BY <1>2, <1>3, <1>6 DEF Held, Own
  <2>2. OnCourse'
    BY <1>2, <1>3, <1>4, <1>6 DEF OnCourse
  <2> QED
    BY <2>1, <2>2
<1> USE DEF At, GoTo, kernelVars
<1>7. CASE Accept(p)
  <2>1. Head(backlog) \in Clients
    BY <1>1, <1>7, SMT DEF Accept, Shape
  <2> QED
    BY <1>1, <1>6, <1>7, <2>1, SMT DEF Accept, Shape
<1>8. CASE AcceptFails(p)
  BY <1>1, <1>6, <1>8, SMT DEF AcceptFails, Shape
<1>9. CASE Fork(p)
  <2> DEFINE c == client[p]
  <2>1. c \in Clients /\ c \in Procs /\ c # p /\ c \in fds[p]
    BY <1>1, <1>2, <1>9 DEF Fork, Fresh, ForkOnce, Held, Procs
  <2>2. AfterFork \in {"accept", "close"}
    BY SMT DEF AfterFork, AfterForkTrunk, AfterForkYassine
  <2>3. /\ pc' = [pc EXCEPT ![p] = AfterFork, ![c] = "recv"]
        /\ client' = [client EXCEPT ![c] = c]
        /\ fds' = [fds EXCEPT ![c] = fds[p]] /\ UNCHANGED <<req, pos>>
    BY <1>9 DEF Fork
  <2> QED
    BY <1>1, <1>6, <2>1, <2>2, <2>3, SMT DEF Shape
<1>10. CASE Close(p)
  BY <1>1, <1>6, <1>10, SMT DEF Close, Shape
<1>11. CASE Ends(p)
  <2>1. /\ pc' = [q \in Procs |->
                IF q = p THEN (IF parent[p] = Init1 THEN "gone" ELSE "zombie")
                ELSE IF q \in Zombies(p) THEN "gone" ELSE pc[q]]
        /\ fds' = [fds EXCEPT ![p] = {}]
        /\ UNCHANGED <<client, req, pos>>
    BY <1>11 DEF Ends, End
  <2> QED
    BY <1>1, <1>6, <2>1, SMT DEF Shape
<1>12. CASE HandlerBegins(p)
  BY <1>1, <1>6, <1>12, SMT DEF HandlerBegins, Shape
<1>13. CASE HandlerWaits(p)
  <2>1. /\ UNCHANGED <<client, fds, req, pos>>
        /\ pc' = pc \/ \E q \in Zombies(p) : pc' = [pc EXCEPT ![q] = "gone"]
    BY <1>13 DEF HandlerWaits
  <2> QED
    BY <1>1, <1>6, <2>1 DEF Shape
<1> QED
  BY <1>1, <1>5, <1>7, <1>8, <1>9, <1>10, <1>11, <1>12, <1>13, EndSteps
  DEF ProcessRuns, ProcStep

-----------------------------------------------------------------------------
(* What a child of trunk holds when it accepts, and where it prints *)

\* accept(), fork() and close() of trunk: a child comes back to accept() without
\* its own connection, and never takes it again.
LEMMA LetGoKeeps ==
  ASSUME NEW p \in Procs, ProcessRuns(p) \/ Ends(p), IInv, Own, OnCourse, LetGo,
         pos \in [Procs -> Nat]
  PROVE  LetGo'
<1>1. Shape /\ Fresh /\ UNCHANGED ftpVars
  BY DEF IInv, ProcessRuns, Ends
<1>2. version = "trunk" => \A q \in Clients :
         /\ pc[q] = "close" => client[q] = q
         /\ pc[q] \in {"accept", "fork"} => q \notin fds[q]
  BY DEF LetGo
<1>3. Clients \subseteq Procs
  BY DEF Procs
<1>4. ASSUME UNCHANGED version,
             \A q \in Procs :
               \/ pc'[q] = pc[q] /\ fds'[q] = fds[q] /\ client'[q] = client[q]
               \/ pc'[q] \notin Returned
               \/ pc'[q] = "close" /\ (version = "trunk" => client'[q] = q)
               \/ /\ pc[q] \in {"accept", "fork"} /\ pc'[q] \in {"accept", "fork"}
                  /\ q \in fds'[q] => q \in fds[q]
               \/ /\ pc[q] = "close" /\ pc'[q] = "accept"
                  /\ client[q] = q => q \notin fds'[q]
      PROVE  LetGo'
  BY <1>2, <1>3, <1>4 DEF LetGo, Returned
<1> USE DEF At, GoTo, kernelVars
<1>5. ASSUME \/ Recv(p) \/ RecvNothing(p) \/ Dispatch(p)
             \/ AnswerGet(p) \/ CopyChunk(p) \/ CopyDone(p) \/ CopyFails(p)
             \/ AnswerList(p) \/ AnswerDir(p) \/ Exec(p) \/ LsWrites(p)
      PROVE  LetGo'
  <2>1. /\ pc[p] \in Serving /\ pc'[p] \in Serving \cup {"close", "exit"}
        /\ \A q \in Procs : q # p => pc'[q] = pc[q]
        /\ UNCHANGED <<version, client, fds>>
    BY <1>1, <1>5, StayPoints
  <2>2. Serving \cap Returned = {} /\ "exit" \notin Returned
    BY SMT DEF Serving, Writing, Returned
  <2>3. client'[p] = p
    BY <2>1 DEF Own
  <2> QED
    BY <1>4, <2>1, <2>2, <2>3
<1>6. CASE Accept(p)
  <2> DEFINE c == Head(backlog)
  <2>1. /\ pc[p] = "accept" /\ pc' = [pc EXCEPT ![p] = "fork"]
        /\ fds' = [fds EXCEPT ![p] = fds[p] \cup {c}]
        /\ client' = [client EXCEPT ![p] = c] /\ UNCHANGED version
    BY <1>6, Zenon DEF Accept
  <2>2. c # p
    <3>1. backlog # << >> /\ backlog \in Seq(Clients)
      BY <1>1, <1>6 DEF Accept, Shape
    <3>2. 1 \in DOMAIN backlog /\ c = backlog[1]
      BY <3>1, HeadTailProperties, SMT
    <3>3. pc[c] = "none"
      BY <1>1, <3>2 DEF Fresh, Queued
    <3> QED
      BY <2>1, <3>3
  <2> HIDE DEF c
  <2>3. /\ pc'[p] = "fork" /\ fds'[p] = fds[p] \cup {c}
        /\ \A q \in Procs : q # p => /\ pc'[q] = pc[q] /\ fds'[q] = fds[q]
                                     /\ client'[q] = client[q]
    BY <1>1, <2>1 DEF Shape
  <2> QED
    BY <1>4, <2>1, <2>2, <2>3
<1>7. CASE AcceptFails(p)
  <2>1. pc[p] = "accept" /\ UNCHANGED <<version, pc, fds>>
        /\ client' = [client EXCEPT ![p] = NoFd]
    BY <1>7, Zenon DEF AcceptFails
  <2> QED
    BY <1>1, <1>4, <2>1 DEF Shape
<1>8. CASE Fork(p)
  <2> DEFINE c == client[p]
  <2>1. c \in Clients /\ c \in Procs /\ c # p
    BY <1>1, <1>8 DEF Fork, Fresh, ForkOnce, Procs
  <2>2. /\ AfterFork \in {"accept", "close"}
        /\ AfterFork = "close" => version # "trunk"
    BY SMT DEF AfterFork, AfterForkTrunk, AfterForkYassine
  <2>3. /\ pc[p] = "fork" /\ pc' = [pc EXCEPT ![p] = AfterFork, ![c] = "recv"]
        /\ fds' = [fds EXCEPT ![c] = fds[p]] /\ client' = [client EXCEPT ![c] = c]
        /\ UNCHANGED version
    BY <1>8 DEF Fork
  <2>4. /\ pc'[p] = AfterFork /\ pc'[c] = "recv" /\ fds'[p] = fds[p]
        /\ \A q \in Procs : q \notin {p, c} => /\ pc'[q] = pc[q] /\ fds'[q] = fds[q]
                                               /\ client'[q] = client[q]
    BY <1>1, <2>1, <2>2, <2>3 DEF Shape
  <2> QED
    BY <1>4, <2>1, <2>2, <2>3, <2>4 DEF Returned
<1>9. CASE Close(p)
  <2>1. /\ pc[p] = "close" /\ pc' = [pc EXCEPT ![p] = "accept"]
        /\ fds' = [fds EXCEPT ![p] = fds[p] \ {client[p]}] /\ UNCHANGED <<version, client>>
    BY <1>9, Zenon DEF Close
  <2>2. /\ pc'[p] = "accept" /\ fds'[p] = fds[p] \ {client[p]}
        /\ \A q \in Procs : q # p => pc'[q] = pc[q] /\ fds'[q] = fds[q]
    BY <1>1, <2>1 DEF Shape
  <2> QED
    BY <1>4, <2>1, <2>2
<1>10. CASE Ends(p)
  <2>1. /\ pc' = [q \in Procs |->
                IF q = p THEN (IF parent[p] = Init1 THEN "gone" ELSE "zombie")
                ELSE IF q \in Zombies(p) THEN "gone" ELSE pc[q]]
        /\ fds' = [fds EXCEPT ![p] = {}]
        /\ UNCHANGED <<version, client>>
    BY <1>10 DEF Ends, End
  <2>2. \A q \in Procs : \/ pc'[q] = pc[q] /\ fds'[q] = fds[q]
                         \/ pc'[q] \in {"gone", "zombie"}
    BY <1>1, <2>1, SMT DEF Shape
  <2> QED
    BY <1>4, <2>1, <2>2 DEF Returned
<1>11. CASE HandlerBegins(p)
  BY <1>4, <1>11, Zenon DEF HandlerBegins
<1>12. CASE HandlerWaits(p)
  <2>1. /\ UNCHANGED <<version, fds, client>>
        /\ pc' = pc \/ \E q \in Zombies(p) : pc' = [pc EXCEPT ![q] = "gone"]
    BY <1>12 DEF HandlerWaits
  <2>2. \A q \in Procs : pc'[q] = pc[q] \/ pc'[q] = "gone"
    BY <1>1, <2>1 DEF Shape
  <2> QED
    BY <1>4, <2>1, <2>2 DEF Returned
<1> QED
  BY <1>1, <1>5, <1>6, <1>7, <1>8, <1>9, <1>10, <1>11, <1>12, EndSteps
  DEF ProcessRuns, ProcStep

\* dup2() and execlp() of trunk: the process ends after them, whether or not
\* execlp() failed, so that no other gets its output.
LEMMA TrunkOutKeeps ==
  ASSUME NEW p \in Procs, ProcessRuns(p) \/ Ends(p), IInv, Typed, Own, OnCourse, TrunkOut
  PROVE  TrunkOut'
<1>1. Shape /\ Fresh /\ out \in [Procs -> Clients \cup {NoFd}] /\ UNCHANGED ftpVars
      /\ NoFd \notin Clients
  BY ForkAssume DEF IInv, ProcessRuns, Ends, Typed
<1>2. version = "trunk" =>
        \A q \in Procs : out[q] # NoFd => out[q] = q /\ pc[q] \in {"ls", "exit"}
  BY DEF TrunkOut
<1>3. ASSUME UNCHANGED version,
             version = "trunk" => \A q \in Procs :
               \/ out'[q] = NoFd
               \/ out'[q] = out[q] /\ (pc'[q] = pc[q] \/ pc'[q] = "exit")
               \/ out'[q] = out[q] /\ pc[q] \notin {"ls", "exit"}
               \/ out'[q] = q /\ pc'[q] \in {"ls", "exit"}
      PROVE  TrunkOut'
  BY <1>2, <1>3 DEF TrunkOut
<1> USE DEF At, GoTo, kernelVars
<1>4. CASE \/ Recv(p) \/ RecvNothing(p) \/ Dispatch(p)
           \/ AnswerGet(p) \/ CopyChunk(p) \/ CopyDone(p) \/ CopyFails(p)
           \/ AnswerList(p) \/ AnswerDir(p)
  <2>1. /\ pc[p] \notin {"ls", "exit"} /\ UNCHANGED out
        /\ \A q \in Procs : q # p => pc'[q] = pc[q]
        /\ UNCHANGED version
    <3>1. \A q \in Procs : q # p => pc'[q] = pc[q]
      BY <1>1, <1>4, StayPoints DEF Typed
    <3> QED
      BY <1>4, <3>1, Zenon DEF Recv, RecvNothing, Dispatch, AnswerGet, CopyChunk, CopyDone,
                               CopyFails, AnswerList, AnswerDir
  <2> QED
    BY <1>3, <2>1
<1>5. CASE Exec(p)
  <2>1. /\ pc[p] = "exec" /\ out' = [out EXCEPT ![p] = client[p]] /\ UNCHANGED version
        /\ \/ pc' = [pc EXCEPT ![p] = "ls"]
           \/ pc' = [pc EXCEPT ![p] = IF version = "trunk" THEN "exit" ELSE "close"]
    BY <1>5, Zenon DEF Exec
  <2>2. client[p] = p
    BY <2>1 DEF Own, Serving
  <2>3. /\ \A q \in Procs : q # p => out'[q] = out[q] /\ pc'[q] = pc[q]
        /\ out'[p] = p /\ (version = "trunk" => pc'[p] \in {"ls", "exit"})
    BY <1>1, <2>1, <2>2 DEF Shape
  <2> QED
    BY <1>3, <2>1, <2>3
<1>6. CASE LsWrites(p)
  <2>1. pc' = [pc EXCEPT ![p] = "exit"] /\ UNCHANGED <<version, out>>
    BY <1>6, Zenon DEF LsWrites
  <2> QED
    BY <1>1, <1>3, <2>1 DEF Shape
<1>7. CASE Accept(p) \/ AcceptFails(p) \/ Close(p) \/ HandlerBegins(p)
  <2>1. /\ UNCHANGED <<version, out>>
        /\ \/ UNCHANGED pc
           \/ pc[p] \notin {"ls", "exit"} /\ \E at : pc' = [pc EXCEPT ![p] = at]
    BY <1>7, Zenon DEF Accept, AcceptFails, Close, HandlerBegins
  <2> QED
    BY <1>1, <1>3, <2>1 DEF Shape
<1>8. CASE Fork(p)
  <2> DEFINE c == client[p]
  <2>1. c \in Clients /\ c \in Procs /\ c # p /\ pc[p] = "fork" /\ pc[c] = "none"
    BY <1>1, <1>8 DEF Fork, Fresh, ForkOnce, Procs
  <2>2. /\ pc' = [pc EXCEPT ![p] = AfterFork, ![c] = "recv"]
        /\ out' = [out EXCEPT ![c] = out[p]] /\ UNCHANGED version
    BY <1>8 DEF Fork
  <2>3. version = "trunk" => out[p] = NoFd
    BY <1>2, <2>1
  <2>4. /\ out'[c] = out[p] /\ out'[p] = out[p]
        /\ \A q \in Procs : q \notin {p, c} => pc'[q] = pc[q] /\ out'[q] = out[q]
    BY <1>1, <2>1, <2>2 DEF Shape
  <2> QED
    BY <1>3, <2>2, <2>3, <2>4
<1>9. CASE Ends(p)
  <2>1. /\ pc' = [q \in Procs |->
                IF q = p THEN (IF parent[p] = Init1 THEN "gone" ELSE "zombie")
                ELSE IF q \in Zombies(p) THEN "gone" ELSE pc[q]]
        /\ out' = [out EXCEPT ![p] = NoFd] /\ UNCHANGED version
    BY <1>9 DEF Ends, End
  <2>2. \A q \in Procs : \/ out'[q] = NoFd
                         \/ out'[q] = out[q] /\ pc'[q] = pc[q]
                         \/ out'[q] = out[q] /\ pc[q] \notin {"ls", "exit"}
    BY <1>1, <2>1, SMT DEF Shape, Zombies
  <2> QED
    BY <1>3, <2>1, <2>2
<1>10. CASE HandlerWaits(p)
  <2>1. /\ UNCHANGED <<version, out>>
        /\ pc' = pc \/ \E q \in Zombies(p) : pc' = [pc EXCEPT ![q] = "gone"]
    BY <1>10 DEF HandlerWaits
  <2>2. \A q \in Procs : pc'[q] = pc[q] \/ pc[q] \notin {"ls", "exit"}
    BY <1>1, <2>1, SMT DEF Shape, Zombies
  <2> QED
    BY <1>3, <2>1, <2>2
<1> QED
  BY <1>1, <1>4, <1>5, <1>6, <1>7, <1>8, <1>9, <1>10, EndSteps
  DEF ProcessRuns, ProcStep

\* What the clients do and the set-up of Main leave the children alone.
LEMMA QuietKeeps ==
  ASSUME IInv, Typed, Held, Own, OnCourse, TrunkOut, LetGo,
         \/ Setup /\ UNCHANGED ftpVars
         \/ UNCHANGED <<version, pc, client, fds, out, req, pos>>
  PROVE  Held' /\ Own' /\ OnCourse' /\ TrunkOut' /\ LetGo'
<1>1. CASE UNCHANGED <<version, pc, client, fds, out, req, pos>>
  BY <1>1 DEF Held, Own, OnCourse, TrunkOut, LetGo
<1>2. CASE Setup
  <2>1. Shape /\ Main \in Procs /\ Main \notin Clients
    BY ForkAssume DEF IInv, Procs
  <2>2. /\ UNCHANGED <<version, client, req, pos>> /\ pc[Main] = "setup"
        /\ pc'[Main] \in {"accept", "gone", "zombie"} /\ fds'[Main] \in {fds[Main], {}}
        /\ \A q \in Procs : q # Main =>
             fds'[q] = fds[q] /\ (pc'[q] = pc[q] \/ pc'[q] = "gone")
    BY <1>2, <2>1, SMT DEF Setup, End, GoTo, Shape
  <2>3. Serving \cap {"accept", "fork", "close", "none", "zombie", "gone"} = {}
        /\ Fetching \cup Showing \subseteq Serving /\ {"get", "copy"} = Fetching
    BY SMT DEF Serving, Writing, Fetching, Showing
  <2>4. Held' /\ Own'
    BY <2>2, <2>3 DEF Held, Own
  <2>5. OnCourse'
    BY <2>2, <2>3 DEF OnCourse
  <2>6. \A q \in Clients : q \in Procs /\ q # Main
    BY <2>1 DEF Procs
  <2>7. LetGo'
    BY <2>2, <2>6 DEF LetGo
  <2>8. TrunkOut'
    <3>1. out' = out \/ out' = [out EXCEPT ![Main] = NoFd]
      BY <1>2 DEF Setup, End
    <3>2. \A q \in Procs : out[q] # NoFd /\ version = "trunk" =>
            pc[q] \in {"ls", "exit"} /\ q # Main /\ ~(pc[q] = "zombie") /\ out[q] = q
      BY <2>2 DEF TrunkOut
    <3>3. \A q \in Procs : out'[q] # NoFd => out'[q] = out[q]
      BY <2>1, <3>1 DEF Typed
    <3>4. \A q \in Procs : pc'[q] = pc[q] \/ q = Main \/ pc[q] = "zombie"
      BY <1>2, <2>1, SMT DEF Setup, End, GoTo, Shape, Zombies
    <3> QED
      BY <2>2, <3>2, <3>3, <3>4 DEF TrunkOut
  <2> QED
    BY <2>4, <2>5, <2>7, <2>8
<1> QED
  BY <1>1, <1>2

-----------------------------------------------------------------------------
(* The types of what is sent *)

\* write() of an item leaves streams of items.
LEMMA Written ==
  ASSUME NEW p \in Procs, NEW item \in Items, client[p] \in Clients, Typed, Write(p, item)
  PROVE  stream' \in [Clients -> Seq(Items)]
<1>1. \/ stream' = [stream EXCEPT ![client[p]] = Append(stream[client[p]], item)]
      \/ stream' = stream
  BY Zenon DEF Write
<1>2. stream \in [Clients -> Seq(Items)]
  BY DEF Typed
<1>3. Append(stream[client[p]], item) \in Seq(Items)
  BY <1>2, AppendProperties
<1> QED
  BY <1>1, <1>2, <1>3

\* What a process may write.
LEMMA Sendable ==
  /\ \A ok \in BOOLEAN, n \in Nat : Answer(ok, n) \in Items
  /\ \A path \in Paths, n \in Nat : Chunk(path, n) \in Items
  /\ Listing \in Items /\ Text \in Items
  BY DEF Items, Answer, Chunk, Listing, Text

\* The types of what is sent, in every step of a process,
LEMMA ProcessTyped ==
  ASSUME NEW p \in Procs, ProcessRuns(p) \/ Ends(p), IInv, OnCourse, Typed
  PROVE  Typed'
<1>1. Shape /\ Fresh /\ UNCHANGED ftpVars
  BY DEF IInv, ProcessRuns, Ends
<1>2. /\ out \in [Procs -> Clients \cup {NoFd}] /\ pos \in [Procs -> Nat]
      /\ version \in Versions /\ stream \in [Clients -> Seq(Items)]
  BY DEF Typed
<1>3. ASSUME /\ version' = version /\ conn' = conn
             /\ out' \in [Procs -> Clients \cup {NoFd}]
             /\ pos' \in [Procs -> Nat]
             /\ stream' \in [Clients -> Seq(Items)]
      PROVE  Typed'
  BY <1>1, <1>3 DEF Typed, ftpVars
<1>4. \A path \in DOMAIN Files : path \in Paths /\ Files[path] \in Nat
  BY ForkAssume
<1>5. pc[p] \in Serving => client[p] \in Clients
  BY <1>1 DEF Shape, Connected, Busy
<1> USE DEF At, GoTo, kernelVars
<1>6. CASE \/ Recv(p) \/ RecvNothing(p) \/ CopyDone(p) \/ CopyFails(p)
           \/ Accept(p) \/ AcceptFails(p) \/ Close(p)
           \/ HandlerBegins(p) \/ HandlerWaits(p)
  BY <1>2, <1>3, <1>6
  DEF Recv, RecvNothing, CopyDone, CopyFails, Accept, AcceptFails, Close, HandlerBegins,
      HandlerWaits
<1>7. CASE Dispatch(p)
  <2>1. pos' = [pos EXCEPT ![p] = 0] /\ UNCHANGED <<version, out, conn, stream>>
    BY <1>7 DEF Dispatch
  <2> QED
    BY <1>2, <1>3, <2>1
<1>8. CASE AnswerGet(p)
  <2>1. UNCHANGED <<version, out, conn, pos>> /\ pc[p] = "get"
    BY <1>8 DEF AnswerGet
  <2>2. CASE CanOpen(p)
    <3>1. Write(p, Answer(TRUE, Files[req[p].path])) /\ req[p].path \in DOMAIN Files
      BY <1>8, <2>2 DEF AnswerGet, CanOpen
    <3>2. Answer(TRUE, Files[req[p].path]) \in Items
      BY <1>4, <3>1, Sendable
    <3> QED
      BY <1>2, <1>3, <1>5, <2>1, <3>1, <3>2, Written DEF Serving, Writing
  <2>3. CASE ~CanOpen(p)
    <3>1. Write(p, Answer(FALSE, 0)) /\ Answer(FALSE, 0) \in Items
      BY <1>8, <2>3, Sendable DEF AnswerGet
    <3> QED
      BY <1>2, <1>3, <1>5, <2>1, <3>1, Written DEF Serving, Writing
  <2> QED
    BY <2>2, <2>3
<1>9. CASE CopyChunk(p)
  <2>1. /\ UNCHANGED <<version, out, conn>> /\ pc[p] = "copy"
        /\ pos' = [pos EXCEPT ![p] = pos[p] + 1]
        /\ Write(p, Chunk(req[p].path, pos[p]))
    BY <1>9 DEF CopyChunk
  <2>2. req[p].path \in Paths /\ pos[p] \in Nat
    BY <1>2, <1>4, <2>1 DEF OnCourse
  <2>3. Chunk(req[p].path, pos[p]) \in Items
    BY <2>2, Sendable
  <2>4. pos' \in [Procs -> Nat]
    BY <1>2, <2>1, SMT
  <2> QED
    BY <1>2, <1>3, <1>5, <2>1, <2>3, <2>4, Written DEF Serving, Writing
<1>10. CASE AnswerList(p) \/ AnswerDir(p)
  <2>1. /\ UNCHANGED <<version, out, conn, pos>> /\ pc[p] = "list"
        /\ Write(p, Answer(TRUE, 0)) \/ Write(p, Answer(FALSE, 0))
    BY <1>10, Zenon DEF AnswerList, AnswerDir
  <2>2. Answer(TRUE, 0) \in Items /\ Answer(FALSE, 0) \in Items
    BY Sendable
  <2>3. client[p] \in Clients
    BY <1>5, <2>1 DEF Serving, Writing
  <2>4. stream' \in [Clients -> Seq(Items)]
    BY <2>1, <2>2, <2>3, Written
  <2> QED
    BY <1>2, <1>3, <2>1, <2>4
<1>11. CASE Exec(p)
  <2>1. /\ UNCHANGED <<version, conn, pos>> /\ pc[p] = "exec"
        /\ out' = [out EXCEPT ![p] = client[p]]
        /\ stream' = stream \/ Write(p, Text)
    BY <1>11 DEF Exec
  <2>2. stream' \in [Clients -> Seq(Items)]
    BY <1>2, <1>5, <2>1, Sendable, Written DEF Serving
  <2> QED
    BY <1>1, <1>2, <1>3, <2>1, <2>2 DEF Shape
<1>12. CASE LsWrites(p)
  <2>1. /\ UNCHANGED <<version, out, conn, pos>> /\ pc[p] = "ls" /\ Write(p, Listing)
    BY <1>12 DEF LsWrites
  <2> QED
    BY <1>2, <1>3, <1>5, <2>1, Sendable, Written DEF Serving, Writing
<1>13. CASE Fork(p)
  <2>1. /\ UNCHANGED <<version, conn, pos, stream>>
        /\ out' = [out EXCEPT ![client[p]] = out[p]]
    BY <1>13 DEF Fork
  <2> QED
    BY <1>2, <1>3, <2>1
<1>14. CASE Ends(p)
  <2>1. /\ UNCHANGED <<version, conn, pos, stream>>
        /\ out' = [out EXCEPT ![p] = NoFd]
    BY <1>14 DEF Ends, End
  <2> QED
    BY <1>2, <1>3, <2>1
<1> QED
  BY <1>1, <1>6, <1>7, <1>8, <1>9, <1>10, <1>11, <1>12, <1>13, <1>14, EndSteps
  DEF ProcessRuns, ProcStep

\* and in the set-up of Main.
LEMMA SetupTyped ==
  ASSUME Setup, UNCHANGED ftpVars, Typed
  PROVE  Typed'
<1>1. /\ UNCHANGED <<version, pos, kernelVars, ftpVars>>
      /\ out' = out \/ out' = [out EXCEPT ![Main] = NoFd]
  BY DEF Setup, End
<1> QED
  BY <1>1 DEF Typed, kernelVars, ftpVars

-----------------------------------------------------------------------------
(* Steps that send nothing on the connection of c *)

\* What concerns the connection of c stays as it is; its child stays where it is,
\* is made, or has done with it.
Apart(c) ==
  /\ cpc'[c] = cpc[c] /\ cmde'[c] = cmde[c] /\ file'[c] = file[c]
  /\ conn'[c] = conn[c] /\ asked'[c] = asked[c] /\ stream'[c] = stream[c]
  /\ PastAccept(c) => PastAccept(c)'
  /\ version' = version /\ (pc'[c] \in Returned => pc[c] \in Returned)
  /\ (\E p \in Procs : out'[p] = c) => \E p \in Procs : out[p] = c
  /\ \/ pc'[c] = pc[c] /\ req'[c] = req[c] /\ pos'[c] = pos[c]
     \/ /\ pc'[c] \notin Serving \cup {"none"}
        /\ cpc[c] \notin {"connect", "ask"} \/ pc'[c] \in {"zombie", "gone"}
     \/ pc'[c] = "recv" /\ pc[c] = "none" /\ ~PastAccept(c)

\* A step that does not concern the connection of c keeps what is known of it.
LEMMA ApartKeeps ==
  ASSUME NEW c \in Clients, Wire(c), Apart(c)
  PROVE  Wire(c)'
<1> USE DEF Apart
<1>1. /\ {"recv", "dispatch", "get", "list", "copy", "exec", "ls"} \subseteq Serving
      /\ Reading \subseteq Serving /\ "recv" \notin Reading
  BY SMT DEF Serving, Writing, Reading, Fetching, Showing
<1>2. Open(c)'
  BY DEF Wire, Open
<1>3. Unasked(c)'
  BY DEF Wire, Unasked
<1>4. Agreed(c)'
  BY <1>1 DEF Wire, Agreed
<1>5. Answered(c)'
  <2>1. Answered(c)
    BY DEF Wire
  <2> QED
    BY <1>1, <2>1 DEF Answered
<1>6. Copied(c)'
  <2>1. Copied(c)
    BY DEF Wire
  <2> QED
    BY <1>1, <2>1 DEF Copied
<1>7. Stored(c)'
  BY DEF Wire, Stored
<1> QED
  BY <1>2, <1>3, <1>4, <1>5, <1>6, <1>7 DEF Wire

\* It keeps what is known of its listing too.
LEMMA ApartLists ==
  ASSUME NEW c \in Clients, Listed(c), Apart(c)
  PROVE  Listed(c)'
<1> USE DEF Apart
<1>1. Before \subseteq Serving \cup {"none"} /\ {"recv", "none"} \subseteq Before
  BY SMT DEF Serving, Writing, Before
<1>2. Past(c)'
  BY <1>1 DEF Listed, Past, PastAccept
<1>3. Refused(c)'
  BY DEF Listed, Refused
<1>4. Printed(c)'
  BY <1>1 DEF Listed, Printed
<1> QED
  BY <1>2, <1>3, <1>4 DEF Listed

\* accept() is the only way to fork().
LEMMA AcceptedKeeps ==
  ASSUME NEW c \in Clients, IInv, PastAccept(c),
         \A q \in Procs :
           /\ pc'[q] = "none" => pc[q] = "none"
           /\ pc'[q] = "fork" => \/ pc[q] = "fork" /\ client'[q] = client[q]
                                 \/ backlog # << >> /\ client'[q] = Head(backlog),
         backlog' = backlog \/ (backlog # << >> /\ backlog' = Tail(backlog))
  PROVE  PastAccept(c)'
<1>1. c \in Procs /\ backlog \in Seq(Clients)
  BY DEF Procs, IInv, Shape
<1>2. SUFFICES ASSUME pc'[c] = "none"
               PROVE  ~Waits(c)' /\ \A q \in Procs : ~Forking(q, c)'
  BY DEF PastAccept
<1>3. ~Waits(c) /\ \A q \in Procs : ~Forking(q, c)
  BY <1>1, <1>2 DEF PastAccept
<1>4. backlog # << >> => Head(backlog) # c
  <2>1. backlog # << >> => 1 \in DOMAIN backlog /\ Head(backlog) = backlog[1]
    BY <1>1, SMT
  <2> QED
    BY <1>3, <2>1 DEF Waits
<1>5. \A i \in DOMAIN backlog' : \E j \in DOMAIN backlog : backlog'[i] = backlog[j]
  <2>1. CASE backlog' = backlog
    BY <2>1
  <2>2. CASE backlog # << >> /\ backlog' = Tail(backlog)
    <3>1. \A i \in DOMAIN backlog' : /\ i + 1 \in DOMAIN backlog
                                     /\ backlog'[i] = backlog[i + 1]
      BY <1>1, <2>2, SMT
    <3> QED
      BY <3>1
  <2> QED
    BY <2>1, <2>2
<1>6. ~Waits(c)'
  BY <1>3, <1>5 DEF Waits
<1> QED
  BY <1>3, <1>4, <1>6 DEF Forking

\* Every step of a process that is none of those of a child that serves.
LEMMA OthersApart ==
  ASSUME NEW p \in Procs, NEW c \in Clients, IInv, Wire(c), UNCHANGED ftpVars,
         \/ Accept(p) \/ AcceptFails(p) \/ Fork(p) \/ Close(p) \/ Ends(p)
         \/ HandlerBegins(p) \/ HandlerWaits(p) \/ Halt(p)
  PROVE  Apart(c)
<1>1. Shape /\ Fresh /\ c \in Procs
  BY DEF IInv, Procs
<1> DEFINE Idle == {"accept", "fork", "close", "exit", "setup", "zombie", "gone"}
<1>2. Idle \cap (Serving \cup {"none"}) = {}
  BY SMT DEF Serving, Writing
<1> DEFINE Same(q)    == pc'[q] = pc[q] /\ client'[q] = client[q]
<1> DEFINE Moves(q)   == /\ pc[q] # "none" /\ pc'[q] \in Idle
                         /\ pc[q] \in {"recv", "zombie", "gone"} =>
                              pc'[q] \in {"zombie", "gone"}
                         /\ pc'[q] \in Returned => pc[q] \in Returned
                         /\ pc'[q] = "fork" =>
                              backlog # << >> /\ client'[q] = Head(backlog)
<1> DEFINE Begins(q)  == pc[q] = "none" /\ pc'[q] = "recv" /\ Forking(p, q)
<1>3. ASSUME UNCHANGED <<version, conn, asked, stream, req, pos>>,
             \A q \in Procs : \/ out'[q] \in {out[q], NoFd}
                              \/ \E r \in Procs : out'[q] = out[r],
             backlog' = backlog \/ (backlog # << >> /\ backlog' = Tail(backlog)),
             \A q \in Procs : Same(q) \/ Moves(q) \/ Begins(q)
      PROVE  Apart(c)
  <2>1. /\ cpc'[c] = cpc[c] /\ cmde'[c] = cmde[c] /\ file'[c] = file[c]
        /\ conn'[c] = conn[c] /\ asked'[c] = asked[c] /\ stream'[c] = stream[c]
        /\ req'[c] = req[c] /\ pos'[c] = pos[c]
    BY <1>3 DEF ftpVars
  <2>2. PastAccept(c) => PastAccept(c)'
    <3>1. \A q \in Procs :
            /\ pc'[q] = "none" => pc[q] = "none"
            /\ pc'[q] = "fork" => \/ pc[q] = "fork" /\ client'[q] = client[q]
                                  \/ backlog # << >> /\ client'[q] = Head(backlog)
      BY <1>2, <1>3
    <3>2. backlog' = backlog \/ (backlog # << >> /\ backlog' = Tail(backlog))
      BY <1>3
    <3>3. ASSUME PastAccept(c)
          PROVE  PastAccept(c)'
      BY <3>1, <3>2, <3>3, AcceptedKeeps
    <3> QED
      BY <3>3
  <2>3. cpc[c] \in {"connect", "ask"} => pc[c] \in {"none", "recv", "zombie", "gone"}
    BY DEF Wire, Unasked
  <2>5. (\E q \in Procs : out'[q] = c) => \E q \in Procs : out[q] = c
    BY <1>3, ForkAssume
  <2>6. pc'[c] \in Returned => pc[c] \in Returned
    BY <1>1, <1>3 DEF Returned
  <2>4. Forking(p, c) /\ pc[c] = "none" => ~PastAccept(c)
    BY DEF PastAccept
  <2> QED
    BY <1>1, <1>2, <1>3, <2>1, <2>2, <2>3, <2>4, <2>5, <2>6 DEF Apart
<1> USE DEF At, GoTo, kernelVars
<1>4. CASE Accept(p)
  <2>1. /\ pc[p] = "accept" /\ pc' = [pc EXCEPT ![p] = "fork"]
        /\ backlog # << >> /\ backlog' = Tail(backlog)
        /\ client' = [client EXCEPT ![p] = Head(backlog)]
        /\ UNCHANGED <<version, out, conn, asked, stream, req, pos>>
    BY <1>4 DEF Accept
  <2>2. /\ pc'[p] = "fork" /\ client'[p] = Head(backlog)
        /\ \A q \in Procs : q # p => pc'[q] = pc[q] /\ client'[q] = client[q]
    BY <1>1, <2>1 DEF Shape
  <2>3. \A q \in Procs : Same(q) \/ Moves(q)
    BY <2>1, <2>2 DEF Returned
  <2> QED
    BY <1>3, <2>1, <2>3
<1>5. CASE AcceptFails(p)
  <2>1. /\ pc[p] = "accept" /\ pc' = pc /\ client' = [client EXCEPT ![p] = NoFd]
        /\ UNCHANGED <<version, out, conn, asked, stream, backlog, req, pos>>
    BY <1>5 DEF AcceptFails
  <2>2. \A q \in Procs : Same(q) \/ Moves(q)
    BY <1>1, <2>1 DEF Shape, Returned
  <2> QED
    BY <1>3, <2>1, <2>2
<1>6. CASE Fork(p)
  <2> DEFINE d == client[p]
  <2>1. d \in Clients /\ d \in Procs /\ d # p /\ pc[d] = "none" /\ Forking(p, d)
    BY <1>1, <1>6 DEF Fork, Fresh, ForkOnce, Procs, Forking
  <2>2. AfterFork \in {"accept", "close"}
    BY SMT DEF AfterFork, AfterForkTrunk, AfterForkYassine
  <2>3. /\ pc[p] = "fork" /\ pc' = [pc EXCEPT ![p] = AfterFork, ![d] = "recv"]
        /\ client' = [client EXCEPT ![d] = d]
        /\ out' = [out EXCEPT ![d] = out[p]]
        /\ UNCHANGED <<version, conn, asked, stream, backlog, req, pos>>
    BY <1>6 DEF Fork
  <2>4. /\ pc'[p] = AfterFork /\ pc'[d] = "recv"
        /\ \A q \in Procs : q \notin {p, d} => pc'[q] = pc[q] /\ client'[q] = client[q]
    BY <1>1, <2>1, <2>2, <2>3 DEF Shape
  <2>5. \A q \in Procs : Same(q) \/ Moves(q) \/ Begins(q)
    BY <2>1, <2>2, <2>3, <2>4 DEF Returned
  <2>6. \A q \in Procs : out'[q] \in {out[q], out[p]}
    BY <2>3
  <2> QED
    BY <1>3, <2>3, <2>5, <2>6
<1>7. CASE Close(p)
  <2>1. /\ pc[p] = "close" /\ pc' = [pc EXCEPT ![p] = "accept"]
        /\ UNCHANGED <<version, out, client, conn, asked, stream, backlog, req, pos>>
    BY <1>7 DEF Close
  <2>2. \A q \in Procs : Same(q) \/ Moves(q)
    BY <1>1, <2>1 DEF Shape, Returned
  <2> QED
    BY <1>3, <2>1, <2>2
<1>8. CASE Ends(p)
  <2>1. /\ pc' = [q \in Procs |->
                IF q = p THEN (IF parent[p] = Init1 THEN "gone" ELSE "zombie")
                ELSE IF q \in Zombies(p) THEN "gone" ELSE pc[q]]
        /\ out' = [out EXCEPT ![p] = NoFd]
        /\ UNCHANGED <<version, client, conn, asked, stream, backlog, req, pos>>
        /\ pc[p] \notin Dead
    BY <1>8 DEF Ends, End
  <2>2. \A q \in Zombies(p) : q \in Procs /\ pc[q] = "zombie"
    BY DEF Zombies
  <2>3. pc[p] \notin {"none", "zombie", "gone"}
    BY <2>1, SMT DEF Dead
  <2>4. \A q \in Procs : Same(q) \/ Moves(q)
    BY <2>1, <2>2, <2>3 DEF Returned
  <2>5. \A q \in Procs : out'[q] \in {out[q], NoFd}
    BY <2>1
  <2> QED
    BY <1>3, <2>1, <2>4, <2>5
<1>9. CASE HandlerBegins(p) \/ Halt(p)
  <2>1. UNCHANGED <<version, pc, client, out, conn, asked, stream, backlog, req, pos>>
    BY <1>9 DEF HandlerBegins, Halt
  <2>2. \A q \in Procs : Same(q)
    BY <2>1
  <2> QED
    BY <1>3, <2>1, <2>2
<1>10. CASE HandlerWaits(p)
  <2>1. /\ UNCHANGED <<version, client, out, conn, asked, stream, backlog, req, pos>>
        /\ pc' = pc \/ \E q \in Zombies(p) : pc' = [pc EXCEPT ![q] = "gone"]
    BY <1>10 DEF HandlerWaits
  <2>2. \A q \in Zombies(p) : q \in Procs /\ pc[q] = "zombie"
    BY DEF Zombies
  <2>3. \A q \in Procs : Same(q) \/ Moves(q)
    BY <1>1, <2>1, <2>2 DEF Shape, Returned
  <2> QED
    BY <1>3, <2>1, <2>3
<1> QED
  BY <1>4, <1>5, <1>6, <1>7, <1>8, <1>9, <1>10

-----------------------------------------------------------------------------
(* The steps of the child that serves c *)

\* A child writes to its own connection only.
LEMMA StayApart ==
  ASSUME NEW p \in Procs, NEW c \in Clients, c # p, UNCHANGED ftpVars,
         IInv, Own, OnCourse, Typed, Wire(c),
         \/ Recv(p) \/ RecvNothing(p) \/ Dispatch(p)
         \/ AnswerGet(p) \/ CopyChunk(p) \/ CopyDone(p) \/ CopyFails(p)
         \/ AnswerList(p) \/ AnswerDir(p) \/ Exec(p) \/ LsWrites(p)
  PROVE  Apart(c)
<1>1. Shape /\ c \in Procs /\ pos \in [Procs -> Nat] /\ stream \in [Clients -> Seq(Items)]
  BY DEF IInv, Procs, Typed
<1>2. /\ pc[p] \in Serving /\ pc'[p] \in Serving \cup {"close", "exit"}
      /\ \A q \in Procs : q # p => pc'[q] = pc[q] /\ req'[q] = req[q] /\ pos'[q] = pos[q]
      /\ UNCHANGED <<version, client>>
  BY <1>1, StayPoints
<1>3. client[p] = p
  BY <1>2 DEF Own
<1>8. (\E q \in Procs : out'[q] = c) => \E q \in Procs : out[q] = c
  <2>1. out' = out \/ out' = [out EXCEPT ![p] = p]
    BY <1>3, Zenon DEF Recv, RecvNothing, Dispatch, AnswerGet, CopyChunk, CopyDone, CopyFails,
                       AnswerList, AnswerDir, Exec, LsWrites
  <2> QED
    BY <2>1, ForkAssume DEF Typed
<1>4. UNCHANGED <<conn, backlog>>
  BY DEF Recv, RecvNothing, Dispatch, AnswerGet, CopyChunk, CopyDone, CopyFails, AnswerList,
         AnswerDir, Exec, LsWrites, kernelVars
<1>5. asked'[c] = asked[c]
  <2>1. asked' = asked \/ asked' = [asked EXCEPT ![client[p]] = << >>]
    BY DEF Recv, RecvNothing, Dispatch, AnswerGet, CopyChunk, CopyDone, CopyFails, AnswerList,
           AnswerDir, Exec, LsWrites, kernelVars
  <2> QED
    BY <1>1, <1>3, <2>1 DEF Shape
<1>6. stream'[c] = stream[c]
  <2>1. ASSUME NEW item, Write(p, item)
        PROVE  stream'[c] = stream[c]
    BY <1>1, <1>3, <2>1 DEF Write
  <2>2. stream' = stream \/ \E item : Write(p, item)
    BY Zenon DEF Recv, RecvNothing, Dispatch, AnswerGet, CopyChunk, CopyDone, CopyFails, AnswerList,
           AnswerDir, Exec, LsWrites, kernelVars
  <2> QED
    BY <2>1, <2>2
<1>7. PastAccept(c) => PastAccept(c)'
  <2>1. {"fork", "none"} \cap (Serving \cup {"close", "exit"}) = {}
    BY SMT DEF Serving, Writing
  <2>2. \A q \in Procs :
            /\ pc'[q] = "none" => pc[q] = "none"
            /\ pc'[q] = "fork" => \/ pc[q] = "fork" /\ client'[q] = client[q]
                                  \/ backlog # << >> /\ client'[q] = Head(backlog)
    BY <1>2, <2>1
  <2> QED
    BY <1>4, <2>2, AcceptedKeeps
<1> QED
  BY <1>1, <1>2, <1>4, <1>5, <1>6, <1>7, <1>8 DEF Apart, ftpVars

\* A child whose client has closed.
LEMMA AbandonedKeeps ==
  ASSUME NEW c \in Clients, Wire(c), cpc[c] \in Ended, UNCHANGED <<ftpVars, conn>>,
         stream'[c] = stream[c]
  PROVE  Wire(c)'
<1>1. /\ cpc'[c] = cpc[c] /\ conn'[c] = conn[c] /\ file'[c] = file[c] /\ cmde'[c] = cmde[c]
      /\ cpc[c] \notin Talking \cup {"connect"}
      /\ {"ask", "answer", "create", "copy"} \subseteq Talking
  BY SMT DEF ftpVars, Ended, Talking
<1>2. Open(c)' /\ Unasked(c)' /\ Agreed(c)' /\ Answered(c)' /\ Copied(c)'
  BY <1>1 DEF Wire, Open, Unasked, Agreed, Answered, Copied
<1>3. Stored(c)'
  BY <1>1 DEF Wire, Stored
<1> QED
  BY <1>2, <1>3 DEF Wire

\* A child that serves has a client that connected, and that asked once the
\* request was read.
LEMMA Served ==
  ASSUME NEW c \in Clients, IInv, Wire(c), pc[c] \in Serving
  PROVE  /\ cpc[c] \in Ended \/ cpc[c] \in {"ask", "answer", "create", "copy", "list"}
         /\ cpc[c] = "ask" => pc[c] = "recv"
         /\ pc[c] = "recv" => cpc[c] \notin {"create", "copy"}
         /\ conn[c] = "open" <=> cpc[c] \notin Ended
<1>1. Shape /\ Unused /\ "none" \notin Serving
  BY SMT DEF IInv, Fresh, Serving, Writing
<1>2. cpc[c] # "connect"
  BY <1>1 DEF Unused
<1>3. cpc[c] \in Talking \cup Ended /\ Talking \cap Ended = {}
  BY <1>1, <1>2 DEF Shape, Talking, Ended
<1>4. cpc[c] = "ask" => pc[c] = "recv"
  BY <1>1, SMT DEF Wire, Unasked, Serving, Writing
<1> QED
  BY <1>3, <1>4 DEF Wire, Open, Copied, Talking

\* Recv and Dispatch.
LEMMA ReadKeeps ==
  ASSUME NEW c \in Clients, IInv, Own, OnCourse, Typed, Wire(c), UNCHANGED ftpVars,
         Recv(c) \/ Dispatch(c)
  PROVE  Wire(c)'
<1>1. Shape /\ c \in Procs /\ pos \in [Procs -> Nat]
  BY DEF IInv, Procs, Typed
<1>2. pc[c] \in {"recv", "dispatch"} /\ pc[c] \in Serving
  BY DEF Recv, Dispatch, At, Serving
<1>3. client[c] = c
  BY <1>1, <1>2 DEF Own
<1>4. /\ cpc'[c] = cpc[c] /\ conn'[c] = conn[c] /\ file'[c] = file[c] /\ cmde'[c] = cmde[c]
      /\ stream'[c] = stream[c]
  BY DEF ftpVars, Recv, Dispatch, kernelVars
<1>5. \/ /\ pc[c] = "recv" /\ pc'[c] = "dispatch" /\ asked[c] # << >> /\ asked'[c] = << >>
         /\ req'[c] = Head(asked[c])
      \/ /\ pc[c] = "dispatch" /\ pc'[c] \in {"get", "list", "exit"}
         /\ asked'[c] = asked[c] /\ req'[c] = req[c]
  <2>1. CASE Recv(c)
    BY <1>1, <1>3, <2>1, SMT DEF Recv, At, GoTo, Shape
  <2>2. CASE Dispatch(c)
    <3>1. req[c].kind \in {"get", "list", "other"}
      BY <1>1, Kinds DEF Shape
    <3>2. NextPc[req[c].kind] \in {"get", "list", "exit"}
      BY <3>1, SMT DEF NextPc
    <3>3. /\ pc[c] = "dispatch" /\ pc' = [pc EXCEPT ![c] = NextPc[req[c].kind]]
          /\ UNCHANGED <<asked, req>>
      BY <2>2 DEF Dispatch, At, GoTo, kernelVars
    <3> QED
      BY <1>1, <3>2, <3>3 DEF Shape
  <2> QED
    BY <2>1, <2>2
<1>6. /\ cpc[c] \in Ended \/ cpc[c] \in {"answer", "list"}
      /\ cpc[c] \notin {"connect", "ask", "create", "copy"}
  <2>1. /\ cpc[c] \in Ended \/ cpc[c] \in {"ask", "answer", "create", "copy", "list"}
        /\ cpc[c] = "ask" => pc[c] = "recv"
        /\ pc[c] = "recv" => cpc[c] \notin {"create", "copy"}
    BY <1>2, Served
  <2>2. cpc[c] = "ask" => asked[c] = << >>
    BY DEF Wire, Unasked
  <2>3. pc[c] = "dispatch" => cpc[c] \notin {"create", "copy"}
    BY DEF Wire, Copied
  <2> QED
    BY <1>2, <1>5, <2>1, <2>2, <2>3, SMT DEF Ended
<1>7. Open(c)' /\ Unasked(c)' /\ Copied(c)'
  BY <1>4, <1>6 DEF Wire, Open, Unasked, Copied
<1>8. Agreed(c)'
  <2>1. SUFFICES ASSUME cpc[c] \in Talking \ {"ask"}
                 PROVE  asked'[c] \in {<< >>, <<cmde[c]>>} /\ req'[c] = cmde[c]
    BY <1>4 DEF Agreed
  <2>2. asked[c] \in {<< >>, <<cmde[c]>>} /\ (pc[c] = "dispatch" => req[c] = cmde[c])
    BY <2>1 DEF Wire, Agreed, Reading
  <2>3. Head(<<cmde[c]>>) = cmde[c]
    BY SMT
  <2> QED
    BY <1>5, <2>2, <2>3
<1>9. Answered(c)'
  BY <1>2, <1>4, <1>5 DEF Wire, Answered
<1>10. Stored(c)'
  BY <1>4 DEF Wire, Stored
<1> QED
  BY <1>7, <1>8, <1>9, <1>10 DEF Wire

\* CopyDone and CopyFails.
LEMMA LeaveKeeps ==
  ASSUME NEW c \in Clients, IInv, Own, OnCourse, Typed, Wire(c), UNCHANGED ftpVars,
         CopyDone(c) \/ CopyFails(c)
  PROVE  Wire(c)'
<1>1. Shape /\ c \in Procs
  BY DEF IInv, Procs
<1>2. pc[c] = "copy" /\ pc[c] \in Serving
  BY DEF CopyDone, CopyFails, At, Serving, Writing
<1>3. /\ cpc'[c] = cpc[c] /\ conn'[c] = conn[c] /\ file'[c] = file[c] /\ cmde'[c] = cmde[c]
      /\ stream'[c] = stream[c] /\ asked'[c] = asked[c] /\ req'[c] = req[c]
      /\ backlog' = backlog
  BY DEF ftpVars, CopyDone, CopyFails, kernelVars
<1>4. pc'[c] \in {"exit", "close"}
  <2>1. CASE CopyDone(c)
    BY <1>1, <2>1, SMT DEF CopyDone, At, GoTo, Shape, AfterGetTrunk, AfterGetYassine
  <2>2. CASE CopyFails(c)
    BY <1>1, <2>2, SMT DEF CopyFails, At, GoTo, Shape
  <2> QED
    BY <2>1, <2>2
<1>5. cpc[c] \notin {"connect", "ask"}
  BY <1>2 DEF Wire, Unasked
<1>6. Open(c)' /\ Unasked(c)' /\ Stored(c)'
  BY <1>3, <1>5 DEF Wire, Open, Unasked, Stored
<1>7. Agreed(c)'
  BY <1>2, <1>3, <1>4, SMT DEF Wire, Agreed, Reading, Fetching, Showing
<1>8. Answered(c)'
  BY <1>2, <1>3, <1>4 DEF Wire, Answered
<1>9. Copied(c)'
  BY <1>3, <1>4 DEF Wire, Copied, PastAccept
<1> QED
  BY <1>6, <1>7, <1>8, <1>9 DEF Wire

\* What write() does to the stream of a connection.
LEMMA WriteAt ==
  ASSUME NEW c \in Clients, NEW item, client[c] = c, Write(c, item), Typed
  PROVE  \/ conn[c] = "gone" /\ stream'[c] = stream[c]
         \/ /\ conn[c] = "open" /\ stream'[c] # << >>
            /\ Len(stream'[c]) = Len(stream[c]) + 1
            /\ DOMAIN stream'[c] = DOMAIN stream[c] \cup {Len(stream[c]) + 1}
            /\ \A i \in DOMAIN stream[c] : stream'[c][i] = stream[c][i]
            /\ stream'[c][Len(stream[c]) + 1] = item
            /\ Len(stream[c]) \in Nat
            /\ stream[c] = << >> <=> Len(stream[c]) = 0
            /\ stream[c] # << >> => 1 \in DOMAIN stream[c]
            /\ \A i \in DOMAIN stream[c] : i \in Nat /\ i >= 1 /\ i <= Len(stream[c])
<1>1. stream \in [Clients -> Seq(Items)]
  BY DEF Typed
<1>2. \/ conn[c] = "open" /\ stream' = [stream EXCEPT ![c] = Append(stream[c], item)]
      \/ conn[c] = "gone" /\ stream' = stream
  BY Zenon DEF Write
<1>3. ASSUME NEW s \in Seq(Items)
      PROVE  /\ Append(s, item) # << >>
             /\ Len(Append(s, item)) = Len(s) + 1
             /\ DOMAIN Append(s, item) = DOMAIN s \cup {Len(s) + 1}
             /\ \A i \in DOMAIN s : Append(s, item)[i] = s[i]
             /\ Append(s, item)[Len(s) + 1] = item
             /\ Len(s) \in Nat
             /\ s = << >> <=> Len(s) = 0
             /\ s # << >> => 1 \in DOMAIN s
             /\ \A i \in DOMAIN s : i \in Nat /\ i >= 1 /\ i <= Len(s)
  <2> HIDE DEF Items
  <2> QED
    BY <1>3, SMT
<1>4. stream[c] \in Seq(Items)
  BY <1>1
<1>5. CASE conn[c] = "open" /\ stream' = [stream EXCEPT ![c] = Append(stream[c], item)]
  <2>1. stream'[c] = Append(stream[c], item)
    BY <1>1, <1>5
  <2> QED
    BY <1>3, <1>4, <1>5, <2>1
<1> QED
  BY <1>2, <1>5

\* AnswerGet, AnswerList and AnswerDir: the first item a client is sent.
LEMMA AnswerKeeps ==
  ASSUME NEW c \in Clients, IInv, Own, OnCourse, Typed, Wire(c), UNCHANGED ftpVars,
         AnswerGet(c) \/ AnswerList(c) \/ AnswerDir(c)
  PROVE  Wire(c)'
<1>1. Shape /\ c \in Procs
  BY DEF IInv, Procs
<1>2. pc[c] \in {"get", "list"} /\ pc[c] \in Serving
  BY DEF AnswerGet, AnswerList, AnswerDir, At, Serving, Writing
<1>3. client[c] = c
  BY <1>1, <1>2 DEF Own
<1>4. UNCHANGED <<conn, asked, req, pos>>
  BY DEF AnswerGet, AnswerList, AnswerDir
<1>5. /\ cpc'[c] = cpc[c] /\ conn'[c] = conn[c] /\ file'[c] = file[c] /\ cmde'[c] = cmde[c]
      /\ asked'[c] = asked[c] /\ req'[c] = req[c] /\ pos'[c] = pos[c]
  BY <1>4 DEF ftpVars
<1>6. /\ pc'[c] \in {"copy", "exec", "exit", "close"}
      /\ pc'[c] = "copy" => pc[c] = "get"
      /\ pc'[c] = "exec" => pc[c] = "list"
  <2>1. \/ pc[c] = "get" /\ pc' = [pc EXCEPT ![c] = "copy"]
        \/ pc[c] = "get" /\ pc' = [pc EXCEPT ![c] = "exit"]
        \/ pc[c] = "list" /\ pc' = [pc EXCEPT ![c] = "exec"]
        \/ pc[c] = "list" /\ pc' = [pc EXCEPT ![c] = "close"]
    BY Zenon DEF AnswerGet, AnswerList, AnswerDir, At, GoTo
  <2> QED
    BY <1>1, <2>1, SMT DEF Shape
<1>7. PICK ok, n : Write(c, Answer(ok, n))
  BY Zenon DEF AnswerGet, AnswerList, AnswerDir
<1>8. CASE cpc[c] \in Ended
  <2>1. conn[c] # "open"
    BY <1>2, <1>8, Served
  <2>2. stream'[c] = stream[c]
    BY <1>3, <1>7, <2>1, WriteAt
  <2> QED
    BY <1>4, <1>8, <2>2, AbandonedKeeps
<1>9. CASE cpc[c] \notin Ended
  <2>1. cpc[c] \in {"answer", "create", "copy", "list"} /\ conn[c] = "open"
    BY <1>2, <1>9, Served
  <2>2. /\ stream'[c] # << >>
        /\ Len(stream'[c]) = Len(stream[c]) + 1
        /\ DOMAIN stream'[c] = DOMAIN stream[c] \cup {Len(stream[c]) + 1}
        /\ stream'[c][Len(stream[c]) + 1] = Answer(ok, n)
        /\ stream[c] = << >> => Len(stream[c]) = 0
        /\ \A i \in DOMAIN stream[c] : i >= 1 /\ i <= Len(stream[c])
    BY <1>3, <1>7, <2>1, WriteAt
  <2>3. req[c] = cmde[c] /\ "ask" \notin {"answer", "create", "copy", "list"}
    BY <1>2, <2>1, SMT DEF Wire, Agreed, Talking, Reading, Fetching, Showing
  <2>4. cpc[c] \notin {"create", "copy"}
    <3>1. pc[c] = "list" => req[c].kind = "list"
      BY <1>1 DEF OnCourse, Showing
    <3>2. cpc[c] \in {"create", "copy"} => pc[c] # "get" /\ cmde[c].kind = "get"
      BY DEF Wire, Copied
    <3> QED
      BY <1>2, <2>3, <3>1, <3>2
  <2>5. Open(c)' /\ Unasked(c)' /\ Copied(c)' /\ Stored(c)'
    <3>1. cpc[c] \in Talking
      BY <2>1 DEF Talking
    <3>2. cpc[c] \notin {"connect", "ask"}
      BY <2>1
    <3> QED
      BY <1>5, <2>4, <3>1, <3>2 DEF Wire, Open, Unasked, Copied, Stored
  <2>6. Agreed(c)'
    <3>1. asked[c] \in {<< >>, <<cmde[c]>>}
      BY <2>1, SMT DEF Wire, Agreed, Talking
    <3> QED
      BY <1>5, <2>3, <3>1 DEF Agreed
  <2>7. Answered(c)'
    <3>1. SUFFICES ASSUME cpc[c] = "answer"
                   PROVE  Answered(c)'
      BY <1>5 DEF Answered
    <3>2. stream[c] = << >> /\ file[c] = << >>
      BY <1>2, <3>1 DEF Wire, Answered
    <3>3. /\ Len(stream'[c]) = 1
          /\ stream'[c][1] = Answer(ok, n)
          /\ \A i \in DOMAIN stream'[c] : i = 1
      BY <2>2, <3>2, SMT
    <3>4. stream'[c][1].tag = "answer"
      BY <3>3 DEF Answer
    <3>5. pc'[c] = "copy" => pos[c] = 0
      BY <1>1, <1>6 DEF OnCourse
    <3> QED
      BY <1>5, <1>6, <2>2, <3>2, <3>3, <3>4, <3>5, SMT DEF Answered
  <2> QED
    BY <2>5, <2>6, <2>7 DEF Wire
<1> QED
  BY <1>8, <1>9

\* LsWrites and Exec: what is sent is sent to a client that asked for a listing.
LEMMA ListingKeeps ==
  ASSUME NEW c \in Clients, IInv, Own, OnCourse, Typed, Wire(c), UNCHANGED ftpVars,
         LsWrites(c) \/ Exec(c)
  PROVE  Wire(c)'
<1>1. Shape /\ c \in Procs
  BY DEF IInv, Procs
<1>2. pc[c] \in {"ls", "exec"} /\ pc[c] \in Serving
  BY DEF LsWrites, Exec, At, Serving, Writing
<1>3. client[c] = c
  BY <1>1, <1>2 DEF Own
<1>4. /\ UNCHANGED <<conn, asked, req, pos>>
      /\ stream' = stream \/ \E item : Write(c, item)
  BY Zenon DEF LsWrites, Exec
<1>5. /\ cpc'[c] = cpc[c] /\ conn'[c] = conn[c] /\ file'[c] = file[c] /\ cmde'[c] = cmde[c]
      /\ asked'[c] = asked[c] /\ req'[c] = req[c] /\ pos'[c] = pos[c]
  BY <1>4 DEF ftpVars
<1>6. pc'[c] \in {"exit", "ls", "close"}
  BY <1>1, Zenon DEF LsWrites, Exec, GoTo, Shape
<1>7. CASE cpc[c] \in Ended
  <2>1. conn[c] # "open"
    BY <1>2, <1>7, Served
  <2>2. stream'[c] = stream[c]
    BY <1>3, <1>4, <2>1, WriteAt
  <2> QED
    BY <1>4, <1>7, <2>2, AbandonedKeeps
<1>8. CASE cpc[c] \notin Ended
  <2>1. cpc[c] \in {"answer", "create", "copy", "list"} /\ conn[c] = "open"
    BY <1>2, <1>8, Served
  <2>2. stream[c] # << >> =>
          /\ stream'[c] # << >> /\ 1 \in DOMAIN stream[c] /\ stream'[c][1] = stream[c][1]
    <3>1. CASE stream' = stream
      <4>1. stream[c] \in Seq(Items)
        BY DEF Typed
      <4>2. \A t \in Seq(Items) : t # << >> => 1 \in DOMAIN t
        <5> HIDE DEF Items
        <5> QED
          BY SMT
      <4> QED
        BY <3>1, <4>1, <4>2
    <3>2. ASSUME NEW item, Write(c, item)
          PROVE  stream[c] # << >> =>
                   /\ stream'[c] # << >> /\ 1 \in DOMAIN stream[c]
                   /\ stream'[c][1] = stream[c][1]
      BY <1>3, <2>1, <3>2, WriteAt
    <3> QED
      BY <1>4, <3>1, <3>2
  <2>3. /\ req[c] = cmde[c] /\ asked[c] \in {<< >>, <<cmde[c]>>}
        /\ cpc[c] \in Talking /\ cpc[c] \notin {"connect", "ask"}
    BY <1>2, <2>1, SMT DEF Wire, Agreed, Talking, Reading, Fetching, Showing
  <2>4. cmde[c].kind = "list"
    BY <1>1, <1>2, <2>3 DEF OnCourse, Showing
  <2>5. Open(c)' /\ Unasked(c)' /\ Copied(c)' /\ Stored(c)' /\ Agreed(c)'
    BY <1>5, <2>3, <2>4 DEF Wire, Open, Unasked, Copied, Stored, Agreed
  <2>6. Answered(c)'
    <3>1. SUFFICES ASSUME cpc[c] = "answer"
                   PROVE  Answered(c)'
      BY <1>5 DEF Answered
    <3>2. stream[c] # << >> /\ file[c] = << >> /\ stream[c][1].tag = "answer"
      BY <1>2, <3>1 DEF Wire, Answered
    <3> QED
      BY <1>5, <1>6, <2>2, <2>4, <3>2 DEF Answered
  <2> QED
    BY <2>5, <2>6 DEF Wire
<1> QED
  BY <1>7, <1>8

\* CopyChunk: the chunk that is sent is the one after those in the connection and
\* in the file.
LEMMA ChunkKeeps ==
  ASSUME NEW c \in Clients, IInv, Own, OnCourse, Typed, Wire(c), UNCHANGED ftpVars,
         CopyChunk(c)
  PROVE  Wire(c)'
<1>1. Shape /\ c \in Procs /\ pos \in [Procs -> Nat] /\ file \in [Clients -> Seq(Items)]
  BY DEF IInv, Procs, Typed
<1>2. pc[c] = "copy" /\ pc[c] \in Serving
  BY DEF CopyChunk, At, Serving, Writing
<1>3. client[c] = c
  BY <1>1, <1>2 DEF Own
<1>4. /\ UNCHANGED <<conn, asked, req, pc>> /\ Write(c, Chunk(req[c].path, pos[c]))
      /\ pos' = [pos EXCEPT ![c] = pos[c] + 1]
  BY DEF CopyChunk
<1>5. /\ cpc'[c] = cpc[c] /\ conn'[c] = conn[c] /\ file'[c] = file[c] /\ cmde'[c] = cmde[c]
      /\ asked'[c] = asked[c] /\ req'[c] = req[c] /\ pc'[c] = pc[c]
      /\ pos'[c] = pos[c] + 1 /\ pos[c] \in Nat
  BY <1>1, <1>4 DEF ftpVars
<1>6. CASE cpc[c] \in Ended
  <2>1. conn[c] # "open"
    BY <1>2, <1>6, Served
  <2>2. stream'[c] = stream[c]
    BY <1>3, <1>4, <2>1, WriteAt
  <2> QED
    BY <1>4, <1>6, <2>2, AbandonedKeeps
<1>7. CASE cpc[c] \notin Ended
  <2>1. cpc[c] \in {"answer", "create", "copy", "list"} /\ conn[c] = "open"
    BY <1>2, <1>7, Served
  <2> DEFINE n == Len(stream[c])
  <2>2. /\ stream'[c] # << >>
        /\ Len(stream'[c]) = n + 1
        /\ DOMAIN stream'[c] = DOMAIN stream[c] \cup {n + 1}
        /\ \A i \in DOMAIN stream[c] : stream'[c][i] = stream[c][i]
        /\ stream'[c][n + 1] = Chunk(req[c].path, pos[c])
        /\ n \in Nat
        /\ stream[c] # << >> => 1 \in DOMAIN stream[c]
    BY <1>3, <1>4, <2>1, WriteAt
  <2> HIDE DEF n
  <2>3. /\ req[c] = cmde[c] /\ asked[c] \in {<< >>, <<cmde[c]>>}
        /\ cpc[c] \in Talking /\ cpc[c] \notin {"connect", "ask"}
    BY <1>2, <2>1, SMT DEF Wire, Agreed, Talking, Reading, Fetching, Showing
  <2>4. Open(c)' /\ Unasked(c)' /\ Stored(c)' /\ Agreed(c)'
    BY <1>5, <2>3 DEF Wire, Open, Unasked, Stored, Agreed
  <2>5. stream'[c][n + 1] = Chunk(cmde[c].path, pos[c])
    BY <2>2, <2>3
  <2>6. Answered(c)'
    <3>1. SUFFICES ASSUME cpc[c] = "answer"
                   PROVE  Answered(c)'
      BY <1>5 DEF Answered
    <3>2. /\ stream[c] # << >> /\ file[c] = << >> /\ stream[c][1].tag = "answer"
          /\ cmde[c].kind = "get" =>
               /\ \A i \in DOMAIN stream[c] : i > 1 =>
                    stream[c][i] = Chunk(cmde[c].path, i - 2)
               /\ n = pos[c] + 1
      BY <1>2, <3>1 DEF Wire, Answered, n
    <3>3. cmde[c].kind = "get" =>
             /\ \A i \in DOMAIN stream'[c] : i > 1 =>
                  stream'[c][i] = Chunk(cmde[c].path, i - 2)
             /\ Len(stream'[c]) = pos[c] + 1 + 1
      <4>1. SUFFICES ASSUME cmde[c].kind = "get"
                     PROVE  /\ \A i \in DOMAIN stream'[c] : i > 1 =>
                                 stream'[c][i] = Chunk(cmde[c].path, i - 2)
                            /\ Len(stream'[c]) = pos[c] + 1 + 1
        OBVIOUS
      <4>2. n = pos[c] + 1 /\ n + 1 - 2 = pos[c]
        BY <1>5, <3>2, <4>1, SMT
      <4>3. ASSUME NEW i \in DOMAIN stream'[c], i > 1
            PROVE  stream'[c][i] = Chunk(cmde[c].path, i - 2)
        BY <2>2, <2>5, <3>2, <4>1, <4>2, <4>3
      <4> QED
        BY <2>2, <4>2, <4>3
    <3>4. stream'[c][1].tag = "answer"
      BY <2>2, <3>2
    <3> QED
      BY <1>2, <1>5, <2>2, <3>2, <3>3, <3>4 DEF Answered
  <2>7. Copied(c)'
    <3>1. SUFFICES ASSUME cpc[c] \in {"create", "copy"}
                   PROVE  Copied(c)'
      BY <1>5 DEF Copied
    <3> DEFINE m == Len(file[c])
    <3>2. /\ cmde[c].kind = "get"
          /\ cpc[c] = "create" => file[c] = << >>
          /\ \A i \in DOMAIN stream[c] : stream[c][i] = Chunk(cmde[c].path, m + i - 1)
          /\ m + n = pos[c] /\ m \in Nat
      BY <1>1, <1>2, <3>1, LenProperties DEF Wire, Copied, n
    <3> HIDE DEF m
    <3>3. m + (n + 1) - 1 = pos[c] /\ m + (n + 1) = pos[c] + 1
      <4>1. m \in Nat /\ n \in Nat /\ m + n = pos[c]
        BY <2>2, <3>2
      <4> QED
        BY <4>1, SMT
    <3>4. \A i \in DOMAIN stream'[c] : stream'[c][i] = Chunk(cmde[c].path, m + i - 1)
      BY <2>2, <2>5, <3>2, <3>3
    <3> QED
      BY <1>2, <1>5, <2>2, <3>1, <3>2, <3>3, <3>4 DEF Copied, PastAccept, m
  <2> QED
    BY <2>4, <2>6, <2>7 DEF Wire
<1> QED
  BY <1>6, <1>7

\* A child whose recv() read nothing has a client that closed.
LEMMA NothingKeeps ==
  ASSUME NEW c \in Clients, IInv, Own, Wire(c), UNCHANGED ftpVars, RecvNothing(c)
  PROVE  Wire(c)'
<1>1. c \in Procs /\ pc[c] = "recv" /\ pc[c] \in Serving
  BY DEF Procs, RecvNothing, At, Serving
<1>2. client[c] = c
  BY <1>1 DEF Own
<1>3. conn[c] = "gone" /\ UNCHANGED <<conn, stream>>
  BY <1>2 DEF RecvNothing, kernelVars
<1>4. cpc[c] \in Ended
  BY <1>1, <1>3, Served
<1> QED
  BY <1>3, <1>4, AbandonedKeeps

\* Its own child takes a step: what is known of the listing of c is kept.
LEMMA ServingLists ==
  ASSUME NEW c \in Clients, IInv, Own, OnCourse, Typed, Wire(c), Listed(c), UNCHANGED ftpVars,
         \/ Recv(c) \/ RecvNothing(c) \/ Dispatch(c)
         \/ AnswerGet(c) \/ CopyChunk(c) \/ CopyDone(c) \/ CopyFails(c)
         \/ AnswerList(c) \/ AnswerDir(c) \/ Exec(c) \/ LsWrites(c)
  PROVE  Listed(c)'
<1>1. Shape /\ c \in Procs /\ pos \in [Procs -> Nat] /\ stream \in [Clients -> Seq(Items)]
      /\ out \in [Procs -> Clients \cup {NoFd}] /\ NoFd \notin Clients
  BY ForkAssume DEF IInv, Typed, Procs
<1>2. /\ pc[c] \in Serving /\ pc'[c] \in Serving \cup {"close", "exit"}
      /\ pc'[c] \in Before => pc[c] \in Before
      /\ \A q \in Procs : q # c => pc'[q] = pc[q]
      /\ UNCHANGED <<version, client>>
  BY <1>1, StayPoints
<1>3. client[c] = c
  BY <1>1, <1>2 DEF Own
<1>4. "none" \notin Serving \cup {"close", "exit"} /\ Serving \cap Returned = {}
      /\ Returned \cap (Serving \cup {"close", "exit"}) = {"close"}
  BY SMT DEF Serving, Writing, Returned
<1>5. UNCHANGED <<cpc, cmde, conn, version>>
  <2>1. UNCHANGED conn
    BY DEF Recv, RecvNothing, Dispatch, AnswerGet, CopyChunk, CopyDone, CopyFails, AnswerList,
           AnswerDir, Exec, LsWrites, kernelVars
  <2> QED
    BY <1>2, <2>1 DEF ftpVars
<1>6. Past(c)'
  BY <1>2, <1>4, <1>5 DEF Listed, Past, PastAccept
<1>7. stream[c] # << >> => stream'[c] # << >>
  <2>1. UNCHANGED stream \/ \E item : Write(c, item)
    BY Zenon DEF Recv, RecvNothing, Dispatch, AnswerGet, CopyChunk, CopyDone, CopyFails,
                 AnswerList, AnswerDir, Exec, LsWrites, kernelVars
  <2>2. ASSUME NEW item, Write(c, item)
        PROVE  stream[c] # << >> => stream'[c] # << >>
    BY <1>3, <2>2, WriteAt
  <2> QED
    BY <2>1, <2>2
<1>8. Printed(c)'
  <2>1. CASE Exec(c)
    <3>1. pc[c] = "exec" /\ pc'[c] \in {"ls", "exit", "close"}
      BY <1>1, <2>1, Zenon DEF Exec, At, GoTo, Shape
    <3>2. pc'[c] \notin Before
      BY <3>1, SMT DEF Before
    <3>3. ASSUME conn[c] = "open"
          PROVE  /\ cmde[c].kind = "list" /\ cpc[c] \in {"answer", "list"}
                 /\ cpc[c] = "answer" => stream'[c] # << >>
      <4>1. cpc[c] \in {"answer", "create", "copy", "list"}
        BY <1>2, <3>1, <3>3, Served
      <4>2. cpc[c] \in Talking \ {"ask"}
        BY <4>1 DEF Talking
      <4>3. req[c] = cmde[c]
        BY <3>1, <4>2 DEF Wire, Agreed, Reading, Showing
      <4>4. req[c].kind = "list"
        BY <1>1, <3>1 DEF OnCourse, Showing
      <4>5. cpc[c] \notin {"create", "copy"}
        BY <4>3, <4>4 DEF Wire, Copied
      <4>6. cpc[c] = "answer" => stream[c] # << >>
        BY <3>1 DEF Wire, Answered
      <4> QED
        BY <1>7, <4>1, <4>3, <4>4, <4>5, <4>6
    <3> QED
      BY <1>5, <3>2, <3>3 DEF Printed
  <2>2. CASE ~Exec(c)
    <3>1. UNCHANGED out
      BY <2>2 DEF Recv, RecvNothing, Dispatch, AnswerGet, CopyChunk, CopyDone, CopyFails,
                  AnswerList, AnswerDir, LsWrites
    <3> QED
      BY <1>2, <1>5, <1>7, <3>1 DEF Listed, Printed
  <2> QED
    BY <2>1, <2>2
<1>9. Refused(c)'
  <2>1. SUFFICES ASSUME version = "trunk", pc'[c] = "close", conn[c] = "open"
                 PROVE  /\ cmde[c].kind = "list" /\ cpc[c] = "answer"
                        /\ stream'[c] = <<Answer(FALSE, 0)>>
    BY <1>2, <1>4, <1>5 DEF Refused
  <2>2. AnswerList(c)
    <3>1. ASSUME NEW at, pc' = [pc EXCEPT ![c] = at]
          PROVE  at = "close"
      BY <1>1, <2>1, <3>1 DEF Shape
    <3>2. ~Dispatch(c)
      <4>1. NextPc[req[c].kind] # "close"
        <5>1. req[c].kind \in {"get", "list", "other"}
          BY <1>1, Kinds DEF Shape
        <5> QED
          BY <5>1, SMT DEF NextPc
      <4> QED
        BY <3>1, <4>1, Zenon DEF Dispatch, GoTo
    <3>3. ~Recv(c) /\ ~RecvNothing(c) /\ ~AnswerGet(c) /\ ~CopyFails(c) /\ ~LsWrites(c)
      BY <3>1, Zenon DEF Recv, RecvNothing, AnswerGet, CopyFails, LsWrites, GoTo
    <3>4. ~CopyChunk(c)
      BY <2>1 DEF CopyChunk, At
    <3>5. ~CopyDone(c) /\ ~AnswerDir(c) /\ ~Exec(c)
      BY <2>1, <3>1, Zenon DEF CopyDone, AnswerDir, Exec, GoTo, AfterGetTrunk
    <3> QED
      BY <3>2, <3>3, <3>4, <3>5
  <2>3. /\ pc[c] = "list" /\ Write(c, Answer(FALSE, 0))
    BY <1>1, <2>1, <2>2 DEF AnswerList, At, GoTo, Shape
  <2>4. cpc[c] \in {"answer", "create", "copy", "list"}
    BY <1>2, <2>1, <2>3, Served
  <2>5. cpc[c] \in Talking \ {"ask"}
    BY <2>4 DEF Talking
  <2>6. req[c] = cmde[c] /\ req[c].kind = "list"
    BY <1>1, <2>3, <2>5 DEF Wire, Agreed, Reading, Showing, OnCourse
  <2>7. cpc[c] = "answer"
    BY <2>3, <2>4, <2>6 DEF Wire, Copied, Listed, Past, Before
  <2>8. stream[c] = << >>
    BY <2>3, <2>7 DEF Wire, Answered
  <2>9. stream'[c] = Append(<< >>, Answer(FALSE, 0))
    BY <1>1, <1>3, <2>1, <2>3, <2>8 DEF Write
  <2>10. stream'[c] = <<Answer(FALSE, 0)>>
    <3>1. \A x : Append(<< >>, x) = <<x>>
      BY SMT
    <3> QED
      BY <2>9, <3>1
  <2> QED
    BY <2>6, <2>7, <2>10
<1> QED
  BY <1>6, <1>8, <1>9 DEF Listed

\* A process takes a step: every connection keeps its stream.
LEMMA ProcessWires ==
  ASSUME NEW p \in Procs, ProcessRuns(p) \/ Ends(p) \/ (Halt(p) /\ UNCHANGED ftpVars),
         IInv, Own, OnCourse, Typed, Wires, Listings
  PROVE  Wires' /\ Listings'
<1> SUFFICES ASSUME NEW c \in Clients
             PROVE  Wire(c)' /\ Listed(c)'
  BY DEF Wires, Listings
<1>1. /\ Wire(c) /\ Listed(c) /\ UNCHANGED ftpVars
      /\ ProcStep(p) \/ Ends(p) \/ Halt(p)
  BY DEF Wires, Listings, ProcessRuns, Ends
<1>2. CASE \/ Accept(p) \/ AcceptFails(p) \/ Fork(p) \/ Close(p) \/ Ends(p)
           \/ HandlerBegins(p) \/ HandlerWaits(p) \/ Halt(p)
  <2>1. Apart(c)
    BY <1>1, <1>2, OthersApart
  <2> QED
    BY <1>1, <2>1, ApartKeeps, ApartLists
<1>3. CASE \/ Recv(p) \/ RecvNothing(p) \/ Dispatch(p)
           \/ AnswerGet(p) \/ CopyChunk(p) \/ CopyDone(p) \/ CopyFails(p)
           \/ AnswerList(p) \/ AnswerDir(p) \/ Exec(p) \/ LsWrites(p)
  <2>1. CASE c # p
    <3>1. Apart(c)
      BY <1>1, <1>3, <2>1, StayApart
    <3> QED
      BY <1>1, <3>1, ApartKeeps, ApartLists
  <2>2. CASE c = p
    <3>1. Wire(c)'
      BY <1>1, <1>3, <2>2, ReadKeeps, LeaveKeeps, AnswerKeeps, ListingKeeps, ChunkKeeps,
         NothingKeeps
    <3> QED
      BY <1>1, <1>3, <2>2, <3>1, ServingLists
  <2> QED
    BY <2>1, <2>2
<1> QED
  BY <1>1, <1>2, <1>3, EndSteps DEF ProcStep

\* What a process prints goes to a client that asked for a listing and was sent
\* the answer.
LEMMA PrintedKeeps ==
  ASSUME NEW p \in Procs, UNCHANGED <<procVars, conn, asked, backlog, ftpVars>>,
         out[p] # NoFd, conn[out[p]] = "open",
         stream' = [stream EXCEPT ![out[p]] = Append(stream[out[p]], Text)],
         IInv, Typed, TrunkOut, Wires, Listings
  PROVE  Typed' /\ Wires' /\ Listings'
<1>0. PICK c \in Clients : out[p] = c
  BY DEF Typed
<1>1. c \in Clients /\ stream \in [Clients -> Seq(Items)] /\ stream[c] \in Seq(Items)
  BY DEF Typed
<1>2. Wire(c) /\ Listed(c)
  BY <1>1 DEF Wires, Listings
<1>3. /\ pc[c] \notin Before /\ cmde[c].kind = "list" /\ cpc[c] \in {"answer", "list"}
      /\ cpc[c] = "answer" => stream[c] # << >>
  BY <1>1, <1>2, <1>0 DEF Listed, Printed
<1>4. /\ Append(stream[c], Text) \in Seq(Items) /\ Append(stream[c], Text) # << >>
      /\ stream[c] # << >> => Append(stream[c], Text)[1] = stream[c][1]
  <2>1. ASSUME NEW s \in Seq(Items), NEW e \in Items
        PROVE  /\ Append(s, e) \in Seq(Items) /\ Append(s, e) # << >>
               /\ s # << >> => Append(s, e)[1] = s[1]
    <3> HIDE DEF Items
    <3> QED
      BY <2>1, SMT
  <2> QED
    BY <1>1, <2>1, Sendable
<1>5. /\ stream' = [stream EXCEPT ![c] = Append(stream[c], Text)]
      /\ stream'[c] = Append(stream[c], Text)
      /\ \A d \in Clients : d # c => stream'[d] = stream[d]
  BY <1>1, <1>0
<1>7. Typed'
  BY <1>1, <1>4, <1>5 DEF Typed, procVars, ftpVars
<1>8. \A d \in Clients : d # c => Wire(d)' /\ Listed(d)'
  <2> SUFFICES ASSUME NEW d \in Clients, d # c
               PROVE  Wire(d)' /\ Listed(d)'
    OBVIOUS
  <2>1. Apart(d)
    BY <1>5 DEF Apart, PastAccept, Waits, Forking, procVars, ftpVars
  <2>2. Wire(d) /\ Listed(d)
    BY DEF Wires, Listings
  <2> QED
    BY <2>1, <2>2, ApartKeeps, ApartLists
<1>9. Wire(c)'
  <2>1. /\ cpc'[c] = cpc[c] /\ cmde'[c] = cmde[c] /\ pc'[c] = pc[c] /\ req'[c] = req[c]
        /\ conn'[c] = conn[c] /\ asked'[c] = asked[c] /\ file' = file
    BY DEF procVars, ftpVars
  <2>2. Open(c)' /\ Unasked(c)'
    BY <1>2, <1>3, <2>1, SMT DEF Wire, Open, Unasked, Talking
  <2>3. Agreed(c)'
    BY <1>2, <2>1 DEF Wire, Agreed
  <2>4. Answered(c)'
    BY <1>2, <1>3, <1>4, <1>5, <2>1 DEF Wire, Answered, Before
  <2>5. Copied(c)'
    BY <1>3, <2>1 DEF Copied
  <2>6. Stored(c)'
    BY <1>2, <2>1 DEF Wire, Stored
  <2> QED
    BY <2>2, <2>3, <2>4, <2>5, <2>6 DEF Wire
<1>10. Listed(c)'
  <2>1. Past(c)'
    BY <1>2 DEF Listed, Past, PastAccept, Waits, Forking, procVars, ftpVars
  <2>2. Refused(c)'
    <3>1. version = "trunk" => pc[c] \notin Returned
      BY <1>0, ForkAssume DEF TrunkOut, Returned
    <3> QED
      BY <3>1 DEF Refused, procVars
  <2>3. Printed(c)'
    BY <1>3, <1>4, <1>5 DEF Printed, procVars, ftpVars
  <2> QED
    BY <2>1, <2>2, <2>3 DEF Listed
<1> QED
  BY <1>7, <1>8, <1>9, <1>10 DEF Wires, Listings

-----------------------------------------------------------------------------
(* The steps of the client *)

\* The set-up of Main.
LEMMA SetupWires ==
  ASSUME Setup, UNCHANGED ftpVars, IInv, Typed, Wires, Listings
  PROVE  Wires' /\ Listings'
<1> SUFFICES ASSUME NEW c \in Clients
             PROVE  Wire(c)' /\ Listed(c)'
  BY DEF Wires, Listings
<1>1. Shape /\ c \in Procs /\ c # Main /\ Wire(c) /\ Listed(c)
  BY ForkAssume DEF IInv, Procs, Wires, Listings
<1>2. UNCHANGED <<version, client, conn, asked, stream, backlog, req, pos>>
  BY DEF Setup, End, kernelVars
<1>3. \A q \in Procs : \/ pc'[q] = pc[q]
                       \/ q = Main /\ pc'[q] \in {"accept", "zombie", "gone"}
                       \/ pc[q] = "zombie" /\ pc'[q] = "gone"
  <2>1. CASE End(Main)
    <3>1. \A q \in Zombies(Main) : q \in Procs /\ pc[q] = "zombie"
      BY DEF Zombies
    <3> QED
      BY <2>1, <3>1 DEF End
  <2>2. CASE ~End(Main)
    BY <1>1, <2>2 DEF Setup, GoTo, Shape
  <2> QED
    BY <2>1, <2>2
<1>4. PastAccept(c) => PastAccept(c)'
  <2>1. \A q \in Procs :
            /\ pc'[q] = "none" => pc[q] = "none"
            /\ pc'[q] = "fork" => \/ pc[q] = "fork" /\ client'[q] = client[q]
                                  \/ backlog # << >> /\ client'[q] = Head(backlog)
    BY <1>2, <1>3
  <2> QED
    BY <1>2, <2>1, AcceptedKeeps
<1>5. (\E q \in Procs : out'[q] = c) => \E q \in Procs : out[q] = c
  <2>1. out' = out \/ out' = [out EXCEPT ![Main] = NoFd]
    BY DEF Setup, End
  <2> QED
    BY <2>1, ForkAssume DEF Typed
<1>6. "gone" \notin Serving \cup {"none"} \cup Returned
  BY SMT DEF Serving, Writing, Returned
<1>7. Apart(c)
  BY <1>1, <1>2, <1>3, <1>4, <1>5, <1>6 DEF Apart, ftpVars
<1> QED
  BY <1>1, <1>7, ApartKeeps, ApartLists

\* The other clients.
LEMMA ClientApart ==
  ASSUME NEW c \in Clients, NEW d \in Clients, c # d, ClientStep(c), IInv, Typed
  PROVE  Apart(d)
<1>1. /\ Shape /\ file \in [Clients -> Seq(Items)] /\ stream \in [Clients -> Seq(Items)]
      /\ conn \in [Clients -> {"idle", "open", "gone"}]
  BY DEF IInv, Typed
<1>2. UNCHANGED procVars
  BY DEF ClientStep, ClientRuns, Interrupt, Dial, DialFails, Ask, AskFails, ReadAnswer,
         ReadNoAnswer, AnswerFails, Create, CopyUnit, CopyReturns, ListUnit, ListReturns,
         EndClient
<1>3. /\ conn'[d] = conn[d] /\ asked'[d] = asked[d]
      /\ stream'[d] = stream[d] /\ cpc'[d] = cpc[d]
      /\ cmde'[d] = cmde[d] /\ file'[d] = file[d]
  <2> USE DEF Shape
  <2>1. ASSUME NEW at, EndClient(c, at)
        PROVE  /\ conn'[d] = conn[d] /\ asked'[d] = asked[d]
               /\ stream'[d] = stream[d] /\ cpc'[d] = cpc[d]
               /\ cmde'[d] = cmde[d] /\ file'[d] = file[d]
    BY <1>1, <2>1 DEF EndClient
  <2>2. CASE Dial(c) \/ Ask(c)
    BY <1>1, <2>2 DEF Dial, Ask
  <2>3. CASE ReadAnswer(c)
    BY <1>1, <2>1, <2>3 DEF ReadAnswer
  <2>4. CASE ReadNoAnswer(c) \/ Create(c)
    BY <1>1, <2>1, <2>4 DEF ReadNoAnswer, Create, kernelVars
  <2>5. CASE CopyUnit(c) \/ ListUnit(c)
    BY <1>1, <2>5 DEF CopyUnit, ListUnit, ftpVars
  <2>6. CASE DialFails(c) \/ AskFails(c) \/ AnswerFails(c) \/ CopyReturns(c)
             \/ ListReturns(c) \/ Interrupt(c)
    BY <2>1, <2>6 DEF DialFails, AskFails, AnswerFails, CopyReturns, ListReturns, Interrupt
  <2> QED
    BY <2>2, <2>3, <2>4, <2>5, <2>6 DEF ClientStep, ClientRuns
<1>4. backlog' = backlog \/ backlog' = Append(backlog, c)
  BY DEF ClientStep, ClientRuns, Interrupt, Dial, DialFails, Ask, AskFails, ReadAnswer,
         ReadNoAnswer, AnswerFails, Create, CopyUnit, CopyReturns, ListUnit, ListReturns,
         EndClient, kernelVars
<1>5. PastAccept(d) => PastAccept(d)'
  <2>1. backlog \in Seq(Clients)
    BY <1>1 DEF Shape
  <2>2. Waits(d)' => Waits(d)
    BY <1>4, <2>1, SMT DEF Waits
  <2> QED
    BY <1>2, <2>2 DEF PastAccept, Forking, procVars
<1> QED
  BY <1>2, <1>3, <1>5 DEF Apart, procVars

\* The connection of a client that ends.
LEMMA EndKeeps ==
  ASSUME NEW c \in Clients, NEW at \in Ended, EndClient(c, at), IInv, Typed, Wire(c)
  PROVE  Wire(c)' /\ Typed'
<1>1. /\ cpc' = [cpc EXCEPT ![c] = at]
      /\ conn' = [conn EXCEPT ![c] = IF conn[c] = "open" THEN "gone" ELSE conn[c]]
      /\ stream' = [stream EXCEPT ![c] = << >>]
      /\ UNCHANGED <<procVars, asked, backlog, cmde, rest, file>>
  BY Zenon DEF EndClient
<1>2. /\ cpc \in [Clients -> Talking \cup Ended \cup {"connect"}]
      /\ conn \in [Clients -> {"idle", "open", "gone"}]
      /\ stream \in [Clients -> Seq(Items)]
  BY DEF IInv, Shape, Typed
<1>3. /\ cpc'[c] = at /\ conn'[c] # "open" /\ stream'[c] = << >>
      /\ file'[c] = file[c] /\ cmde'[c] = cmde[c]
  BY <1>1, <1>2
<1>4. at \notin Talking \cup {"connect", "ask", "answer", "create", "copy"}
  BY SMT DEF Ended, Talking
<1>5. Open(c)' /\ Unasked(c)' /\ Agreed(c)' /\ Answered(c)' /\ Copied(c)'
  BY <1>3, <1>4 DEF Open, Unasked, Agreed, Answered, Copied
<1>6. Stored(c)'
  BY <1>3 DEF Wire, Stored
<1>7. stream' \in [Clients -> Seq(Items)]
  <2>1. << >> \in Seq(Items)
    BY EmptySeq
  <2> QED
    BY <1>1, <1>2, <2>1
<1>8. conn' \in [Clients -> {"idle", "open", "gone"}]
  BY <1>1, <1>2
<1>9. Typed'
  BY <1>1, <1>7, <1>8 DEF Typed, procVars
<1> QED
  BY <1>5, <1>6, <1>9 DEF Wire

\* Dial and Ask.
LEMMA AskKeeps ==
  ASSUME NEW c \in Clients, Dial(c) \/ Ask(c), IInv, Typed, Wire(c)
  PROVE  Wire(c)' /\ Typed'
<1>1. /\ cpc \in [Clients -> Talking \cup Ended \cup {"connect"}]
      /\ conn \in [Clients -> {"idle", "open", "gone"}]
      /\ cmde \in [Clients -> AnyRequest] /\ asked \in [Clients -> Seq(ClientRequests)]
  BY DEF IInv, Shape, Typed
<1>2. {"ask", "answer"} \subseteq Talking /\ "ask" # "answer" /\ "connect" \notin Talking
  BY SMT DEF Talking
<1>3. /\ asked[c] = << >> /\ stream[c] = << >> /\ file[c] = << >>
      /\ pc[c] \in {"none", "recv", "zombie", "gone"}
  BY DEF Dial, Ask, Wire, Unasked
<1>4. UNCHANGED <<procVars, stream, file, rest>>
  BY DEF Dial, Ask
<1>5. CASE Dial(c)
  <2>1. cpc'[c] = "ask" /\ conn'[c] = "open" /\ asked' = asked /\ cmde' = cmde
        /\ conn' \in [Clients -> {"idle", "open", "gone"}]
    BY <1>1, <1>5 DEF Dial
  <2>2. Open(c)' /\ Unasked(c)' /\ Agreed(c)' /\ Answered(c)' /\ Copied(c)'
    BY <1>2, <1>3, <1>4, <2>1 DEF Open, Unasked, Agreed, Answered, Copied, procVars
  <2>3. Stored(c)' /\ Typed'
    BY <1>4, <2>1 DEF Wire, Stored, Typed, procVars
  <2> QED
    BY <2>2, <2>3 DEF Wire
<1>6. CASE Ask(c)
  <2>1. PICK r \in ClientRequests : /\ cmde' = [cmde EXCEPT ![c] = r]
                                    /\ asked' = [asked EXCEPT ![c] = <<r>>]
    BY <1>6 DEF Ask
  <2>2. /\ cpc[c] = "ask" /\ cpc'[c] = "answer" /\ conn' = conn
        /\ cmde'[c] = r /\ asked'[c] = <<r>>
    BY <1>1, <1>6, <2>1 DEF Ask
  <2>3. Open(c)'
    BY <1>2, <1>4, <2>2 DEF Wire, Open
  <2>4. Agreed(c)'
    BY <1>3, <1>4, <2>2, SMT DEF Agreed, Reading, Fetching, Showing, procVars
  <2>5. Unasked(c)' /\ Copied(c)'
    BY <2>2 DEF Unasked, Copied
  <2>6. Stored(c)'
    BY <1>3, <1>4 DEF Stored
  <2>7. Answered(c)'
    BY <1>3, <1>4, <2>2 DEF Answered, procVars
  <2>8. Typed'
    BY <1>4, <2>2 DEF Typed, procVars
  <2> QED
    BY <2>3, <2>4, <2>5, <2>6, <2>7, <2>8 DEF Wire
<1> QED
  BY <1>5, <1>6

\* Taking the first item of a stream.
LEMMA TakeAt ==
  ASSUME NEW c \in Clients, Typed, stream[c] # << >>,
         stream' = [stream EXCEPT ![c] = Tail(stream[c])]
  PROVE  /\ stream' \in [Clients -> Seq(Items)]
         /\ stream'[c] = Tail(stream[c])
         /\ Len(stream'[c]) = Len(stream[c]) - 1 /\ Len(stream[c]) \in Nat
         /\ \A i \in DOMAIN stream'[c] : /\ i \in Nat /\ i >= 1
                                         /\ i + 1 \in DOMAIN stream[c]
                                         /\ stream'[c][i] = stream[c][i + 1]
         /\ Head(stream[c]) = stream[c][1] /\ 1 \in DOMAIN stream[c]
         /\ Head(stream[c]) \in Items
<1>1. stream \in [Clients -> Seq(Items)] /\ stream[c] \in Seq(Items)
  BY DEF Typed
<1>2. ASSUME NEW s \in Seq(Items), s # << >>
      PROVE  /\ Tail(s) \in Seq(Items)
             /\ Len(Tail(s)) = Len(s) - 1 /\ Len(s) \in Nat
             /\ \A i \in DOMAIN Tail(s) : /\ i \in Nat /\ i >= 1 /\ i + 1 \in DOMAIN s
                                          /\ Tail(s)[i] = s[i + 1]
             /\ Head(s) = s[1] /\ 1 \in DOMAIN s /\ Head(s) \in Items
  <2> HIDE DEF Items
  <2> QED
    BY <1>2, SMT
<1>3. stream'[c] = Tail(stream[c])
  BY <1>1
<1> HIDE DEF Items
<1>4. Tail(stream[c]) \in Seq(Items)
  BY <1>1, <1>2
<1>5. stream' \in [Clients -> Seq(Items)]
  BY <1>1, <1>4
<1> QED
  BY <1>1, <1>2, <1>3, <1>5

\* ReadAnswer: what follows the answer is the file from its beginning.
LEMMA AnswerRead ==
  ASSUME NEW c \in Clients, cpc[c] = "answer", stream[c] # << >>,
         cpc' = [cpc EXCEPT ![c] = Command[cmde[c].kind]],
         rest' = [rest EXCEPT ![c] = Head(stream[c]).nbbytes],
         stream' = [stream EXCEPT ![c] = Tail(stream[c])],
         UNCHANGED <<procVars, conn, asked, backlog, cmde, file>>,
         IInv, Typed, Wire(c)
  PROVE  Wire(c)' /\ Typed'
<1>1. /\ Shape /\ rest \in [Clients -> Nat] /\ file \in [Clients -> Seq(Items)]
  BY DEF IInv, Typed
<1>2. cmde[c] \in ClientRequests /\ cmde[c].kind \in {"get", "list"}
  BY <1>1, KindsOfClients DEF Shape
<1>3. /\ cpc'[c] \in {"create", "list"}
      /\ cpc'[c] = "create" => cmde[c].kind = "get"
  <2>1. Command[cmde[c].kind] \in {"create", "list"}
        /\ (Command[cmde[c].kind] = "create" => cmde[c].kind = "get")
    BY <1>2, SMT DEF Command
  <2> QED
    BY <1>1, <2>1 DEF Shape
<1>4. /\ stream' \in [Clients -> Seq(Items)]
      /\ Len(stream'[c]) = Len(stream[c]) - 1 /\ Len(stream[c]) \in Nat
      /\ \A i \in DOMAIN stream'[c] : /\ i \in Nat /\ i >= 1
                                      /\ i + 1 \in DOMAIN stream[c]
                                      /\ stream'[c][i] = stream[c][i + 1]
      /\ Head(stream[c]) = stream[c][1] /\ Head(stream[c]) \in Items
  BY TakeAt
<1>5. /\ file[c] = << >>
      /\ pc[c] \notin {"none", "recv", "dispatch", "get", "list"}
      /\ stream[c][1].tag = "answer"
      /\ cmde[c].kind = "get" =>
         /\ \A i \in DOMAIN stream[c] : i > 1 => stream[c][i] = Chunk(cmde[c].path, i - 2)
         /\ pc[c] = "copy" => Len(stream[c]) = pos[c] + 1
  BY DEF Wire, Answered
<1>6. Head(stream[c]).nbbytes \in Nat
  <2>1. ASSUME NEW a \in Items, a.tag = "answer"
        PROVE  a.nbbytes \in Nat
    BY <2>1, SMT DEF Items, Listing, Text
  <2> QED
    BY <1>4, <1>5, <2>1
<1>7. Typed'
  BY <1>1, <1>4, <1>6 DEF Typed, procVars
<1>8. /\ cpc'[c] \in Talking \ {"ask"} /\ cpc[c] \in Talking \ {"ask"}
      /\ cpc'[c] \notin {"connect", "ask", "answer", "copy"}
  BY <1>3, SMT DEF Talking
<1>9. Open(c)' /\ Unasked(c)' /\ Answered(c)' /\ Stored(c)'
  BY <1>8 DEF Wire, Open, Unasked, Answered, Stored
<1>10. Agreed(c)'
  BY <1>8 DEF Wire, Agreed, procVars
<1>11. Copied(c)'
  <2>1. SUFFICES ASSUME cmde[c].kind = "get"
                 PROVE  Copied(c)'
    BY <1>3, <1>8 DEF Copied
  <2>2. Len(file[c]) = 0
    BY <1>5, EmptySeq
  <2>3. \A i \in DOMAIN stream'[c] :
           stream'[c][i] = Chunk(cmde[c].path, Len(file[c]) + i - 1)
    <3>1. SUFFICES ASSUME NEW i \in DOMAIN stream'[c]
                   PROVE  stream'[c][i] = Chunk(cmde[c].path, Len(file[c]) + i - 1)
      OBVIOUS
    <3>2. /\ i \in Nat /\ i >= 1 /\ i + 1 \in DOMAIN stream[c]
          /\ stream'[c][i] = stream[c][i + 1]
      BY <1>4, <3>1
    <3>3. i + 1 > 1 /\ i + 1 - 2 = 0 + i - 1
      BY <3>2, SMT
    <3> QED
      BY <1>5, <2>1, <2>2, <3>2, <3>3
  <2>4. pc[c] = "copy" => Len(file[c]) + Len(stream'[c]) = pos[c]
    <3>1. pos[c] \in Nat
      BY DEF Typed, Procs
    <3>2. SUFFICES ASSUME pc[c] = "copy"
                   PROVE  0 + Len(stream'[c]) = pos[c]
      BY <2>2
    <3>3. /\ Len(stream'[c]) = Len(stream[c]) - 1 /\ Len(stream[c]) \in Nat
          /\ Len(stream[c]) = pos[c] + 1
      BY <1>4, <1>5, <2>1, <3>2
    <3> QED
      BY <3>1, <3>3, SMT
  <2> QED
    BY <1>5, <1>8, <2>1, <2>3, <2>4 DEF Copied, PastAccept, procVars
<1> QED
  BY <1>7, <1>9, <1>10, <1>11 DEF Wire

\* ReadNoAnswer: whoever could still write is gone.
LEMMA NoAnswerRead ==
  ASSUME NEW c \in Clients, cpc[c] = "answer", AtEof(c),
         cpc' = [cpc EXCEPT ![c] = Command[cmde[c].kind]],
         NEW n \in {0, 1}, rest' = [rest EXCEPT ![c] = n],
         UNCHANGED <<procVars, kernelVars, cmde, file>>,
         IInv, Held, Own, Typed, Wire(c)
  PROVE  Wire(c)' /\ Typed'
<1>1. /\ Shape /\ rest \in [Clients -> Nat] /\ c \in Procs
  BY DEF IInv, Typed, Procs
<1>2. cmde[c] \in ClientRequests /\ cmde[c].kind \in {"get", "list"}
  BY <1>1, KindsOfClients DEF Shape
<1>3. /\ cpc'[c] \in {"create", "list"}
      /\ cpc'[c] = "create" => cmde[c].kind = "get"
  <2>1. Command[cmde[c].kind] \in {"create", "list"}
        /\ (Command[cmde[c].kind] = "create" => cmde[c].kind = "get")
    BY <1>2, SMT DEF Command
  <2> QED
    BY <1>1, <2>1 DEF Shape
<1>4. ~Waits(c) /\ stream[c] = << >> /\ \A p \in Procs : c \notin fds[p]
  BY DEF AtEof, Holds
<1>5. \A p \in Procs : ~Forking(p, c)
  BY <1>4 DEF Held, Forking
<1>6. pc[c] \notin Serving
  BY <1>1, <1>4 DEF Held, Own
<1>7. {"recv", "dispatch", "get", "copy"} \subseteq Serving
  BY SMT DEF Serving, Writing
<1>8. /\ cpc'[c] \in Talking \ {"ask"} /\ cpc[c] \in Talking \ {"ask"}
      /\ cpc'[c] \notin {"connect", "ask", "answer", "copy"}
  BY <1>3, SMT DEF Talking
<1>9. file[c] = << >>
  BY DEF Wire, Answered
<1>10. Typed'
  <2>1. rest' \in [Clients -> Nat]
    <3>1. n \in Nat
      BY SMT
    <3> QED
      BY <1>1, <3>1
  <2> QED
    BY <2>1 DEF Typed, procVars, kernelVars
<1>11. Open(c)' /\ Unasked(c)' /\ Answered(c)' /\ Stored(c)'
  BY <1>8 DEF Wire, Open, Unasked, Answered, Stored, kernelVars
<1>12. Agreed(c)'
  BY <1>8 DEF Wire, Agreed, procVars, kernelVars
<1>13. Copied(c)'
  <2>1. /\ pc'[c] = pc[c] /\ cmde'[c] = cmde[c] /\ file'[c] = << >> /\ stream'[c] = << >>
        /\ ~Waits(c)' /\ \A p \in Procs : ~Forking(p, c)'
    BY <1>4, <1>5, <1>9 DEF procVars, kernelVars, Waits, Forking
  <2>2. DOMAIN stream'[c] = {}
    BY <2>1, SMT
  <2> QED
    BY <1>3, <1>6, <1>7, <1>8, <2>1, <2>2 DEF Copied, PastAccept
<1> QED
  BY <1>10, <1>11, <1>12, <1>13 DEF Wire

\* CopyUnit: the chunk that is stored is the next one of the file.
LEMMA UnitCopied ==
  ASSUME NEW c \in Clients, CopyUnit(c), IInv, Typed, Wire(c)
  PROVE  Wire(c)' /\ Typed'
<1>1. /\ cpc[c] = "copy" /\ rest[c] # 0 /\ stream[c] # << >>
      /\ file' = [file EXCEPT ![c] = Append(file[c], Head(stream[c]))]
      /\ rest' = [rest EXCEPT ![c] = rest[c] - 1]
      /\ stream' = [stream EXCEPT ![c] = Tail(stream[c])]
      /\ UNCHANGED <<procVars, conn, asked, backlog, cpc, cmde>>
  BY DEF CopyUnit
<1>2. /\ rest \in [Clients -> Nat] /\ file \in [Clients -> Seq(Items)] /\ c \in Procs
      /\ pos \in [Procs -> Nat]
  BY DEF Typed, Procs
<1> DEFINE m == Len(file[c])
<1>3. /\ stream' \in [Clients -> Seq(Items)]
      /\ Len(stream'[c]) = Len(stream[c]) - 1 /\ Len(stream[c]) \in Nat
      /\ \A i \in DOMAIN stream'[c] : /\ i \in Nat /\ i >= 1
                                      /\ i + 1 \in DOMAIN stream[c]
                                      /\ stream'[c][i] = stream[c][i + 1]
      /\ Head(stream[c]) = stream[c][1] /\ 1 \in DOMAIN stream[c]
      /\ Head(stream[c]) \in Items
  BY <1>1, TakeAt
<1>4. ASSUME NEW s \in Seq(Items), NEW e \in Items
      PROVE  /\ Append(s, e) \in Seq(Items) /\ Len(Append(s, e)) = Len(s) + 1
             /\ DOMAIN Append(s, e) = DOMAIN s \cup {Len(s) + 1}
             /\ \A i \in DOMAIN s : Append(s, e)[i] = s[i]
             /\ Append(s, e)[Len(s) + 1] = e /\ Len(s) \in Nat
  <2> HIDE DEF Items
  <2> QED
    BY <1>4, SMT
<1>5. /\ file'[c] = Append(file[c], stream[c][1]) /\ file[c] \in Seq(Items)
      /\ stream[c][1] \in Items
  BY <1>1, <1>2, <1>3
<1>6. /\ file'[c] \in Seq(Items) /\ Len(file'[c]) = m + 1
      /\ DOMAIN file'[c] = DOMAIN file[c] \cup {m + 1}
      /\ \A i \in DOMAIN file[c] : file'[c][i] = file[c][i]
      /\ file'[c][m + 1] = stream[c][1] /\ m \in Nat
  BY <1>4, <1>5
<1> HIDE DEF m
<1>7. /\ cmde[c].kind = "get"
      /\ \A i \in DOMAIN stream[c] : stream[c][i] = Chunk(cmde[c].path, m + i - 1)
      /\ pc[c] = "copy" => m + Len(stream[c]) = pos[c]
      /\ PastAccept(c) /\ pc[c] \notin {"recv", "dispatch", "get"}
  BY <1>1 DEF Wire, Copied, m
<1>8. Typed'
  <2>1. file' \in [Clients -> Seq(Items)]
    BY <1>1, <1>2, <1>5, <1>6
  <2>2. rest' \in [Clients -> Nat]
    <3>1. rest[c] - 1 \in Nat
      BY <1>1, <1>2, SMT
    <3> QED
      BY <1>1, <1>2, <3>1
  <2> QED
    BY <1>1, <1>3, <2>1, <2>2 DEF Typed, procVars
<1>9. /\ cpc'[c] = "copy" /\ cmde'[c] = cmde[c] /\ conn'[c] = conn[c] /\ asked'[c] = asked[c]
      /\ "copy" \in Talking \ {"ask"}
  BY <1>1 DEF Talking
<1>10. Open(c)' /\ Unasked(c)' /\ Answered(c)'
  BY <1>1, <1>9 DEF Wire, Open, Unasked, Answered
<1>11. Agreed(c)'
  BY <1>1, <1>9 DEF Wire, Agreed, procVars
<1>12. Stored(c)'
  <2>1. stream[c][1] = Chunk(cmde[c].path, m + 1 - 1)
    BY <1>3, <1>7
  <2> QED
    BY <1>6, <1>7, <1>9, <2>1 DEF Wire, Stored
<1>13. Copied(c)'
  <2>1. \A i \in DOMAIN stream'[c] :
           stream'[c][i] = Chunk(cmde[c].path, Len(file'[c]) + i - 1)
    <3>1. SUFFICES ASSUME NEW i \in DOMAIN stream'[c]
                   PROVE  stream'[c][i] = Chunk(cmde[c].path, Len(file'[c]) + i - 1)
      OBVIOUS
    <3>2. /\ i \in Nat /\ i + 1 \in DOMAIN stream[c]
          /\ stream'[c][i] = stream[c][i + 1]
      BY <1>3, <3>1
    <3>3. m + (i + 1) - 1 = m + 1 + i - 1
      BY <1>6, <3>2, SMT
    <3> QED
      BY <1>6, <1>7, <3>2, <3>3
  <2>2. pc[c] = "copy" => Len(file'[c]) + Len(stream'[c]) = pos[c]
    <3>1. SUFFICES ASSUME pc[c] = "copy"
                   PROVE  m + 1 + (Len(stream[c]) - 1) = pos[c]
      BY <1>3, <1>6
    <3>2. /\ m + Len(stream[c]) = pos[c] /\ m \in Nat /\ Len(stream[c]) \in Nat
          /\ pos[c] \in Nat
      BY <1>2, <1>3, <1>6, <1>7, <3>1
    <3>3. \A x, y, z \in Nat : x + y = z => x + 1 + (y - 1) = z
      BY SMT
    <3> QED
      BY <3>2, <3>3
  <2>3. PastAccept(c)'
    BY <1>1, <1>7 DEF PastAccept, Waits, Forking, procVars
  <2> QED
    BY <1>1, <1>7, <1>9, <2>1, <2>2, <2>3 DEF Copied, procVars
<1> QED
  BY <1>8, <1>10, <1>11, <1>12, <1>13 DEF Wire

\* Create, and ListUnit.
LEMMA RestKeeps ==
  ASSUME NEW c \in Clients, IInv, Typed, Wire(c),
         \/ /\ cpc[c] = "create" /\ cpc' = [cpc EXCEPT ![c] = "copy"]
            /\ UNCHANGED <<procVars, kernelVars, cmde, rest, file>>
         \/ ListUnit(c)
  PROVE  Wire(c)' /\ Typed'
<1>1. cpc \in [Clients -> Talking \cup Ended \cup {"connect"}]
  BY DEF IInv, Shape
<1>2. {"create", "copy", "list"} \subseteq Talking \ {"ask"}
  BY SMT DEF Talking
<1>3. CASE /\ cpc[c] = "create" /\ cpc' = [cpc EXCEPT ![c] = "copy"]
           /\ UNCHANGED <<procVars, kernelVars, cmde, rest, file>>
  <2>1. /\ cpc'[c] = "copy" /\ cpc[c] = "create"
        /\ UNCHANGED <<procVars, kernelVars, cmde, rest, file>>
    BY <1>1, <1>3
  <2>2. Open(c)' /\ Unasked(c)' /\ Answered(c)' /\ Stored(c)'
    BY <1>2, <2>1 DEF Wire, Open, Unasked, Answered, Stored, kernelVars
  <2>3. Agreed(c)'
    BY <1>2, <2>1 DEF Wire, Agreed, kernelVars, procVars
  <2>4. Copied(c)'
    BY <2>1 DEF Wire, Copied, PastAccept, Waits, Forking, kernelVars, procVars
  <2>5. Typed'
    BY <2>1 DEF Typed, kernelVars, procVars
  <2> QED
    BY <2>2, <2>3, <2>4, <2>5 DEF Wire
<1>4. CASE ListUnit(c)
  <2>1. /\ cpc[c] = "list" /\ cpc'[c] = "list" /\ stream[c] # << >>
        /\ stream' = [stream EXCEPT ![c] = Tail(stream[c])]
        /\ UNCHANGED <<procVars, conn, asked, backlog, cmde, rest, file>>
    BY <1>4 DEF ListUnit, ftpVars
  <2>2. stream' \in [Clients -> Seq(Items)]
    BY <2>1, TakeAt
  <2>3. Open(c)' /\ Unasked(c)' /\ Answered(c)' /\ Copied(c)' /\ Stored(c)'
    BY <1>2, <2>1 DEF Wire, Open, Unasked, Answered, Copied, Stored
  <2>4. Agreed(c)'
    BY <1>2, <2>1 DEF Wire, Agreed, procVars
  <2>5. Typed'
    BY <2>1, <2>2 DEF Typed, procVars
  <2> QED
    BY <2>3, <2>4, <2>5 DEF Wire
<1> QED
  BY <1>3, <1>4

\* What is known of the listing of a client after a step of its own.
LEMMA ClientLists ==
  ASSUME NEW c \in Clients, ClientStep(c), IInv, Held, Own, Typed, Wire(c), Listed(c)
  PROVE  Listed(c)'
<1>1. /\ Shape /\ c \in Procs /\ UNCHANGED <<version, pc, client, out>>
      /\ conn \in [Clients -> {"idle", "open", "gone"}]
      /\ stream \in [Clients -> Seq(Items)]
  BY DEF IInv, Typed, Procs, procVars, ClientStep, ClientRuns, Interrupt, Dial, DialFails, Ask,
         AskFails, ReadAnswer, ReadNoAnswer, AnswerFails, Create, CopyUnit, CopyReturns,
         ListUnit, ListReturns, EndClient
<1>2. /\ cpc[c] \in Talking <=> conn[c] = "open"
      /\ Past(c) /\ Refused(c) /\ Printed(c)
  BY DEF Wire, Open, Listed
<1>3. /\ {"ask", "answer", "create", "copy", "list"} = Talking /\ Ended = {"closed", "failed"}
  BY DEF Talking, Ended
<1>4. ASSUME NEW at \in Ended, EndClient(c, at)
      PROVE  Listed(c)'
  <2>1. cpc'[c] = at /\ conn'[c] # "open"
    BY <1>1, <1>4 DEF EndClient, Shape
  <2> QED
    BY <1>1, <1>2, <1>3, <2>1 DEF Listed, Past, Refused, Printed
<1>5. CASE Dial(c)
  <2>1. cpc[c] = "connect" /\ cpc'[c] = "ask"
    BY <1>1, <1>5 DEF Dial, Shape
  <2>2. pc[c] = "none"
    BY <2>1 DEF IInv, Fresh, Unused
  <2>3. ~\E p \in Procs : out[p] = c
    BY <1>2, <2>2 DEF Printed, Before
  <2> QED
    BY <1>1, <2>1, <2>2, <2>3 DEF Listed, Past, Refused, Printed, Returned
<1>6. CASE Ask(c)
  <2>1. cpc[c] = "ask" /\ cpc'[c] = "answer" /\ conn[c] = "open"
    BY <1>1, <1>2, <1>3, <1>6 DEF Ask, Shape
  <2>2. ~\E p \in Procs : out[p] = c
    BY <1>2, <2>1 DEF Printed
  <2>3. version = "trunk" => pc[c] \notin Returned
    BY <1>2, <2>1 DEF Refused
  <2> QED
    BY <1>1, <2>1, <2>2, <2>3 DEF Listed, Past, Refused, Printed
<1>7. CASE ReadAnswer(c)
  <2>1. SUFFICES ASSUME /\ Head(stream[c]).ok
                        /\ cpc' = [cpc EXCEPT ![c] = Command[cmde[c].kind]]
                        /\ UNCHANGED <<procVars, conn, asked, backlog, cmde, file>>
                 PROVE  Listed(c)'
    BY <1>3, <1>4, <1>7 DEF ReadAnswer
  <2>2. cpc[c] = "answer" /\ stream[c] # << >>
    BY <1>7 DEF ReadAnswer
  <2>3. cmde[c].kind \in {"get", "list"} /\ cpc'[c] = Command[cmde[c].kind]
    BY <1>1, <2>1, <2>2, KindsOfClients DEF Shape
  <2>4. cmde[c].kind = "list" => cpc'[c] = "list"
    BY <2>3, SMT DEF Command
  <2>5. pc[c] \notin Before
    BY <2>2 DEF Wire, Answered, Before
  <2>6. Past(c)'
    BY <1>1, <2>1, <2>5 DEF Past, PastAccept, Before, procVars
  <2>7. version = "trunk" /\ pc[c] \in Returned => conn[c] # "open"
    <3>1. Head(<<Answer(FALSE, 0)>>) = Answer(FALSE, 0)
      BY SMT
    <3>2. ~Answer(FALSE, 0).ok
      BY DEF Answer
    <3> QED
      BY <1>2, <2>1, <3>1, <3>2 DEF Refused
  <2>8. Refused(c)'
    BY <1>1, <2>1, <2>7 DEF Refused
  <2>9. Printed(c)'
    BY <1>1, <1>2, <2>1, <2>4, <2>5 DEF Printed
  <2> QED
    BY <2>6, <2>8, <2>9 DEF Listed
<1>8. CASE ReadNoAnswer(c)
  <2>1. SUFFICES ASSUME /\ cpc' = [cpc EXCEPT ![c] = Command[cmde[c].kind]]
                        /\ UNCHANGED <<procVars, kernelVars, cmde, file>>
                 PROVE  Listed(c)'
    BY <1>3, <1>4, <1>8 DEF ReadNoAnswer
  <2>2. /\ cpc[c] = "answer" /\ ~Waits(c) /\ stream[c] = << >>
        /\ \A p \in Procs : c \notin fds[p] /\ out[p] # c
    BY <1>8 DEF ReadNoAnswer, AtEof, Holds
  <2>3. \A p \in Procs : ~Forking(p, c)
    BY <2>2 DEF Held, Forking
  <2>4. pc[c] \notin Serving
    BY <1>1, <2>2 DEF Held, Own
  <2>5. Before \ {"none"} \subseteq Serving
    BY SMT DEF Before, Serving, Writing
  <2>6. PastAccept(c)'
    BY <2>1, <2>2, <2>3 DEF PastAccept, Waits, Forking, procVars, kernelVars
  <2>7. Past(c)'
    BY <1>1, <2>4, <2>5, <2>6 DEF Past
  <2>8. ~(version = "trunk" /\ pc[c] \in Returned /\ conn[c] = "open")
    <3>1. << >> # <<Answer(FALSE, 0)>>
      BY SMT
    <3> QED
      BY <1>2, <2>2, <3>1 DEF Refused
  <2>9. Refused(c)'
    BY <1>1, <2>1, <2>8 DEF Refused, kernelVars
  <2>10. Printed(c)'
    BY <1>1, <2>2 DEF Printed
  <2> QED
    BY <2>7, <2>9, <2>10 DEF Listed
<1>9. CASE Create(c) \/ CopyUnit(c)
  <2>1. SUFFICES ASSUME cpc[c] \in {"create", "copy"}, cpc'[c] = "copy",
                        UNCHANGED <<procVars, conn, backlog, cmde>>
                 PROVE  Listed(c)'
    BY <1>1, <1>3, <1>4, <1>9 DEF Create, CopyUnit, kernelVars, Shape
  <2>2. conn[c] = "open"
    BY <1>2, <1>3, <2>1
  <2>3. ~\E p \in Procs : out[p] = c
    BY <1>2, <2>1, <2>2 DEF Printed
  <2>4. version = "trunk" => pc[c] \notin Returned
    BY <1>2, <2>1, <2>2 DEF Refused
  <2> QED
    BY <1>1, <2>1, <2>3, <2>4 DEF Listed, Past, Refused, Printed
<1>10. CASE ListUnit(c)
  <2>1. /\ cpc[c] = "list" /\ UNCHANGED <<procVars, conn, backlog, cpc, cmde>>
    BY <1>10 DEF ListUnit, ftpVars
  <2>2. conn[c] = "open"
    BY <1>2, <1>3, <2>1
  <2>3. version = "trunk" => pc[c] \notin Returned
    BY <1>2, <2>1, <2>2 DEF Refused
  <2>4. Past(c)' /\ Refused(c)'
    BY <1>1, <1>2, <2>1, <2>3 DEF Past, Refused, PastAccept, Waits, Forking, procVars
  <2>5. Printed(c)'
    BY <1>1, <1>2, <2>1 DEF Printed
  <2> QED
    BY <2>4, <2>5 DEF Listed
<1>11. CASE DialFails(c) \/ AskFails(c) \/ AnswerFails(c) \/ CopyReturns(c)
            \/ ListReturns(c) \/ Interrupt(c)
  BY <1>3, <1>4, <1>11
  DEF DialFails, AskFails, AnswerFails, CopyReturns, ListReturns, Interrupt
<1> QED
  BY <1>5, <1>6, <1>7, <1>8, <1>9, <1>10, <1>11 DEF ClientStep, ClientRuns

\* A client takes a step: every connection keeps its stream.
LEMMA ClientWires ==
  ASSUME NEW c \in Clients, ClientStep(c), IInv, Held, Own, Typed, Wires, Listings
  PROVE  Wires' /\ Typed' /\ Listings'
<1>1. Wire(c) /\ Listed(c)
  BY DEF Wires, Listings
<1>2. ASSUME NEW at \in Ended, EndClient(c, at)
      PROVE  Wire(c)' /\ Typed'
  BY <1>1, <1>2, EndKeeps
<1>3. "failed" \in Ended /\ "closed" \in Ended
  BY DEF Ended
<1>4. Wire(c)' /\ Typed'
  <2>1. CASE Dial(c) \/ Ask(c)
    BY <1>1, <2>1, AskKeeps
  <2>2. CASE ReadAnswer(c)
    BY <1>1, <1>2, <1>3, <2>2, AnswerRead DEF ReadAnswer
  <2>3. CASE ReadNoAnswer(c)
    BY <1>1, <1>2, <1>3, <2>3, NoAnswerRead DEF ReadNoAnswer
  <2>4. CASE CopyUnit(c)
    BY <1>1, <2>4, UnitCopied
  <2>5. CASE Create(c) \/ ListUnit(c)
    BY <1>1, <1>2, <1>3, <2>5, RestKeeps DEF Create
  <2>6. CASE DialFails(c) \/ AskFails(c) \/ AnswerFails(c) \/ CopyReturns(c)
             \/ ListReturns(c) \/ Interrupt(c)
    BY <1>2, <1>3, <2>6
    DEF DialFails, AskFails, AnswerFails, CopyReturns, ListReturns, Interrupt
  <2> QED
    BY <2>1, <2>2, <2>3, <2>4, <2>5, <2>6 DEF ClientStep, ClientRuns
<1>5. Listed(c)'
  BY <1>1, ClientLists
<1>6. ASSUME NEW d \in Clients, d # c
      PROVE  Wire(d)' /\ Listed(d)'
  <2>1. Wire(d) /\ Listed(d) /\ Apart(d)
    BY <1>6, ClientApart DEF Wires, Listings
  <2> QED
    BY <2>1, ApartKeeps, ApartLists
<1> QED
  BY <1>4, <1>5, <1>6 DEF Wires, Listings

-----------------------------------------------------------------------------
(* The second invariant *)

\* The second invariant holds at first,
LEMMA FtpInitHolds == FtpInit => FtpInv
<1> SUFFICES ASSUME FtpInit PROVE FtpInv
  OBVIOUS
<1>1. IInv /\ NoFd \notin Clients /\ Clients \subseteq Procs /\ Main \in Procs
      /\ Main \notin Clients
  BY InitHolds, ForkAssume DEF Procs
<1> USE DEF FtpInit, ForkInit
<1>2. Typed
  <2>1. \A S : << >> \in Seq(S)
    BY EmptySeq
  <2> QED
    BY <2>1 DEF Typed
<1>3. \A p \in Procs : /\ pc[p] \in {"setup", "none"} /\ fds[p] = {}
                       /\ p # Main => pc[p] = "none"
  BY <1>1
<1>4. Serving \cap {"setup", "none"} = {} /\ "copy" \in Serving /\ "get" \in Serving
      /\ Fetching \cup Showing \subseteq Serving
  BY SMT DEF Serving, Writing, Fetching, Showing
<1>5. Held /\ Own /\ OnCourse
  BY <1>3, <1>4 DEF Held, Own, OnCourse
<1>6. TrunkOut /\ LetGo
  BY <1>1, <1>3 DEF TrunkOut, LetGo
<1>8. Listings
  BY <1>1, <1>3 DEF Listings, Listed, Past, Refused, Printed, Returned
<1>7. Wires
  <2> SUFFICES ASSUME NEW c \in Clients
               PROVE  Wire(c)
    BY DEF Wires
  <2>1. /\ cpc[c] = "connect" /\ conn[c] = "idle" /\ stream[c] = << >> /\ file[c] = << >>
        /\ asked[c] = << >> /\ pc[c] = "none"
    BY <1>1
  <2>2. "connect" \notin Talking /\ DOMAIN file[c] = {}
    BY <2>1, SMT DEF Talking
  <2> QED
    BY <2>1, <2>2 DEF Wire, Open, Unasked, Agreed, Answered, Copied, Stored
<1> QED
  BY <1>1, <1>2, <1>5, <1>6, <1>7, <1>8 DEF FtpInv

\* and every step keeps it.
LEMMA FtpStepKeeps ==
  ASSUME FtpInv, [Next]_vars
  PROVE  FtpInv'
<1>1. IInv'
  BY StepKeeps DEF FtpInv
<1>2. IInv /\ Typed /\ Held /\ Own /\ OnCourse /\ TrunkOut /\ LetGo /\ Wires /\ Listings
      /\ pos \in [Procs -> Nat]
  BY DEF FtpInv, Typed
<1>3. CASE Setup /\ UNCHANGED ftpVars
  <2>1. Held' /\ Own' /\ OnCourse' /\ TrunkOut' /\ LetGo'
    BY <1>2, <1>3, QuietKeeps
  <2> QED
    BY <1>1, <1>2, <1>3, <2>1, SetupTyped, SetupWires DEF FtpInv
<1>7. ASSUME NEW p \in Procs, ProcessRuns(p) \/ Ends(p)
      PROVE  FtpInv'
  BY <1>1, <1>2, <1>7, PointsKeep, TrunkOutKeeps, LetGoKeeps, ProcessTyped, ProcessWires
  DEF FtpInv
<1>4. CASE \E p \in Procs : ProcessRuns(p)
  BY <1>4, <1>7
<1>8. CASE \E p \in Procs : (Prints(p) \/ Halt(p)) /\ UNCHANGED ftpVars
  <2>1. PICK p \in Procs : (Prints(p) \/ Halt(p)) /\ UNCHANGED ftpVars
    BY <1>8
  <2>2. CASE Ends(p)
    BY <1>7, <2>2
  <2>3. CASE Prints(p) /\ ~Ends(p)
    <3>1. /\ UNCHANGED <<procVars, conn, asked, backlog>>
          /\ out[p] # NoFd /\ conn[out[p]] = "open"
          /\ stream' = [stream EXCEPT ![out[p]] = Append(stream[out[p]], Text)]
      BY <2>1, <2>3, PrintSteps
    <3>2. Held' /\ Own' /\ OnCourse' /\ TrunkOut' /\ LetGo'
      BY <1>2, <3>1, QuietKeeps DEF procVars
    <3>3. Typed' /\ Wires' /\ Listings'
      BY <1>2, <2>1, <3>1, PrintedKeeps
    <3> QED
      BY <1>1, <3>2, <3>3 DEF FtpInv
  <2>4. CASE Halt(p)
    <3>1. UNCHANGED <<version, pc, client, fds, out, req, pos, conn, stream, ftpVars>>
      BY <2>1, <2>4 DEF Halt, kernelVars
    <3>2. Held' /\ Own' /\ OnCourse' /\ TrunkOut' /\ LetGo'
      BY <1>2, <3>1, QuietKeeps
    <3>3. Wires' /\ Listings'
      BY <1>2, <2>1, <2>4, ProcessWires
    <3>4. Typed'
      BY <1>2, <3>1 DEF Typed, ftpVars
    <3> QED
      BY <1>1, <3>2, <3>3, <3>4 DEF FtpInv
  <2> QED
    BY <2>1, <2>2, <2>3, <2>4
<1>5. CASE \E c \in Clients : ClientStep(c)
  <2>1. PICK c \in Clients : ClientStep(c)
    BY <1>5
  <2>2. UNCHANGED <<version, pc, client, fds, out, req, pos>>
    BY <2>1 DEF procVars, ClientStep, ClientRuns, Interrupt, Dial, DialFails, Ask, AskFails,
         ReadAnswer, ReadNoAnswer, AnswerFails, Create, CopyUnit, CopyReturns, ListUnit,
         ListReturns, EndClient
  <2> QED
    BY <1>1, <1>2, <2>1, <2>2, QuietKeeps, ClientWires DEF FtpInv
<1>6. CASE UNCHANGED vars
  <2>1. UNCHANGED <<procVars, kernelVars, ftpVars>>
    BY <1>6 DEF vars
  <2>2. Typed' /\ Held' /\ Own' /\ OnCourse' /\ TrunkOut' /\ LetGo'
    BY <1>2, <2>1 DEF procVars, kernelVars, ftpVars, Typed, Held, Own, OnCourse, TrunkOut, LetGo
  <2>3. \A c \in Clients : Apart(c)
    BY <2>1 DEF procVars, kernelVars, ftpVars, Apart, PastAccept, Waits, Forking
  <2>4. Wires' /\ Listings'
    BY <1>2, <2>3, ApartKeeps, ApartLists DEF Wires, Listings
  <2> QED
    BY <1>1, <2>2, <2>4 DEF FtpInv
<1> QED
  BY <1>3, <1>4, <1>5, <1>6, <1>8 DEF Next

\* The second invariant holds in every reachable state.
LEMMA FtpInductive == Spec => []FtpInv
<1>1. FtpInit => FtpInv
  BY FtpInitHolds
<1>2. FtpInv /\ [Next]_vars => FtpInv'
  BY FtpStepKeeps
<1> QED
  BY <1>1, <1>2, PTL DEF Spec

\* The types of both sides, that a process holds the connection it works on, and
\* that what a client is sent first is an answer.
THEOREM TypesHold == Spec => []FtpTypeOK
<1>1. FtpInv => FtpTypeOK
  <2> SUFFICES ASSUME FtpInv PROVE FtpTypeOK
    OBVIOUS
  <2>1. Shape /\ Typed /\ Held /\ Wires
    BY DEF FtpInv, IInv
  <2>2. Points = Dead \cup Serving \cup {"setup", "accept", "fork", "close", "exit"}
    BY DEF Points, Busy
  <2>3. ForkTypeOK
    BY <2>1, <2>2 DEF Shape, Typed, Held, ForkTypeOK
  <2>4. \A c \in Clients : cpc[c] = "answer" /\ stream[c] # << >> =>
                             Head(stream[c]).tag = "answer"
    <3> SUFFICES ASSUME NEW c \in Clients, cpc[c] = "answer", stream[c] # << >>
                 PROVE  Head(stream[c]).tag = "answer"
      OBVIOUS
    <3>1. stream[c][1].tag = "answer"
      BY <2>1 DEF Wires, Wire, Answered
    <3>2. Head(stream[c]) = stream[c][1]
      BY <2>1, HeadTailProperties DEF Typed
    <3> QED
      BY <3>1, <3>2
  <2> QED
    BY <2>1, <2>3, <2>4 DEF Shape, Typed, FtpTypeOK
<1> QED
  BY <1>1, FtpInductive, PTL

\* A request of the kind of a listing is the request for one.
LEMMA OneListing ==
  ASSUME NEW r \in AnyRequest, r.kind = "list"
  PROVE  r = List
  BY DEF AnyRequest, ClientRequests, Get, List, Other

\* list() and main of trunk: whatever the reason for which opendir() failed, a child
\* that serves connections meant for its parent has let go of its own, whose client
\* has left or has the refusal of the listing it asked for before it.
THEOREM RefusedChildrenAccept == Spec => []ChildAccepts
<1>1. FtpInv => ChildAccepts
  <2> SUFFICES ASSUME FtpInv, version = "trunk", NEW p \in Clients, pc[p] = "accept"
               PROVE  /\ p \notin fds[p]
                      /\ conn[p] = "open" => /\ cmde[p] = List /\ cpc[p] = "answer"
                                             /\ stream[p] = <<Answer(FALSE, 0)>>
    BY DEF ChildAccepts
  <2>1. p \notin fds[p]
    BY DEF FtpInv, LetGo
  <2>2. Refused(p)
    BY DEF FtpInv, Listings, Listed
  <2>3. cmde[p] \in AnyRequest
    BY DEF FtpInv, IInv, Shape
  <2> QED
    BY <2>1, <2>2, <2>3, OneListing DEF Refused, Returned
<1> QED
  BY <1>1, FtpInductive, PTL

\* main, get_file and dir_file of yassine: a process back at accept() has closed the
\* connections it accepted and inherited, for any number of them, and keeps open only
\* those that dup2 made its output before a listing failed.
THEOREM NothingLeaks == Spec => []NoLeak
<1>1. FtpInv => NoLeak
  <2> SUFFICES ASSUME FtpInv, version = "yassine", NEW p \in Procs, pc[p] = "accept"
               PROVE  /\ fds[p] = {}
                      /\ \A c \in Clients : Holds(p, c) /\ conn[c] = "open" => cmde[c] = List
    BY DEF NoLeak
  <2>1. fds[p] = {}
    BY DEF FtpInv, IInv, HoldsOne
  <2>2. ASSUME NEW c \in Clients, Holds(p, c), conn[c] = "open"
        PROVE  cmde[c] = List
    <3>1. out[p] = c
      BY <2>1, <2>2 DEF Holds
    <3>2. cmde[c].kind = "list"
      BY <2>2, <3>1 DEF FtpInv, Listings, Listed, Printed
    <3>3. cmde[c] \in AnyRequest
      BY DEF FtpInv, IInv, Shape
    <3> QED
      BY <3>2, <3>3, OneListing
  <2> QED
    BY <2>1, <2>2
<1> QED
  BY <1>1, FtpInductive, PTL

\* get_file and copy_n_bytes: whatever the number of children that share the
\* connection, what a client stored is the beginning of the file it asked for.
THEOREM FilesInOrder == Spec => []FileInOrder
<1>1. FtpInv => FileInOrder
  BY DEF FtpInv, Wires, Wire, Stored, FileInOrder
<1> QED
  BY <1>1, FtpInductive, PTL

=============================================================================
