------------------------------ MODULE MiniFtp -------------------------------
(***************************************************************************)
(* The earlier mini-ftp whole: the forking servers of module ForkServer    *)
(* with their client programs (src/trunk/protocol_client_serveur/client.c  *)
(* and yassine/client.c, which take the same steps), one for each          *)
(* connection.  Unlike the later server these close connections, and only  *)
(* that tells a client that its listing is complete.                       *)
(***************************************************************************)
EXTENDS ForkServer

VARIABLES
  cpc,           \* client -> program counter
  cmde,          \* client -> what its command line asks for
  rest,          \* client -> nbbytes of copy_n_bytes
  file           \* client -> the chunks in the local file

ftpVars == <<cpc, cmde, rest, file>>
vars    == <<procVars, kernelVars, ftpVars>>

Ended   == {"closed", "failed"}
Talking == {"ask", "answer", "create", "copy", "list"}

FtpInit ==
  /\ ForkInit
  /\ cpc = [c \in Clients |-> "connect"]
  /\ cmde = [c \in Clients |-> Other]
  /\ rest = [c \in Clients |-> 0]
  /\ file = [c \in Clients |-> << >>]

\* The types of the clients' variables; the first thing a client reads is an
\* answer.
FtpTypeOK ==
  /\ ForkTypeOK
  /\ cpc \in [Clients -> Talking \cup Ended \cup {"connect"}]
  /\ cmde \in [Clients -> AnyRequest]
  /\ rest \in [Clients -> Nat]
  /\ file \in [Clients -> Seq(Items)]
  /\ \A c \in Clients : cpc[c] = "answer" /\ stream[c] # << >> =>
                          Head(stream[c]).tag = "answer"

-----------------------------------------------------------------------------
(* The connection, as the client's kernel sees it *)

Listening == pc[Main] # "setup" /\ \E p \in Procs : Alive(p)

Waits(c) == \E i \in DOMAIN backlog : backlog[i] = c

\* The connection was accepted, every process that held it closed it or ended,
\* and all that was written has been read: read() returns 0.
AtEof(c) == ~Waits(c) /\ stream[c] = << >> /\ \A p \in Procs : ~Holds(p, c)

\* Closed by the other end without having been accepted, or with the request
\* unread.
MayBeReset(c) ==
  IF Waits(c) THEN ~Listening
              ELSE asked[c] # << >> /\ \A p \in Procs : ~Holds(p, c)

\* The process of the client ends.
EndClient(c, at) ==
  /\ cpc'    = [cpc EXCEPT ![c] = at]
  /\ conn'   = [conn EXCEPT ![c] = IF @ = "open" THEN "gone" ELSE @]
  /\ stream' = [stream EXCEPT ![c] = << >>]
  /\ UNCHANGED <<procVars, asked, backlog, cmde, rest, file>>

-----------------------------------------------------------------------------
(* main and connection *)

Dial(c) ==
  /\ cpc[c] = "connect"
  /\ Listening /\ Len(backlog) < BacklogMax
  /\ cpc' = [cpc EXCEPT ![c] = "ask"]
  /\ conn' = [conn EXCEPT ![c] = "open"]
  /\ backlog' = Append(backlog, c)
  /\ UNCHANGED <<procVars, asked, stream, cmde, rest, file>>

\* The host is unknown or refuses the connection.
DialFails(c) == cpc[c] = "connect" /\ EndClient(c, "failed")

\* The user interrupts it.
Interrupt(c) == cpc[c] \in Talking /\ EndClient(c, "failed")

Ask(c) ==
  /\ cpc[c] = "ask"
  /\ \E r \in ClientRequests :
       /\ cmde' = [cmde EXCEPT ![c] = r]
       /\ asked' = [asked EXCEPT ![c] = <<r>>]
  /\ cpc' = [cpc EXCEPT ![c] = "answer"]
  /\ UNCHANGED <<procVars, conn, stream, backlog, rest, file>>

AskFails(c) == cpc[c] = "ask" /\ ~Listening /\ EndClient(c, "failed")

-----------------------------------------------------------------------------
(* The answer *)

Command == [get |-> "create", list |-> "list"]

\* check_answer returns on an answer OK only.
ReadAnswer(c) ==
  /\ cpc[c] = "answer"
  /\ stream[c] # << >>
  /\ LET a == Head(stream[c]) IN
     \/ /\ a.ok
        /\ cpc' = [cpc EXCEPT ![c] = Command[cmde[c].kind]]
        /\ rest' = [rest EXCEPT ![c] = a.nbbytes]
        /\ stream' = [stream EXCEPT ![c] = Tail(@)]
        /\ UNCHANGED <<procVars, conn, asked, backlog, cmde, file>>
     \/ ~a.ok /\ EndClient(c, "failed")

\* read() returns 0, which only -1 is told from: an answer nothing was read into
\* is checked, and may happen to be OK.
ReadNoAnswer(c) ==
  /\ cpc[c] = "answer"
  /\ AtEof(c)
  /\ \/ /\ cpc' = [cpc EXCEPT ![c] = Command[cmde[c].kind]]
        /\ \E n \in {0, 1} : rest' = [rest EXCEPT ![c] = n]
        /\ UNCHANGED <<procVars, kernelVars, cmde, file>>
     \/ EndClient(c, "failed")

AnswerFails(c) == cpc[c] = "answer" /\ MayBeReset(c) /\ EndClient(c, "failed")

-----------------------------------------------------------------------------
(* get_file *)

\* open with O_CREAT and O_EXCL fails when the local file exists.
Create(c) ==
  /\ cpc[c] = "create"
  /\ \/ /\ cpc' = [cpc EXCEPT ![c] = "copy"]
        /\ UNCHANGED <<procVars, kernelVars, cmde, rest, file>>
     \/ EndClient(c, "failed")

\* Mutant: nbbytes is not counted down.
CopyForEver(c) ==
  /\ cpc[c] = "copy"
  /\ rest[c] # 0
  /\ stream[c] # << >>
  /\ file' = [file EXCEPT ![c] = Append(@, Head(stream[c]))]
  /\ stream' = [stream EXCEPT ![c] = Tail(@)]
  /\ UNCHANGED <<procVars, conn, asked, backlog, cpc, cmde, rest>>

\* One turn of copy_n_bytes.
CopyUnit(c) ==
  /\ cpc[c] = "copy"
  /\ rest[c] # 0
  /\ stream[c] # << >>
  /\ file' = [file EXCEPT ![c] = Append(@, Head(stream[c]))]
  /\ rest' = [rest EXCEPT ![c] = @ - 1]
  /\ stream' = [stream EXCEPT ![c] = Tail(@)]
  /\ UNCHANGED <<procVars, conn, asked, backlog, cpc, cmde>>

\* copy_n_bytes has all, or meets the end of the stream or a failed write.
CopyReturns(c) ==
  /\ cpc[c] = "copy"
  /\ rest[c] = 0 \/ AtEof(c) \/ stream[c] # << >>
  /\ EndClient(c, "closed")

-----------------------------------------------------------------------------
(* list, dir_file *)

ListUnit(c) ==
  /\ cpc[c] = "list"
  /\ stream[c] # << >>
  /\ stream' = [stream EXCEPT ![c] = Tail(@)]
  /\ UNCHANGED <<procVars, conn, asked, backlog, ftpVars>>

\* Mutant: a read of 0 is not told from one that returned data.
ListGoesOn(c) ==
  /\ cpc[c] = "list"
  /\ stream[c] # << >>
  /\ EndClient(c, "closed")

\* copy_all_bytes meets the end of the stream, or standard output cannot be
\* written.
ListReturns(c) ==
  /\ cpc[c] = "list"
  /\ AtEof(c) \/ stream[c] # << >>
  /\ EndClient(c, "closed")

\* What a client does when left alone.
ClientRuns(c) ==
  \/ DialFails(c)
  \/ Ask(c) \/ AskFails(c)
  \/ ReadAnswer(c) \/ ReadNoAnswer(c) \/ AnswerFails(c)
  \/ Create(c) \/ CopyUnit(c) \/ CopyReturns(c)
  \/ ListUnit(c) \/ ListReturns(c)

ClientStep(c) == Dial(c) \/ ClientRuns(c) \/ Interrupt(c)

-----------------------------------------------------------------------------

ProcessRuns(p) == ProcStep(p) /\ UNCHANGED ftpVars

Next ==
  \/ Setup /\ UNCHANGED ftpVars
  \/ \E p \in Procs : ProcessRuns(p)
  \/ \E p \in Procs : (Prints(p) \/ Halt(p)) /\ UNCHANGED ftpVars
  \/ \E c \in Clients : ClientStep(c)

Spec == FtpInit /\ [][Next]_vars

\* The scheduler runs every process that can run, on either side; what is stopped
\* is continued.
Fairness ==
  /\ WF_vars(Setup /\ UNCHANGED ftpVars)
  /\ \A p \in Procs : WF_vars(ProcessRuns(p))
  /\ \A c \in Clients : WF_vars(ClientRuns(c))

FairSpec == Spec /\ Fairness

-----------------------------------------------------------------------------
(* Safety *)

\* The handler of SIGCHLD waits for a child that is still running, which keeps the
\* process from its loop, only after a child was stopped or continued: before that,
\* each pending signal and each handler that has begun has a child of its own that
\* ended, however the signals merge.
WaitReturns ==
  \A p \in Procs : ~halted[p] =>
    /\ sigchld[p] \/ handling[p] => Zombies(p) # {}
    /\ sigchld[p] /\ handling[p] => \E q, r \in Zombies(p) : q # r

\* In the program of yassine a process that went back to accept() holds no
\* descriptor of a connection, and of one its client waits on only where a
\* listing failed: execlp() came back after dup2, and the connection stays the
\* standard output of the child and of the children it makes.
NoLeak ==
  version = "yassine" =>
    \A p \in Procs : pc[p] = "accept" =>
      /\ fds[p] = {}
      /\ \A c \in Clients : Holds(p, c) /\ conn[c] = "open" => cmde[c] = List

\* In the program of trunk a child goes back to accept(), and serves connections
\* meant for the parent, only when its own client is left, or asked for a listing
\* and has nothing to wait for but the refusal that was sent: the child is done
\* with the connection and no longer holds it.
ChildAccepts ==
  version = "trunk" =>
    \A p \in Clients : pc[p] = "accept" =>
      /\ p \notin fds[p]
      /\ conn[p] = "open" => /\ cmde[p] = List /\ cpc[p] = "answer"
                             /\ stream[p] = <<Answer(FALSE, 0)>>

\* What a client stores is the beginning of the file it asked for, in order,
\* however its child, the parent and the other children share the connection.
FileInOrder ==
  \A c \in Clients : \A i \in DOMAIN file[c] :
    cmde[c].kind = "get" /\ file[c][i] = Chunk(cmde[c].path, i - 1)

-----------------------------------------------------------------------------
(* Liveness *)

\* The client of c is told that no more comes by the end of its connection only,
\* and a process that lives on may hold it: the parent of trunk, where the close
\* after fork() is a comment; a child of yassine that is back at accept() after
\* execlp() failed; a process kept in its handler by a child that was stopped.
KeptOpen(c) ==
  \/ version = "trunk"
  \/ \E p \in Procs : out[p] = c /\ pc[p] = "accept"
  \/ \E p \in Procs : halted[p] /\ handling[p] /\ Holds(p, c)

\* What a client was promised comes to an end: a file of which every byte can be
\* read does, whoever holds the connection; a listing, and a directory that get
\* took for a file and announced a size of, do unless the connection is kept open.
RepliesEnd ==
  \A c \in Clients :
    cpc[c] \in {"copy", "list"} ~>
      \/ cpc[c] \in Ended
      \/ cmde[c] \in {List} \cup {Get(d) : d \in Directories} /\ KeptOpen(c)
=============================================================================
