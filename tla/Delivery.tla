------------------------------ MODULE Delivery ------------------------------
(***************************************************************************)
(* The server as a service that publishes frames: what of its tables, of   *)
(* the place the capture thread has come to in them and of the connections *)
(* makes up the state of PubSub.  A client that left is no reader, also    *)
(* when its descriptor is still in a table.                                *)
(***************************************************************************)
EXTENDS Server

Connected(c) == conn[c] = "open"

Subscriptions == {s \in Clients \X Tables :
                    Connected(s[1]) /\ \E i \in Slots : tab[s[2]][i] = s[1]}

AsksFrames(c) == asked[c] # NoRequest /\ asked[c].kind = REQUEST_SNIFF

\* Those that left, and those whose thread has stored their descriptor.
Settled == {c \in Clients : \/ conn[c] = "gone"
                            \/ AsksFrames(c) /\ \E h \in Clients :
                                                  hfd[h] = c /\ hpc[h] = "done"}

Published == IF spc \in {"scan", "header", "body"} THEN frame ELSE NoFrame

\* The slots the capture thread comes to after the one whose client it has
\* taken: the rest of the table it is in, and the tables after it.
Ahead(k, i) == k = 1 => si < i \/ (si = i /\ spc = "scan")

Due == {c \in Clients :
          /\ Connected(c) /\ Published # NoFrame
          /\ \E k \in DOMAIN route, i \in Slots : tab[route[k]][i] = c /\ Ahead(k, i)}

Current == IF spc \in {"header", "body"} /\ Connected(sfd) THEN sfd ELSE NoFd

Header(f) == Answer(ANSWER_OK, SentSize(f))

Unsent == IF Current = NoFd THEN << >>
          ELSE IF spc = "header" THEN <<Header(frame), Packet(frame)>>
          ELSE <<Packet(frame)>>

SniffStreams == [c \in Clients |-> IF Connected(c) /\ AsksFrames(c)
                                   THEN outbox[c] ELSE << >>]

Service == INSTANCE PubSub WITH
  Readers   <- Clients,
  Topics    <- Tables,
  Messages  <- Frames,
  TopicsOf  <- [f \in Frames |-> {Route(f)[i] : i \in DOMAIN Route(f)}],
  Parts     <- [f \in Frames |-> <<Header(f), Packet(f)>>],
  NoMessage <- NoFrame,
  Nobody    <- NoFd,
  subs      <- Subscriptions,
  settled   <- Settled,
  message   <- Published,
  due       <- Due,
  current   <- Current,
  ahead     <- Unsent,
  stream    <- SniffStreams

\* The server is that service, whatever the interleaving of registrations and
\* deliveries: a frame reaches each client that is connected and in one of its
\* tables when the capture thread takes it up, once, header first, unless another
\* client was stored over it meanwhile; nobody else gets it, and no thread writes
\* anything but frames to a client that asked for them.
ServerIsService == Service!Spec
=============================================================================
