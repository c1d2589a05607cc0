------------------------------- MODULE Claims -------------------------------
(***************************************************************************)
(* What comments and pages of the repository say of the server and its     *)
(* code does not do.  Each property below is violated; the README says in  *)
(* which behaviour.                                                        *)
(***************************************************************************)
EXTENDS Delivery

\* A thread h is, or will be, working on the connection c.
Handles(h, c) == hfd[h] = c \/ (hpc[h] = "start" /\ client = c)

\* doc/wiki/WikiRedNetwork.html: the server may talk to "plusieurs
\* clients (fork(processus) ou thread ...".  Every accepted connection
\* whose client is there is, or will be, handled by some thread.  In the code a
\* second accept may overwrite client before the first thread read it.
ServesEveryConnection ==
  \A c \in accepted :
    conn[c] = "open" => \/ \E h \in Clients : Handles(h, c)
                        \/ mainpc = "spawn" /\ client = c

\* src/server.c: sniff() "inscrit l'ID du client dans le tab des protocoles
\* correspondant".  When the thread that handled the request of a connected
\* client has returned, the client is in the table.  In the code two handlers
\* may find the same slot free and the second store in it wins.
RegistrationKept ==
  \A h \in Clients :
    LET c == hfd[h] IN
    /\ hpc[h] = "done" /\ c \in Clients
    /\ conn[c] = "open" /\ asked[c].kind = REQUEST_SNIFF
    => \E i \in Slots : tab[TableOf[asked[c].path]][i] = c
=============================================================================
