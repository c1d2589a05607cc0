----------------------------- MODULE MCMiniFtp ------------------------------
(***************************************************************************)
(* The instances of MiniFtp for TLC: a file, a directory and a name that   *)
(* cannot be opened.                                                       *)
(***************************************************************************)
EXTENDS MiniFtp, TLC

Both     == {"trunk", "yassine"}
OneDir   == {"dir"}

TwoReads == [file |-> 2, dir |-> 1]
AllPaths == {"file", "dir", "none"}

OneRead  == [file |-> 1, dir |-> 1]
TwoPaths == {"file", "dir"}

Symmetry == Permutations(Clients)

(* Where liveness is checked no symmetry can be used; instead the clients  *)
(* start in one order.  A behaviour in which another one starts first is   *)
(* the same with their names exchanged.                                    *)
First  == CHOOSE c \in Clients : TRUE
InTurn == \A c \in Clients : cpc[c] # "connect" => cpc[First] # "connect"

\* What ends by the end of the connection in either program, and in the program of
\* trunk a file too, which its parent keeps open.
AsksOfRun == version = "yassine" => \A c \in Clients : cmde[c] # Get("file")

LiveSpec ==
  /\ FtpInit
  /\ [][Next /\ InTurn' /\ AsksOfRun']_vars
  /\ Fairness
=============================================================================
