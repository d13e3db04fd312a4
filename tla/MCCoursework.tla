----------------------------- MODULE MCCoursework -----------------------------
(* The constants of the whole program for TLC. *)
EXTENDS Coursework

(* Every address prints as itself. *)
OwnText == [a \in Addr |-> a]

(* The lists earlier sessions saved: any list of up to MaxServers.           *)
AnySaved == BoundedSeq(Server, MaxServers)
=============================================================================
