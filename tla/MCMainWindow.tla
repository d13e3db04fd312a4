----------------------------- MODULE MCMainWindow -----------------------------
(* The constants of the main window for TLC. *)
EXTENDS MainWindow

CONSTANT MaxServers   (* Bound: the length of a list. *)

AnyList == BoundedSeq(Server, MaxServers)
=============================================================================
