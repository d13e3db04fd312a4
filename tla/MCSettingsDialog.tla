--------------------------- MODULE MCSettingsDialog ---------------------------
(* The constants of the settings dialog for TLC. *)
EXTENDS SettingsDialog

(* Every address prints as itself. *)
OwnText == [a \in Addr |-> a]

(* Two addresses print the same, as user "a@b" at host "c" and user "a" at   *)
(* host "b@c" do.                                                            *)
SharedText == [a \in Addr |-> IF a = "u@h1" THEN a ELSE "a@b@c"]

(* The lists earlier sessions saved: none, or any list of up to MaxServers.  *)
AnySaved == BoundedSeq(Server, MaxServers)

NoneSaved == {<< >>}
=============================================================================
