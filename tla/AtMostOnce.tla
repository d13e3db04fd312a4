------------------------------ MODULE AtMostOnce ------------------------------
(***************************************************************************)
(* What pqxx::perform with a robusttransaction promises to a program: the  *)
(* work takes effect at most once, "done" is said of work that took        *)
(* effect, "failed" of work that did not and never will, and "in doubt"    *)
(* commits to nothing.                                                     *)
(***************************************************************************)
EXTENDS Naturals

VARIABLES
  effects,   (* How often the work took effect.                            *)
  answer     (* What the program was told.                                 *)

promiseVars == <<effects, answer>>

(* The work may take effect until failure was reported; behind an answer     *)
(* that leaves it open, too.                                                 *)
TakeEffect ==
  /\ effects = 0 /\ answer \in {"none", "in_doubt"}
  /\ effects' = 1
  /\ UNCHANGED answer

Answer ==
  /\ answer = "none"
  /\ \/ answer' = "done" /\ effects = 1
     \/ answer' = "failed" /\ effects = 0
     \/ answer' = "in_doubt"
  /\ UNCHANGED effects

PromiseInit == effects = 0 /\ answer = "none"

PromiseNext == TakeEffect \/ Answer

PromiseSpec == PromiseInit /\ [][PromiseNext]_promiseVars

=============================================================================
