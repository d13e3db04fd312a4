------------------------------- MODULE MCPqCalls -------------------------------
(* What calls a connection, for TLC: pqxx::perform with a robusttransaction, a *)
(* pipeline, the receivers of notifications, and the connections themselves.   *)
(* They share no state, so each behaviour is one part's; the others rest.      *)
EXTENDS PqRobust, PqPipeline, PqNotify, PqConnection

VARIABLE part   (* Whose behaviour it is. *)

callsVars == <<part, vars, pipeVars, notifyVars, connVars>>

(* Two receivers share a channel. *)
MCChannelOf == [r \in {"r1", "r2", "r3"} |-> IF r = "r3" THEN 2 ELSE 1]

CallsInit ==
  /\ part \in {"perform", "pipeline", "notify", "connection"}
  /\ Init /\ PipelineInit /\ NotifyInit /\ ConnectionInit
  /\ part # "pipeline" => pipe.block = "open" /\ kind = [q \in Id |-> "good"]

CallsNext ==
  /\ \/ /\ part = "perform" /\ Next
        /\ UNCHANGED <<pipeVars, notifyVars, connVars>>
     \/ /\ part = "pipeline" /\ PipelineNext
        /\ UNCHANGED <<vars, notifyVars, connVars>>
     \/ /\ part = "notify" /\ NotifyNext
        /\ UNCHANGED <<vars, pipeVars, connVars>>
     \/ /\ part = "connection" /\ ConnectionNext
        /\ UNCHANGED <<vars, pipeVars, notifyVars>>
  /\ UNCHANGED part

(* The fairness of FairSpec and of NotifySpec. *)
CallsSpec ==
  /\ CallsInit /\ [][CallsNext]_callsVars
  /\ WF_vars(part = "perform" /\ Perform) /\ NotifyFairness

-----------------------------------------------------------------------------
(* Every variable has its type; and the place of perform goes with what the  *)
(* server has, as the proofs of PqRobust need it.                            *)
CallsInv == RobustInv /\ PipelineInv /\ NotifyTypeOK /\ ConnectionTypeOK

(* PerformReturns where perform is called: it comes back, whatever the       *)
(* connection does (transactor.hxx).                                         *)
EachPerformReturns == part = "perform" => PerformReturns
=============================================================================
