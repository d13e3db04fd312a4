------------------------------- MODULE PqRobust -------------------------------
(***************************************************************************)
(* pqxx::perform (transactor.hxx) around a callback that opens its own     *)
(* connection, does some work in a robusttransaction                       *)
(* (robusttransaction.cxx) and commits it.                                 *)
(*                                                                         *)
(* The server goes on by itself: it works on a COMMIT whose sender it may  *)
(* have lost, and it takes its time to notice that a client is gone.       *)
(***************************************************************************)
EXTENDS Naturals, FiniteSets

CONSTANTS
  Attempts,      (* perform's parameter.                                   *)
  MaxChecks      (* max_attempts: how often the outcome is asked for.      *)

ASSUME RobustAssumption ==
  /\ Attempts \in Nat \ {0}
  /\ MaxChecks \in Nat \ {0}

VARIABLES
  pc,        (* Where perform, the callback or do_commit is.               *)
  left,      (* perform's attempts.                                        *)
  link,      (* Whether the callback's connection is alive: is_open().     *)
  checks,    (* do_commit's attempts.                                      *)
  outcome,   (* What perform returned or threw.                            *)
  unfounded, (* History: do_commit ended without the outcome or against it.*)
  server     (* The server's transactions, one per call of the callback.   *)

progress == <<pc, left, link, checks, outcome>>

vars == <<progress, unfounded, server>>

-----------------------------------------------------------------------------
Place == {"invoke", "work", "constraints", "commit", "reply", "doubt", "over"}

Outcome == {"none", "ok", "in_doubt", "unknown", "broken", "rollback", "other"}

(* "failed" is a block in which a statement failed. *)
Transaction == {"none", "running", "failed", "committing", "committed", "aborted"}

Call == 1 .. Attempts

(* The call under way. *)
this == Attempts - left + 1

Becomes(state) == server' = [server EXCEPT ![this] = state]

(* Mutant: perform takes in_doubt_error for the failure it derives from. *)
RetriedInDoubt == {"broken", "rollback", "in_doubt"}

(* What perform catches and tries again. *)
Retried == {"broken", "rollback"}

Retry(error) == error \in Retried /\ left > 1

(* An error comes out of the callback. *)
Catch(error) ==
  /\ pc' = IF Retry(error) THEN "invoke" ELSE "over"
  /\ left' = IF Retry(error) THEN left - 1 ELSE left
  /\ outcome' = IF Retry(error) THEN "none" ELSE error
  /\ link' = TRUE /\ checks' = 0

Succeed ==
  /\ pc' = "over" /\ outcome' = "ok"
  /\ UNCHANGED <<left, link, checks>>

Goto(place) == pc' = place /\ UNCHANGED <<left, link, checks, outcome>>

-----------------------------------------------------------------------------
(* The callback. *)

(* A connection, BEGIN and txid_current. *)
Invoke ==
  /\ pc = "invoke"
  /\ \/ Goto("work") /\ Becomes("running")
     \/ Catch("broken") /\ UNCHANGED server
     \/ Catch("broken") /\ Becomes("running")
     \/ Catch("other") /\ UNCHANGED server
  /\ UNCHANGED unfounded

(* What a failed statement is thrown as.  broken_connection too: an error of *)
(* class 08 is thrown as one, and so is a result without SQLSTATE, while the *)
(* connection is alive.                                                      *)
SqlError == {"rollback", "other", "unknown", "broken"}

(* The statements.  An error that comes out of the callback takes the        *)
(* transaction with it, whose destructor tries to roll back; a program may   *)
(* also swallow the error and commit.                                        *)
Work ==
  /\ pc = "work"
  /\ \/ Goto("constraints") /\ UNCHANGED server
     \/ Goto("constraints") /\ Becomes("failed")
     \/ \E error \in SqlError :
          Catch(error) /\ (Becomes("aborted") \/ Becomes("failed"))
     \/ Catch("broken") /\ UNCHANGED server
  /\ UNCHANGED unfounded

(* do_commit: SET CONSTRAINTS ALL IMMEDIATE.  If it fails, do_abort, which   *)
(* throws itself when the connection is gone.                                *)
Constraints ==
  /\ pc = "constraints"
  /\ \/ Goto("commit") /\ server[this] = "running" /\ UNCHANGED server
     \/ \E error \in SqlError : Catch(error) /\ Becomes("aborted")
     \/ Catch("broken") /\ UNCHANGED server
  /\ UNCHANGED unfounded

(* A broken_connection, whether or not the connection is alive, or any other *)
(* error when it is gone.                                                    *)
Doubt ==
  /\ pc' = "doubt" /\ link' \in BOOLEAN
  /\ UNCHANGED <<left, checks, outcome>>

(* do_commit: COMMIT goes out, or is lost. *)
SendCommit ==
  /\ pc = "commit"
  /\ \/ Goto("reply") /\ Becomes("committing")
     \/ Doubt /\ UNCHANGED server
  /\ UNCHANGED unfounded

(* do_commit: the answer to COMMIT, or doubt in its place: without an answer,*)
(* or because the error that it is was thrown as a broken_connection.  After *)
(* another error do_abort finds nothing to roll back, or throws itself as it *)
(* loses the connection.                                                     *)
Reply ==
  /\ pc = "reply"
  /\ \/ server[this] = "committed" /\ Succeed
     \/ /\ server[this] = "aborted"
        /\ \E error \in SqlError : Catch(error)
     \/ Doubt
  /\ UNCHANGED <<unfounded, server>>

-----------------------------------------------------------------------------
(* The in-doubt window of do_commit. *)

(* query_status: parse_status knows the three words of txid_status. *)
TxStat(state) ==
  IF state = "committed" THEN "tx_committed"
  ELSE IF state = "aborted" THEN "tx_aborted" ELSE "tx_in_progress"

(* tx_aborted runs do_abort.  That throws if the connection is gone, or when *)
(* it breaks; on one that is alive there is nothing to roll back, and then   *)
(* do_commit returns as after a COMMIT.                                      *)
Settled ==
  \/ Catch("broken") /\ UNCHANGED unfounded
  \/ link /\ Succeed /\ unfounded' = TRUE

(* Mutant: the loop does not count. *)
SameCheck == checks

NextCheck == checks + 1

(* A status is found, and what do_commit makes of it. *)
QueryStatus ==
  /\ pc = "doubt" /\ checks < MaxChecks
  /\ LET stat == TxStat(server[this])
     IN \/ stat = "tx_committed" /\ Succeed /\ UNCHANGED unfounded
        \/ stat = "tx_aborted" /\ Settled
        \/ /\ stat = "tx_in_progress"
           /\ checks' = NextCheck
           /\ UNCHANGED <<pc, left, link, outcome, unfounded>>
  /\ UNCHANGED server

(* Its connection cannot be made or breaks, or the query fails.  tx_unknown, *)
(* left over in that case, is taken for success.                             *)
QueryFails ==
  /\ pc = "doubt" /\ checks < MaxChecks
  /\ Succeed \/ Catch("other")
  /\ unfounded' = TRUE
  /\ UNCHANGED server

(* "Okay, this has taken too long." *)
GiveUp ==
  /\ pc = "doubt" /\ checks = MaxChecks
  /\ Catch("in_doubt")
  /\ UNCHANGED <<unfounded, server>>

-----------------------------------------------------------------------------
(* The server. *)

(* It works on a COMMIT, whether or not anyone waits. *)
FinishCommit(i) ==
  /\ server[i] = "committing"
  /\ \E end \in {"committed", "aborted"} : server' = [server EXCEPT ![i] = end]
  /\ UNCHANGED <<progress, unfounded>>

(* It notices that the client of a transaction is gone. *)
Attended(i) == i = this /\ link /\ pc \notin {"invoke", "over"}

NoticeLoss(i) ==
  /\ server[i] \in {"running", "failed"} /\ ~Attended(i)
  /\ server' = [server EXCEPT ![i] = "aborted"]
  /\ UNCHANGED <<progress, unfounded>>

-----------------------------------------------------------------------------
Init ==
  /\ pc = "invoke" /\ left = Attempts
  /\ link = TRUE /\ checks = 0 /\ outcome = "none"
  /\ unfounded = FALSE
  /\ server = [i \in Call |-> "none"]

Perform ==
  \/ Invoke \/ Work \/ Constraints \/ SendCommit \/ Reply
  \/ QueryStatus \/ GiveUp

Server == \E i \in Call : FinishCommit(i) \/ NoticeLoss(i)

Next == Perform \/ QueryFails \/ Server

Spec == Init /\ [][Next]_vars

(* Each command is answered or its connection breaks.  The server need not   *)
(* come to an end with anything, and no question is counted on to fail.      *)
FairSpec == Spec /\ WF_vars(Perform)

-----------------------------------------------------------------------------
(* Every variable has its type. *)
TypeOK ==
  /\ pc \in Place /\ left \in Call
  /\ link \in BOOLEAN /\ checks \in 0 .. MaxChecks
  /\ outcome \in Outcome /\ unfounded \in BOOLEAN
  /\ server \in [Call -> Transaction]

Committed == {i \in Call : server[i] = "committed"}

(* States of a transaction that does not take effect, unless a COMMIT comes. *)
Ineffective == {"none", "running", "failed", "aborted"}

(* perform calls again only when the transaction before can take no effect   *)
(* any more: earlier ones are aborted, or the server will abort them.        *)
RetriesAreSafe == \A i \in Call : i < this => server[i] \in Ineffective

(* How far perform and the callback are goes with what the server has of the *)
(* call, and so does a true answer.                                          *)
PlacesFit ==
  /\ \A i \in Call : i > this => server[i] = "none"
  /\ pc = "invoke" => link /\ server[this] = "none"
  /\ pc \in {"work", "constraints", "commit"} =>
       link /\ server[this] \in {"running", "failed"}
  /\ pc = "reply" => server[this] \in {"committing", "committed", "aborted"}
  /\ pc = "doubt" => server[this] # "none"
  /\ pc = "over" <=> outcome # "none"
  /\ unfounded => pc = "over"
  /\ outcome = "ok" /\ ~unfounded => server[this] = "committed"
  /\ outcome \notin {"none", "ok", "in_doubt"} /\ ~unfounded =>
       server[this] \in Ineffective

(* The inductive invariant. *)
RobustInv == TypeOK /\ RetriesAreSafe /\ PlacesFit

(* What the program was told.  It counts as "in doubt" where do_commit could *)
(* not find out, and where it returned although it found "aborted"; of what  *)
(* it says then see SuccessIsDurable.                                        *)
Told ==
  IF outcome = "none" THEN "none"
  ELSE IF outcome = "in_doubt" \/ unfounded THEN "in_doubt"
  ELSE IF outcome = "ok" THEN "done" ELSE "failed"

(* The work takes effect at most once; what perform returns and throws says  *)
(* whether it did, unless it throws in_doubt_error or is unfounded.          *)
Promise == INSTANCE AtMostOnce WITH effects <- Cardinality(Committed), answer <- Told

ImplementsPromise == Promise!PromiseSpec

(* perform comes back, whatever the connection does. *)
PerformReturns == <>(pc = "over")

-----------------------------------------------------------------------------
(* What do_commit says and does not do: "We were unable to reconnect and     *)
(* query transaction status.  Stay in it for another attempt."               *)
SuccessIsDurable == outcome = "ok" => Committed # {}

=============================================================================
