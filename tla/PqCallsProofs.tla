----------------------------- MODULE PqCallsProofs -----------------------------
(***************************************************************************)
(* Proofs about what calls a connection, and about the connection itself.  *)
(* PqRobust, for any number of attempts and of questions: the inductive    *)
(* invariant, and that perform implements AtMostOnce.  PqConnection, for   *)
(* any number of objects, handles and handlers: who owns a handle, and what*)
(* goes with a session that moves.  PqNotify, for every set of receivers   *)
(* and channels, every number of notifications and every depth of loops.   *)
(* And all of them together, with the pipeline of PqPipelineProofs.        *)
(***************************************************************************)
EXTENDS MCPqCalls, PqPipelineProofs, SequenceTheorems

-----------------------------------------------------------------------------
(* perform with a robusttransaction. *)
Error == {"broken", "rollback", "other", "unknown", "in_doubt"}

(* The call under way is one. *)
LEMMA CallNumbers ==
  ASSUME NEW l \in Call
  PROVE  /\ Attempts - l + 1 \in Call
         /\ Attempts - (l - 1) + 1 = (Attempts - l + 1) + 1
  BY RobustAssumption DEF Call

LEMMA ThisIsCall ==
  ASSUME left \in Call
  PROVE  this \in Call
  BY CallNumbers DEF this

(* A call that fails leaves the invariant, if its transaction takes no       *)
(* effect or the error says that it may have: the next call is a fresh one.  *)
LEMMA CatchKeeps ==
  ASSUME RobustInv, NEW error \in Error, Catch(error), pc # "over",
         NEW state \in Transaction, Becomes(state), unfounded' \in BOOLEAN,
         state \in Ineffective \/ error = "in_doubt" \/ unfounded',
         unfounded' => error = "other"
  PROVE  RobustInv'
<1> USE DEF RobustInv, Error
<1>1. this \in Call
  BY ThisIsCall DEF TypeOK
<1>2. server' = [server EXCEPT ![this] = state] /\ server' \in [Call -> Transaction]
  BY <1>1 DEF Becomes, TypeOK
<1>3. outcome = "none" /\ ~unfounded
  BY DEF TypeOK, PlacesFit
<1>4. CASE Retry(error)
  <2>1. /\ pc' = "invoke" /\ left' = left - 1 /\ outcome' = "none"
        /\ link' = TRUE /\ checks' = 0 /\ left > 1 /\ ~unfounded' /\ error \in {"broken", "rollback"}
    BY <1>4 DEF Catch, Retry, Retried
  <2>2. left' \in Call /\ this' = this + 1 /\ this' \in Call
    BY <2>1, RobustAssumption DEF TypeOK, Call, this
  <2>3. TypeOK'
    BY <1>2, <2>1, <2>2, RobustAssumption DEF TypeOK, Place, Outcome
  <2>4. RetriesAreSafe'
    BY <1>1, <1>2, <2>1, <2>2 DEF RetriesAreSafe, Call, TypeOK
  <2>5. PlacesFit'
    BY <1>1, <1>2, <2>1, <2>2 DEF PlacesFit, Call, TypeOK
  <2> QED
    BY <2>3, <2>4, <2>5
<1>5. CASE ~Retry(error)
  <2>1. /\ pc' = "over" /\ left' = left /\ outcome' = error
        /\ link' = TRUE /\ checks' = 0
    BY <1>5 DEF Catch
  <2>2. this' = this
    BY <2>1 DEF this
  <2>3. TypeOK'
    BY <1>2, <2>1, RobustAssumption DEF TypeOK, Place, Outcome
  <2>4. RetriesAreSafe'
    BY <1>1, <1>2, <2>1, <2>2 DEF RetriesAreSafe, Call, TypeOK
  <2>5. PlacesFit'
    BY <1>1, <1>2, <2>1, <2>2 DEF PlacesFit, Call, TypeOK
  <2> QED
    BY <2>3, <2>4, <2>5
<1> QED
  BY <1>4, <1>5

(* The server's transaction of the call is replaced by itself. *)
LEMMA ServerStays ==
  ASSUME RobustInv, UNCHANGED server
  PROVE  /\ this \in Call /\ server[this] \in Transaction
         /\ Becomes(server[this])
  BY ThisIsCall DEF RobustInv, TypeOK, Becomes

(* A call that succeeds. *)
LEMMA SucceedKeeps ==
  ASSUME RobustInv, Succeed, UNCHANGED server, unfounded' \in BOOLEAN,
         unfounded' \/ server[this] = "committed"
  PROVE  RobustInv'
<1>1. /\ pc' = "over" /\ outcome' = "ok" /\ this' = this
      /\ UNCHANGED <<left, link, checks>>
  BY DEF Succeed, this
<1>2. TypeOK'
  BY <1>1 DEF RobustInv, TypeOK, Place, Outcome
<1>3. RetriesAreSafe' /\ PlacesFit'
  BY <1>1 DEF RobustInv, RetriesAreSafe, PlacesFit
<1> QED
  BY <1>2, <1>3 DEF RobustInv

(* A step within a call, that changes this call's transaction at most. *)
LEMMA MoveKeeps ==
  ASSUME RobustInv, NEW place \in Place, NEW state \in Transaction, Becomes(state),
         pc # "over", pc' = place, left' = left, outcome' = outcome, unfounded' = unfounded,
         link' \in BOOLEAN, checks' \in 0 .. MaxChecks,
         \/ place \in {"work", "constraints", "commit"} /\ link' /\ state \in {"running", "failed"}
         \/ place = "reply" /\ state \in {"committing", "committed", "aborted"}
         \/ place = "doubt" /\ state # "none"
  PROVE  RobustInv'
<1>1. this \in Call /\ this' = this
  BY ThisIsCall DEF RobustInv, TypeOK, this
<1>2. server' = [server EXCEPT ![this] = state] /\ server' \in [Call -> Transaction]
  BY <1>1 DEF Becomes, RobustInv, TypeOK
<1>3. TypeOK'
  BY <1>2 DEF RobustInv, TypeOK
<1>4. RetriesAreSafe'
  BY <1>1, <1>2 DEF RobustInv, RetriesAreSafe, TypeOK, Call
<1>5. PlacesFit'
  BY <1>1, <1>2 DEF RobustInv, PlacesFit, TypeOK, Call
<1> QED
  BY <1>3, <1>4, <1>5 DEF RobustInv

-----------------------------------------------------------------------------
(* The invariant. *)

LEMMA InvInit == Init => RobustInv
<1> SUFFICES ASSUME Init PROVE RobustInv
  OBVIOUS
<1>1. left = Attempts /\ this = 1 /\ left \in Call /\ this \in Call
  BY RobustAssumption DEF Init, this, Call
<1>2. TypeOK
  <2>1. 0 \in 0 .. MaxChecks
    BY RobustAssumption
  <2> QED
    BY <1>1, <2>1 DEF Init, TypeOK, Place, Outcome, Transaction
<1>3. RetriesAreSafe /\ PlacesFit
  BY <1>1 DEF Init, RetriesAreSafe, PlacesFit, Call, Ineffective
<1> QED
  BY <1>2, <1>3 DEF RobustInv

LEMMA InvNext == RobustInv /\ [Next]_vars => RobustInv'
<1> SUFFICES ASSUME RobustInv, [Next]_vars
             PROVE  RobustInv'
  OBVIOUS
<1>0. /\ this \in Call /\ server[this] \in Transaction
      /\ (UNCHANGED server => Becomes(server[this]))
      /\ unfounded \in BOOLEAN /\ link \in BOOLEAN /\ checks \in 0 .. MaxChecks /\ checks \in Nat
      /\ (pc # "over" => ~unfounded)
      /\ {"running", "failed", "committing", "aborted"} \subseteq Transaction
      /\ {"running", "failed", "aborted"} \subseteq Ineffective
  BY ThisIsCall, ServerStays, RobustAssumption
     DEF RobustInv, TypeOK, PlacesFit, Transaction, Ineffective
<1>1. CASE Invoke
  <2>1. CASE Goto("work") /\ Becomes("running")
    BY <1>0, <1>1, <2>1, MoveKeeps DEF Invoke, Goto, RobustInv, PlacesFit, Place, TypeOK
  <2>2. CASE \E error \in {"broken", "other"} : Catch(error) /\ UNCHANGED server
    <3>1. server[this] \in Ineffective
      BY <1>1 DEF Invoke, RobustInv, PlacesFit, Ineffective
    <3> QED
      BY <1>0, <1>1, <2>2, <3>1, CatchKeeps DEF Invoke, Error
  <2>3. CASE Catch("broken") /\ Becomes("running")
    BY <1>0, <1>1, <2>3, CatchKeeps DEF Invoke, Error
  <2> QED
    BY <1>1, <2>1, <2>2, <2>3 DEF Invoke
<1>2. CASE Work
  <2>1. server[this] \in {"running", "failed"} /\ link /\ pc # "over" /\ unfounded' = unfounded
    BY <1>2 DEF Work, RobustInv, PlacesFit
  <2>2. CASE Goto("constraints") /\ (UNCHANGED server \/ Becomes("failed"))
    BY <1>0, <2>1, <2>2, MoveKeeps DEF Goto, Place
  <2>3. ASSUME NEW error \in SqlError, Catch(error),
               Becomes("aborted") \/ Becomes("failed")
        PROVE  RobustInv'
    BY <1>0, <2>1, <2>3, CatchKeeps DEF Error, SqlError
  <2>4. CASE Catch("broken") /\ UNCHANGED server
    BY <1>0, <2>1, <2>4, CatchKeeps DEF Error
  <2> QED
    BY <1>2, <2>2, <2>3, <2>4 DEF Work
<1>3. CASE Constraints
  <2>1. server[this] \in {"running", "failed"} /\ link /\ pc # "over" /\ unfounded' = unfounded
    BY <1>3 DEF Constraints, RobustInv, PlacesFit
  <2>2. CASE Goto("commit") /\ UNCHANGED server
    BY <1>0, <2>1, <2>2, MoveKeeps DEF Goto, Place
  <2>3. ASSUME NEW error \in SqlError, Catch(error), Becomes("aborted")
        PROVE  RobustInv'
    BY <1>0, <2>1, <2>3, CatchKeeps DEF Error, SqlError
  <2>4. CASE Catch("broken") /\ UNCHANGED server
    BY <1>0, <2>1, <2>4, CatchKeeps DEF Error
  <2> QED
    BY <1>3, <2>2, <2>3, <2>4 DEF Constraints
<1>4. CASE SendCommit
  <2>1. server[this] \in {"running", "failed"} /\ pc # "over" /\ unfounded' = unfounded
    BY <1>4 DEF SendCommit, RobustInv, PlacesFit
  <2>2. CASE Goto("reply") /\ Becomes("committing")
    BY <1>0, <2>1, <2>2, MoveKeeps DEF Goto, Place
  <2>3. CASE Doubt /\ UNCHANGED server
    BY <1>0, <2>1, <2>3, MoveKeeps DEF Doubt, Place
  <2> QED
    BY <1>4, <2>2, <2>3 DEF SendCommit
<1>5. CASE Reply
  <2>1. /\ server[this] \in {"committing", "committed", "aborted"} /\ pc # "over"
        /\ UNCHANGED <<unfounded, server>>
    BY <1>5 DEF Reply, RobustInv, PlacesFit
  <2>2. CASE server[this] = "committed" /\ Succeed
    BY <1>0, <2>1, <2>2, SucceedKeeps
  <2>3. ASSUME NEW error \in SqlError, Catch(error), server[this] = "aborted"
        PROVE  RobustInv'
    BY <1>0, <2>1, <2>3, CatchKeeps DEF Error, SqlError
  <2>4. CASE Doubt
    BY <1>0, <2>1, <2>4, MoveKeeps DEF Doubt, Place
  <2> QED
    BY <1>5, <2>2, <2>3, <2>4 DEF Reply
<1>6. CASE QueryStatus
  <2>1. /\ pc = "doubt" /\ checks < MaxChecks /\ server[this] # "none"
        /\ UNCHANGED server
    BY <1>6 DEF QueryStatus, RobustInv, PlacesFit
  <2>2. CASE TxStat(server[this]) = "tx_committed" /\ Succeed /\ UNCHANGED unfounded
    <3>1. server[this] = "committed"
      BY <1>0, <2>1, <2>2 DEF TxStat, Transaction
    <3> QED
      BY <1>0, <2>1, <2>2, <3>1, SucceedKeeps
  <2>3. CASE TxStat(server[this]) = "tx_aborted" /\ Catch("broken") /\ UNCHANGED unfounded
    <3>1. server[this] = "aborted"
      BY <1>0, <2>1, <2>3 DEF TxStat, Transaction
    <3> QED
      BY <1>0, <2>1, <2>3, <3>1, CatchKeeps DEF Error
  <2>4. CASE Succeed /\ unfounded' = TRUE
    BY <1>0, <2>1, <2>4, SucceedKeeps
  <2>5. CASE checks' = NextCheck /\ UNCHANGED <<pc, left, link, outcome, unfounded>>
    <3>1. checks' \in 0 .. MaxChecks
      BY <1>0, <2>1, <2>5, RobustAssumption DEF NextCheck
    <3> QED
      BY <1>0, <2>1, <2>5, <3>1, MoveKeeps DEF Place
  <2> QED
    BY <1>6, <2>2, <2>3, <2>4, <2>5 DEF QueryStatus, Settled
<1>7. CASE QueryFails
  <2>1. CASE Succeed
    BY <1>0, <1>7, <2>1, SucceedKeeps DEF QueryFails
  <2>2. CASE Catch("other")
    BY <1>0, <1>7, <2>2, CatchKeeps DEF QueryFails, Error
  <2> QED
    BY <1>7, <2>1, <2>2 DEF QueryFails
<1>8. CASE GiveUp
  BY <1>0, <1>8, CatchKeeps DEF GiveUp, Error
<1>9. ASSUME NEW i \in Call, FinishCommit(i) \/ NoticeLoss(i)
      PROVE  RobustInv'
  <2>1. PICK end \in {"committed", "aborted"} : server' = [server EXCEPT ![i] = end]
    BY <1>9 DEF FinishCommit, NoticeLoss
  <2>2. /\ UNCHANGED <<progress, unfounded>> /\ this' = this /\ pc' = pc
        /\ server' \in [Call -> Transaction]
        /\ server[i] \in {"committing", "running", "failed"}
    BY <1>9, <2>1
       DEF FinishCommit, NoticeLoss, progress, this, RobustInv, TypeOK, Transaction
  <2>3. TypeOK'
    BY <2>2 DEF RobustInv, TypeOK, progress
  <2>4. i <= this
    BY <1>0, <2>2 DEF RobustInv, PlacesFit, Call
  <2>5. CASE FinishCommit(i)
    <3>1. i = this
      BY <1>0, <2>4, <2>5 DEF FinishCommit, RobustInv, RetriesAreSafe, Ineffective, Call
    <3>2. RetriesAreSafe'
      BY <2>1, <2>2, <3>1 DEF RobustInv, RetriesAreSafe, Call
    <3>3. PlacesFit'
      BY <1>0, <2>1, <2>2, <2>5, <3>1
         DEF RobustInv, PlacesFit, FinishCommit, progress, Call, TypeOK, Ineffective
    <3> QED
      BY <2>3, <3>2, <3>3 DEF RobustInv
  <2>6. CASE NoticeLoss(i)
    <3>1. server' = [server EXCEPT ![i] = "aborted"] /\ ~Attended(i)
      BY <2>6 DEF NoticeLoss
    <3>2. RetriesAreSafe'
      BY <1>0, <2>2, <3>1 DEF RobustInv, RetriesAreSafe, TypeOK
    <3>3. PlacesFit'
      BY <1>0, <2>2, <2>4, <3>1
         DEF RobustInv, PlacesFit, Attended, progress, Call, TypeOK
    <3> QED
      BY <2>3, <3>2, <3>3 DEF RobustInv
  <2> QED
    BY <1>9, <2>5, <2>6
<1>10. CASE UNCHANGED vars
  BY <1>10 DEF vars, progress, RobustInv, TypeOK, RetriesAreSafe, PlacesFit, this
<1> QED
  BY <1>1, <1>2, <1>3, <1>4, <1>5, <1>6, <1>7, <1>8, <1>9, <1>10
     DEF Next, Perform, Server

(* The place of perform and the server's transactions always fit, whatever   *)
(* breaks and however long the server takes (robusttransaction.cxx, do_commit).*)
THEOREM PlacesAlwaysFit == Spec => []RobustInv
  BY InvInit, InvNext, PTL DEF Spec

(* Nothing is tried again that may still take effect (transactor.hxx).       *)
THEOREM RetriesAlwaysSafe == Spec => []RetriesAreSafe
  BY PlacesAlwaysFit, PTL DEF RobustInv

-----------------------------------------------------------------------------
(* The refinement. *)

(* Only the call under way can have taken effect. *)
LEMMA OneEffect ==
  ASSUME RobustInv
  PROVE  /\ Committed = IF server[this] = "committed" THEN {this} ELSE {}
         /\ Cardinality(Committed) = IF server[this] = "committed" THEN 1 ELSE 0
<1>1. this \in Call
  BY ThisIsCall DEF RobustInv, TypeOK
<1>2. \A i \in Call : server[i] = "committed" => i = this
  BY <1>1 DEF RobustInv, RetriesAreSafe, PlacesFit, Ineffective, Call
<1>3. Committed = IF server[this] = "committed" THEN {this} ELSE {}
  BY <1>1, <1>2 DEF Committed
<1> QED
  BY <1>3, FS_Singleton, FS_EmptySet

LEMMA PromiseStarts == Init => Promise!PromiseInit
<1> SUFFICES ASSUME Init PROVE Promise!PromiseInit
  OBVIOUS
<1>1. Committed = {}
  BY DEF Init, Committed
<1> QED
  BY <1>1, FS_EmptySet DEF Init, Promise!PromiseInit, Told

(* The work of the call under way took effect. *)
Mine == server[this] = "committed"

(* A step of perform has no effect and undoes none.                          *)
LEMMA ClientHasNoEffect ==
  ASSUME RobustInv, RobustInv', Perform \/ QueryFails
  PROVE  pc # "over" /\ Mine' = Mine
<1>1. pc # "over"
  BY DEF Perform, Invoke, Work, Constraints, SendCommit, Reply, QueryStatus, GiveUp, QueryFails
<1>2. \/ UNCHANGED server
      \/ /\ pc \in {"invoke", "work", "constraints", "commit"}
         /\ \E state \in {"running", "failed", "aborted", "committing"} : Becomes(state)
  BY DEF Perform, Invoke, Work, Constraints, SendCommit, Reply, QueryStatus, GiveUp, QueryFails
<1>3. this' = this \/ this' = this + 1
  <2>1. left' = left \/ left' = left - 1
    BY DEF Perform, Invoke, Work, Constraints, SendCommit, Reply, QueryStatus, GiveUp,
           QueryFails, Catch, Succeed, Goto, Doubt, Settled
  <2> QED
    BY <2>1, CallNumbers DEF this, RobustInv, TypeOK
<1>4. this \in Call /\ this' \in Call
  BY CallNumbers DEF this, RobustInv, TypeOK
<1>5. pc \in {"invoke", "work", "constraints", "commit"} => ~Mine
  BY DEF RobustInv, PlacesFit, Mine
<1>6. \A i \in Call : server'[i] = "committed" <=> server[i] = "committed"
  BY <1>2, <1>4, <1>5 DEF Mine, Becomes, RobustInv, TypeOK
<1>7. CASE this' = this
  BY <1>1, <1>4, <1>6, <1>7 DEF Mine
<1>8. CASE this' = this + 1
  <2>1. server'[this] # "committed"
    BY <1>4, <1>8 DEF RobustInv, RetriesAreSafe, Ineffective, Call
  <2>2. server[this'] # "committed"
    BY <1>4, <1>8 DEF RobustInv, PlacesFit, Call
  <2> QED
    BY <1>1, <1>4, <1>6, <2>1, <2>2 DEF Mine
<1> QED
  BY <1>1, <1>3, <1>7, <1>8

(* The server may bring an effect of the call under way, before the answer   *)
(* or behind one that leaves it open.                                        *)
LEMMA ServerHasOneEffect ==
  ASSUME RobustInv, RobustInv', Server
  PROVE  /\ Told' = Told
         /\ Mine' = Mine \/ (~Mine /\ Mine' /\ Told \in {"none", "in_doubt"})
<1>1. PICK i \in Call : FinishCommit(i) \/ NoticeLoss(i)
  BY DEF Server
<1>2. UNCHANGED <<progress, unfounded>> /\ this' = this /\ this \in Call
  BY <1>1, ThisIsCall DEF FinishCommit, NoticeLoss, progress, this, RobustInv, TypeOK
<1>3. Told' = Told
  BY <1>2 DEF Told, progress
<1>4. CASE i # this
  BY <1>1, <1>2, <1>3, <1>4 DEF FinishCommit, NoticeLoss, Mine, RobustInv, TypeOK
<1>5. CASE i = this /\ NoticeLoss(i)
  BY <1>2, <1>3, <1>5 DEF NoticeLoss, Mine, RobustInv, TypeOK
<1>6. CASE i = this /\ FinishCommit(i)
  <2>1. Told \in {"none", "in_doubt"} /\ ~Mine
    BY <1>2, <1>6 DEF FinishCommit, Told, Mine, RobustInv, PlacesFit, Ineffective, TypeOK, Outcome
  <2> QED
    BY <1>3, <2>1 DEF Mine
<1> QED
  BY <1>1, <1>3, <1>4, <1>5, <1>6

(* Every step is one of the promise or none. *)
LEMMA PromiseStep ==
  RobustInv /\ RobustInv' /\ [Next]_vars => [Promise!PromiseNext]_(Promise!promiseVars)
<1> SUFFICES ASSUME RobustInv, RobustInv', [Next]_vars
             PROVE  Promise!PromiseNext \/ UNCHANGED Promise!promiseVars
  OBVIOUS
<1>1. Cardinality(Committed) = IF Mine THEN 1 ELSE 0
  BY OneEffect DEF Mine
<1>2. Cardinality(Committed)' = IF Mine' THEN 1 ELSE 0
  <2>1. (RobustInv => Cardinality(Committed) = IF Mine THEN 1 ELSE 0)'
    BY OneEffect, PTL DEF Mine
  <2> QED
    BY <2>1
<1>3. CASE Perform \/ QueryFails
  <2>1. Cardinality(Committed)' = Cardinality(Committed)
    BY <1>1, <1>2, <1>3, ClientHasNoEffect
  <2>2. Told = "none"
    BY <1>3, ClientHasNoEffect DEF Told, RobustInv, PlacesFit
  <2>3. /\ Told' \in {"none", "done", "failed", "in_doubt"}
        /\ Told' = "done" => Mine'
        /\ Told' = "failed" => ~Mine'
    BY DEF Told, Mine, RobustInv, PlacesFit, Ineffective
  <2> QED
    BY <1>2, <2>1, <2>2, <2>3 DEF Promise!PromiseNext, Promise!Answer, Promise!promiseVars
<1>4. CASE Server
  BY <1>1, <1>2, <1>4, ServerHasOneEffect
     DEF Promise!PromiseNext, Promise!TakeEffect, Promise!promiseVars
<1>5. CASE UNCHANGED vars
  <2>1. Told' = Told /\ Mine' = Mine
    BY <1>5 DEF vars, progress, Told, Mine, this
  <2> QED
    BY <1>1, <1>2, <2>1 DEF Promise!promiseVars
<1> QED
  BY <1>3, <1>4, <1>5 DEF Next

(* perform implements the promise, for any number of attempts: the work takes*)
(* effect at most once, and an answer other than "in doubt" is true, unless  *)
(* it is unfounded: do_commit could not find the outcome out, or found that  *)
(* the transaction was aborted, rolled back on a connection that is alive and*)
(* returned (robusttransaction.cxx, transactor.hxx).                         *)
THEOREM PerformImplementsPromise == Spec => ImplementsPromise
  BY PromiseStarts, PromiseStep, PlacesAlwaysFit, PTL
     DEF Spec, ImplementsPromise, Promise!PromiseSpec

-----------------------------------------------------------------------------
(* Connections. *)

(***************************************************************************)
(* What the ownership of handles needs to know of the types.  The chain of *)
(* handlers and the transaction may be anything: no handle depends on them.*)
(***************************************************************************)
Fields(r) == [life |-> r.life, handle |-> r.handle, trans |-> r.trans,
              handlers |-> r.handlers, id |-> r.id]

(* The record of an object with this life and this handle. *)
Owns(r, life, h) == r = Fields(r) /\ r.life = life /\ r.handle = h

Objects(cs) ==
  /\ cs = [c \in Conn |-> cs[c]]
  /\ \A c \in Conn : /\ Owns(cs[c], cs[c].life, cs[c].handle)
                     /\ cs[c].life \in {"none", "alive", "gone"}
                     /\ cs[c].handle \in Handle \cup {Null}

Shape == Objects(conns) /\ handles \in [Handle -> PGconn]

OwnerInv == Shape /\ HandlesAreOwned

-----------------------------------------------------------------------------
(* Updates of one field, and of one object. *)
Put(cs, x, r) == [cs EXCEPT ![x] = r]

LEMMA LifeSet ==
  ASSUME NEW r, NEW l, NEW h, Owns(r, l, h), NEW x
  PROVE  Owns([r EXCEPT !.life = x], x, h)
  BY DEF Owns, Fields

LEMMA HandleSet ==
  ASSUME NEW r, NEW l, NEW h, Owns(r, l, h), NEW x
  PROVE  Owns([r EXCEPT !.handle = x], l, x)
  BY DEF Owns, Fields

LEMMA OtherSet ==
  ASSUME NEW r, NEW l, NEW h, Owns(r, l, h), NEW x
  PROVE  /\ Owns([r EXCEPT !.trans = x], l, h)
         /\ Owns([r EXCEPT !.handlers = x], l, h)
         /\ Owns([r EXCEPT !.id = x], l, h)
<1>1. Owns([r EXCEPT !.trans = x], l, h)
  BY DEF Owns, Fields
<1>2. Owns([r EXCEPT !.handlers = x], l, h)
  BY DEF Owns, Fields
<1>3. Owns([r EXCEPT !.id = x], l, h)
  BY DEF Owns, Fields
<1> QED
  BY <1>1, <1>2, <1>3

LEMMA ObjectPut ==
  ASSUME NEW cs, Objects(cs), NEW x \in Conn, NEW r,
         NEW l \in {"none", "alive", "gone"}, NEW h \in Handle \cup {Null},
         Owns(r, l, h)
  PROVE  /\ Objects(Put(cs, x, r))
         /\ Put(cs, x, r)[x].life = l
         /\ Put(cs, x, r)[x].handle = h
         /\ \A d \in Conn \ {x} : Put(cs, x, r)[d] = cs[d]
  BY DEF Objects, Owns, Put

(* Whoever x is: the update of an object that is none changes nothing. *)
LEMMA FieldPut ==
  ASSUME NEW cs, Objects(cs), NEW x, NEW r,
         x \in Conn => Owns(r, cs[x].life, cs[x].handle)
  PROVE  /\ Objects(Put(cs, x, r))
         /\ \A d \in Conn : /\ Put(cs, x, r)[d].life = cs[d].life
                            /\ Put(cs, x, r)[d].handle = cs[d].handle
<1>1. CASE x \in Conn
  BY <1>1 DEF Objects, Owns, Put
<1>2. CASE x \notin Conn
  <2>1. Put(cs, x, r) = cs
    BY <1>2 DEF Objects, Put
  <2> QED
    BY <2>1
<1> QED
  BY <1>1, <1>2

(* What close leaves. *)
LEMMA ClosedOwns ==
  ASSUME NEW c, NEW l, NEW h, Owns(conns[c], l, h)
  PROVE  Owns(ClosedConnection(c), l, Null)
<1> DEFINE r == [conns[c] EXCEPT !.handlers = << >>]
<1>1. Owns(r, l, h)
  BY OtherSet
<1>2. ClosedConnection(c) = [r EXCEPT !.handle = Null]
  BY DEF ClosedConnection
<1>3. Owns([r EXCEPT !.handle = Null], l, Null)
  <2> HIDE DEF r
  <2> QED
    BY <1>1, HandleSet
<1> QED
  BY <1>2, <1>3

LEMMA NewOwns ==
  /\ Owns(NewConnection, "alive", Null)
  /\ \A h : Owns([NewConnection EXCEPT !.handle = h], "alive", h)
<1>1. Owns(NewConnection, "alive", Null)
  BY DEF Owns, Fields, NewConnection
<1> QED
  BY <1>1, HandleSet

(* What a new object takes from the one it is made of. *)
LEMMA TakenOwns ==
  ASSUME NEW c
  PROVE  Owns(TakenFrom(c), "alive", conns[c].handle)
<1> DEFINE r == [NewConnection EXCEPT !.handle = conns[c].handle]
<1>1. Owns(r, "alive", conns[c].handle)
  BY NewOwns
<1>2. TakenFrom(c) = [r EXCEPT !.id = conns[c].id]
  BY DEF TakenFrom
<1>3. Owns([r EXCEPT !.id = conns[c].id], "alive", conns[c].handle)
  <2> HIDE DEF r
  <2> QED
    BY <1>1, OtherSet
<1> QED
  BY <1>2, <1>3

(* PQfinish leaves handles of their type. *)
LEMMA FinishedTyped ==
  ASSUME NEW hs \in [Handle -> PGconn], NEW h \in Handle \cup {Null}
  PROVE  /\ Finished(hs, h) \in [Handle -> PGconn]
         /\ \A k \in Handle : k # h => Finished(hs, h)[k] = hs[k]
         /\ h \in Handle => Finished(hs, h)[h].status = "finished"
  BY ConnectionAssumption DEF Finished, PGconn

LEMMA ProcessingTyped ==
  ASSUME NEW hs \in [Handle -> PGconn], NEW h, NEW c \in Conn \cup {Null}
  PROVE  /\ Processing(hs, h, c) \in [Handle -> PGconn]
         /\ \A k \in Handle : Processing(hs, h, c)[k].status = hs[k].status
  BY DEF Processing, PGconn

-----------------------------------------------------------------------------
(* A step that leaves lives and handles of objects, and whether handles are  *)
(* finished, as they were.                                                   *)
LEMMA NothingOwned ==
  ASSUME OwnerInv, Shape',
         \A c \in Conn : /\ conns'[c].life = conns[c].life
                         /\ conns'[c].handle = conns[c].handle,
         \A h \in Handle : handles'[h].status \in {"ok", "bad"} <=>
                           handles[h].status \in {"ok", "bad"}
  PROVE  OwnerInv'
<1>1. Living' = Living
  BY DEF Living
<1>2. \A c \in Living : c \in Conn /\ conns[c].handle \in Handle \cup {Null}
  BY DEF Living, OwnerInv, Shape, Objects
<1>3. \A c \in Living : conns'[c].handle = conns[c].handle
  BY <1>2
<1>4. HandlesAreOwned'
  <2>1. ASSUME NEW h \in Handle, handles'[h].status \in {"ok", "bad"}
        PROVE  \E c \in Living' : /\ conns'[c].handle = h
                                  /\ \A d \in Living' \ {c} : conns'[d].handle # h
    <3>1. PICK c \in Living : /\ conns[c].handle = h
                              /\ \A d \in Living \ {c} : conns[d].handle # h
      BY <2>1 DEF OwnerInv, HandlesAreOwned
    <3> QED
      BY <1>1, <1>3, <3>1
  <2>2. ASSUME NEW c \in Living', conns'[c].handle # Null
        PROVE  handles'[conns'[c].handle].status \in {"ok", "bad"}
    BY <1>1, <1>2, <1>3, <2>2 DEF OwnerInv, HandlesAreOwned
  <2> QED
    BY <2>1, <2>2 DEF HandlesAreOwned
<1> QED
  BY <1>4 DEF OwnerInv

LEMMA OwnerInit == ConnectionInit => OwnerInv
<1> SUFFICES ASSUME ConnectionInit PROVE OwnerInv
  OBVIOUS
<1>1. Owns([NewConnection EXCEPT !.life = "none"], "none", Null)
  BY NewOwns, LifeSet
<1>2. \A c \in Conn : conns[c] = [NewConnection EXCEPT !.life = "none"]
  BY DEF ConnectionInit
<1>3. \A c \in Conn : Owns(conns[c], "none", Null)
  BY <1>1, <1>2
<1>4. \A c \in Conn : conns[c].life = "none" /\ conns[c].handle = Null
  BY <1>3 DEF Owns
<1>5. Objects(conns)
  <2>1. conns = [c \in Conn |-> conns[c]]
    BY DEF ConnectionInit
  <2> QED
    BY <1>3, <1>4, <2>1 DEF Objects
<1>6. /\ handles \in [Handle -> PGconn]
      /\ \A h \in Handle : handles[h].status = "none"
  BY DEF ConnectionInit, PGconn
<1> QED
  BY <1>4, <1>5, <1>6 DEF OwnerInv, Shape, HandlesAreOwned, Living

-----------------------------------------------------------------------------
(* One object loses its handle, which is finished: close, the destructor, and *)
(* an object assigned to itself.                                              *)
LEMMA OwnerCloses ==
  ASSUME OwnerInv, NEW c \in Living, NEW r, NEW life \in {"alive", "gone"},
         Owns(r, life, Null),
         conns' = [conns EXCEPT ![c] = r],
         handles' = Finished(handles, conns[c].handle)
  PROVE  OwnerInv'
<1> USE ConnectionAssumption
<1>1. /\ c \in Conn /\ conns[c].handle \in Handle \cup {Null}
      /\ handles' \in [Handle -> PGconn]
      /\ \A k \in Handle : k # conns[c].handle => handles'[k] = handles[k]
      /\ conns[c].handle \in Handle => handles'[conns[c].handle].status = "finished"
  BY FinishedTyped DEF Living, OwnerInv, Shape, Objects
<1>2. /\ Objects(conns') /\ conns'[c].handle = Null
      /\ \A d \in Conn \ {c} : conns'[d] = conns[d]
  <2>1. conns' = Put(conns, c, r)
    BY DEF Put
  <2>2. Objects(conns) /\ life \in {"none", "alive", "gone"}
    BY DEF OwnerInv, Shape
  <2>3. /\ Objects(Put(conns, c, r)) /\ Put(conns, c, r)[c].handle = Null
        /\ \A d \in Conn \ {c} : Put(conns, c, r)[d] = conns[d]
    BY <1>1, <2>2, ObjectPut
  <2> QED
    BY <2>1, <2>3
<1>3. Living' \ {c} = Living \ {c}
  BY <1>2 DEF Living
<1>4. HandlesAreOwned'
  <2>1. ASSUME NEW h \in Handle, handles'[h].status \in {"ok", "bad"}
        PROVE  \E o \in Living' : /\ conns'[o].handle = h
                                  /\ \A d \in Living' \ {o} : conns'[d].handle # h
    <3>1. h # conns[c].handle /\ handles'[h] = handles[h] /\ h # Null
      BY <1>1, <2>1
    <3>2. PICK o \in Living : /\ conns[o].handle = h
                              /\ \A d \in Living \ {o} : conns[d].handle # h
      BY <2>1, <3>1 DEF OwnerInv, HandlesAreOwned
    <3>3. o \in Living' \ {c} /\ conns'[o].handle = h
      BY <1>2, <1>3, <3>1, <3>2 DEF Living
    <3>4. \A d \in Living' \ {o} : conns'[d].handle # h
      BY <1>2, <1>3, <3>1, <3>2 DEF Living
    <3> QED
      BY <3>3, <3>4
  <2>2. ASSUME NEW o \in Living', conns'[o].handle # Null
        PROVE  handles'[conns'[o].handle].status \in {"ok", "bad"}
    <3>1. o \in Living /\ o # c /\ conns'[o] = conns[o] /\ conns[o].handle \in Handle
      BY <1>2, <1>3, <2>2 DEF Living, OwnerInv, Shape, Objects
    <3>2. handles[conns[o].handle].status \in {"ok", "bad"}
      BY <2>2, <3>1 DEF OwnerInv, HandlesAreOwned
    <3>3. conns[o].handle # conns[c].handle
      BY <3>1, <3>2 DEF OwnerInv, HandlesAreOwned
    <3> QED
      BY <1>1, <3>1, <3>2, <3>3
  <2> QED
    BY <2>1, <2>2 DEF HandlesAreOwned
<1> QED
  BY <1>1, <1>2, <1>4 DEF OwnerInv, Shape

(* A handle goes from one object to another, which gives up its own if it     *)
(* had one: the move constructor and move assignment.                         *)
LEMMA OwnerMoves ==
  ASSUME OwnerInv, NEW c \in Conn, NEW rhs \in Living, c # rhs,
         conns' = [conns EXCEPT ![c] = TakenFrom(rhs), ![rhs] = MovedFrom(rhs)],
         \/ conns[c].life = "none" /\ UNCHANGED handles
         \/ c \in Living /\ handles' = Finished(handles, conns[c].handle)
  PROVE  OwnerInv'
<1> USE ConnectionAssumption
<1>1. /\ rhs \in Conn /\ conns[rhs].life = "alive"
      /\ conns[c].handle \in Handle \cup {Null}
      /\ conns[rhs].handle \in Handle \cup {Null}
      /\ Objects(conns) /\ handles \in [Handle -> PGconn]
  BY DEF Living, OwnerInv, Shape, Objects
<1>2. /\ Objects(conns')
      /\ conns'[c].handle = conns[rhs].handle /\ conns'[c].life = "alive"
      /\ conns'[rhs].handle = Null /\ conns'[rhs].life = "alive"
      /\ \A d \in Conn \ {c, rhs} : conns'[d] = conns[d]
  <2> DEFINE half == Put(conns, c, TakenFrom(rhs))
  <2>1. /\ Objects(half) /\ half[c].life = "alive" /\ half[c].handle = conns[rhs].handle
        /\ \A d \in Conn \ {c} : half[d] = conns[d]
    BY <1>1, TakenOwns, ObjectPut
  <2>2. conns' = Put(half, rhs, MovedFrom(rhs))
    BY DEF Put
  <2>3. Owns(MovedFrom(rhs), "alive", Null)
    BY <1>1, HandleSet DEF MovedFrom, Objects
  <2> HIDE DEF half
  <2>4. /\ Objects(conns') /\ conns'[rhs].life = "alive" /\ conns'[rhs].handle = Null
        /\ \A d \in Conn \ {rhs} : conns'[d] = half[d]
    <3> DEFINE whole == Put(half, rhs, MovedFrom(rhs))
    <3>1. /\ Objects(whole) /\ whole[rhs].life = "alive" /\ whole[rhs].handle = Null
          /\ \A d \in Conn \ {rhs} : whole[d] = half[d]
      BY <1>1, <2>1, <2>3, ObjectPut
    <3> QED
      BY <2>2, <3>1
  <2> QED
    BY <1>1, <2>1, <2>4
<1>3. Living' = Living \cup {c}
  BY <1>1, <1>2 DEF Living
<1>4. /\ handles' \in [Handle -> PGconn]
      /\ c \in Living => /\ \A k \in Handle : k # conns[c].handle => handles'[k] = handles[k]
                         /\ conns[c].handle \in Handle =>
                              handles'[conns[c].handle].status = "finished"
      /\ c \notin Living => handles' = handles
  BY <1>1, FinishedTyped DEF Living
<1>5. /\ \A o \in Living \ {c, rhs} : conns'[o].handle = conns[o].handle
      /\ \A o \in Living' : conns'[o].handle \in Handle \cup {Null}
  BY <1>2 DEF Living, Objects
<1>6. ASSUME NEW h \in Handle, handles'[h].status \in {"ok", "bad"}
      PROVE  \E o \in Living' : /\ conns'[o].handle = h
                                /\ \A d \in Living' \ {o} : conns'[d].handle # h
  <2>1. handles'[h] = handles[h] /\ h # Null /\ (c \in Living => h # conns[c].handle)
    BY <1>4, <1>6
  <2>2. PICK o \in Living : /\ conns[o].handle = h
                            /\ \A d \in Living \ {o} : conns[d].handle # h
    BY <1>6, <2>1 DEF OwnerInv, HandlesAreOwned
  <2>3. o # c
    BY <2>1, <2>2
  <2>4. CASE o = rhs
    <3>1. ASSUME NEW d \in Living' \ {c} PROVE conns'[d].handle # h
      <4>1. CASE d = rhs
        BY <1>2, <2>1, <4>1
      <4>2. CASE d # rhs
        <5>1. d \in Living \ {c, rhs}
          BY <1>3, <4>2
        <5>2. conns[d].handle # h
          BY <2>2, <2>4, <5>1
        <5> QED
          BY <1>5, <5>1, <5>2
      <4> QED
        BY <4>1, <4>2
    <3>2. c \in Living' /\ conns'[c].handle = h
      BY <1>2, <1>3, <2>2, <2>4
    <3> QED
      BY <3>1, <3>2
  <2>5. CASE o # rhs
    <3>1. conns'[o].handle = h /\ o \in Living'
      BY <1>3, <1>5, <2>2, <2>3, <2>5
    <3>2. conns[rhs].handle # h
      BY <2>2, <2>5
    <3>3. ASSUME NEW d \in Living' \ {o} PROVE conns'[d].handle # h
      <4>1. CASE d \in {c, rhs}
        BY <1>2, <2>1, <3>2, <4>1
      <4>2. CASE d \notin {c, rhs}
        <5>1. d \in Living \ {c, rhs}
          BY <1>3, <4>2
        <5>2. conns[d].handle # h
          BY <2>2, <5>1
        <5> QED
          BY <1>5, <5>1, <5>2
      <4> QED
        BY <4>1, <4>2
    <3> QED
      BY <3>1, <3>3
  <2> QED
    BY <2>4, <2>5
<1>7. ASSUME NEW o \in Living', conns'[o].handle # Null
      PROVE  handles'[conns'[o].handle].status \in {"ok", "bad"}
  <2>1. PICK p \in Living : p # c /\ conns[p].handle = conns'[o].handle
    BY <1>1, <1>2, <1>3, <1>5, <1>7
  <2>2. /\ conns[p].handle \in Handle
        /\ handles[conns[p].handle].status \in {"ok", "bad"}
    BY <1>5, <1>7, <2>1 DEF OwnerInv, HandlesAreOwned
  <2>3. c \in Living => conns[c].handle # conns[p].handle
    BY <2>1, <2>2 DEF OwnerInv, HandlesAreOwned
  <2> QED
    BY <1>4, <2>1, <2>2, <2>3
<1> QED
  BY <1>2, <1>4, <1>6, <1>7 DEF OwnerInv, Shape, HandlesAreOwned

-----------------------------------------------------------------------------
LEMMA OwnerNext == OwnerInv /\ [ConnectionNext]_connVars => OwnerInv'
<1> SUFFICES ASSUME OwnerInv, [ConnectionNext]_connVars
             PROVE  OwnerInv'
  OBVIOUS
<1> USE ConnectionAssumption
<1>1. CASE Connect
  <2>1. PICK c \in Conn, h \in Handle :
          /\ conns[c].life = "none" /\ handles[h].status = "none"
          /\ \/ /\ handles' = [handles EXCEPT ![h].status = "ok"]
                /\ conns' = [conns EXCEPT ![c] = [NewConnection EXCEPT !.handle = h]]
             \/ handles' = Finished(handles, h) /\ UNCHANGED conns
    BY <1>1 DEF Connect
  <2>2. CASE /\ handles' = [handles EXCEPT ![h].status = "ok"]
             /\ conns' = [conns EXCEPT ![c] = [NewConnection EXCEPT !.handle = h]]
    <3>1. /\ Objects(conns') /\ conns'[c].handle = h /\ conns'[c].life = "alive"
          /\ \A d \in Conn \ {c} : conns'[d] = conns[d]
      <4>1. conns' = Put(conns, c, [NewConnection EXCEPT !.handle = h])
        BY <2>2 DEF Put
      <4>2. Owns([NewConnection EXCEPT !.handle = h], "alive", h)
        BY NewOwns
      <4> QED
        BY <4>1, <4>2, ObjectPut DEF OwnerInv, Shape
    <3>2. /\ handles' \in [Handle -> PGconn] /\ handles'[h].status = "ok"
          /\ \A k \in Handle \ {h} : handles'[k] = handles[k]
      BY <2>2 DEF OwnerInv, Shape, PGconn
    <3>3. Living' = Living \cup {c} /\ c \notin Living
      BY <2>1, <3>1 DEF Living
    <3>4. \A d \in Living : conns[d].handle # h
      BY <2>1 DEF OwnerInv, HandlesAreOwned
    <3>5. \A d \in Living : conns'[d] = conns[d]
      BY <3>1, <3>3 DEF Living
    <3>6. ASSUME NEW k \in Handle, handles'[k].status \in {"ok", "bad"}
          PROVE  \E o \in Living' : /\ conns'[o].handle = k
                                    /\ \A d \in Living' \ {o} : conns'[d].handle # k
      <4>1. CASE k = h
        BY <3>1, <3>3, <3>4, <3>5, <4>1
      <4>2. CASE k # h
        <5>1. PICK o \in Living : /\ conns[o].handle = k
                                  /\ \A d \in Living \ {o} : conns[d].handle # k
          BY <3>2, <3>6, <4>2 DEF OwnerInv, HandlesAreOwned
        <5> QED
          BY <3>1, <3>3, <3>5, <4>2, <5>1
      <4> QED
        BY <4>1, <4>2
    <3>7. ASSUME NEW o \in Living', conns'[o].handle # Null
          PROVE  handles'[conns'[o].handle].status \in {"ok", "bad"}
      <4>1. CASE o = c
        BY <3>1, <3>2, <4>1
      <4>2. CASE o # c
        <5>1. o \in Living /\ conns'[o] = conns[o] /\ conns[o].handle \in Handle
          BY <3>1, <3>3, <3>7, <4>2 DEF OwnerInv, Shape, Objects, Living
        <5> QED
          BY <3>2, <3>4, <3>7, <5>1 DEF OwnerInv, HandlesAreOwned
      <4> QED
        BY <4>1, <4>2
    <3> QED
      BY <3>1, <3>2, <3>6, <3>7 DEF OwnerInv, Shape, HandlesAreOwned
  <2>3. CASE handles' = Finished(handles, h) /\ UNCHANGED conns
    <3>1. /\ handles' \in [Handle -> PGconn] /\ handles'[h].status = "finished"
          /\ \A k \in Handle : k # h => handles'[k] = handles[k]
      BY <2>3, FinishedTyped DEF OwnerInv, Shape
    <3>2. Shape'
      BY <2>3, <3>1 DEF OwnerInv, Shape
    <3> QED
      BY <2>1, <2>3, <3>1, <3>2, NothingOwned
  <2> QED
    BY <2>1, <2>2, <2>3
<1>2. \A c \in Living : /\ c \in Conn
                        /\ Owns(conns[c], "alive", conns[c].handle)
                        /\ Owns(ClosedConnection(c), "alive", Null)
                        /\ Owns([ClosedConnection(c) EXCEPT !.life = "gone"], "gone", Null)
  <2> SUFFICES ASSUME NEW c \in Living
               PROVE  /\ c \in Conn
                      /\ Owns(conns[c], "alive", conns[c].handle)
                      /\ Owns(ClosedConnection(c), "alive", Null)
                      /\ Owns([ClosedConnection(c) EXCEPT !.life = "gone"], "gone", Null)
    OBVIOUS
  <2>1. c \in Conn /\ Owns(conns[c], "alive", conns[c].handle)
    BY DEF Living, OwnerInv, Shape, Objects
  <2>2. Owns(ClosedConnection(c), "alive", Null)
    BY <2>1, ClosedOwns
  <2> QED
    BY <2>1, <2>2, LifeSet
<1>3. CASE Close
  <2>1. PICK c \in Living :
          /\ conns' = [conns EXCEPT ![c] = ClosedConnection(c)]
          /\ handles' = Finished(handles, conns[c].handle)
    BY <1>3 DEF Close
  <2> QED
    BY <1>2, <2>1, OwnerCloses
<1>4. CASE DestroyConnection
  <2>1. PICK c \in Living :
          /\ conns' = [conns EXCEPT ![c] = [ClosedConnection(c) EXCEPT !.life = "gone"]]
          /\ handles' = Finished(handles, conns[c].handle)
    BY <1>4 DEF DestroyConnection
  <2> QED
    BY <1>2, <2>1, OwnerCloses
<1>5. CASE MoveConstruct
  <2>1. PICK c \in Conn, rhs \in Living :
          /\ conns[c].life = "none" /\ UNCHANGED handles
          /\ conns' = [conns EXCEPT ![c] = TakenFrom(rhs), ![rhs] = MovedFrom(rhs)]
    BY <1>5 DEF MoveConstruct
  <2>2. c # rhs
    BY <2>1 DEF Living
  <2> QED
    BY <2>1, <2>2, OwnerMoves
<1>6. CASE MoveAssign
  <2>1. PICK c \in Living, rhs \in Living :
          /\ conns' = [conns EXCEPT
                         ![c] = IF c = rhs THEN ClosedConnection(c) ELSE TakenFrom(rhs),
                         ![rhs] = MovedFrom(rhs)]
          /\ handles' = Finished(handles, conns[c].handle)
    BY <1>6 DEF MoveAssign
  <2>2. CASE c # rhs
    BY <1>2, <2>1, <2>2, OwnerMoves
  <2>3. CASE c = rhs
    <3>1. Owns(MovedFrom(c), "alive", Null)
      BY <1>2, HandleSet DEF MovedFrom
    <3>2. conns' = [conns EXCEPT ![c] = MovedFrom(c)]
      BY <2>1, <2>3, <1>2 DEF OwnerInv, Shape, Objects
    <3> QED
      BY <2>1, <3>1, <3>2, OwnerCloses
  <2> QED
    BY <2>2, <2>3
<1>7. ASSUME NEW x, NEW r, conns' = [conns EXCEPT ![x] = r],
             x \in Conn => Owns(r, conns[x].life, conns[x].handle),
             handles' \in [Handle -> PGconn],
             \A h \in Handle : handles'[h].status = handles[h].status
      PROVE  OwnerInv'
  <2>1. /\ Objects(conns')
        /\ \A d \in Conn : /\ conns'[d].life = conns[d].life
                           /\ conns'[d].handle = conns[d].handle
    <3>1. conns' = Put(conns, x, r)
      BY <1>7 DEF Put
    <3>2. Objects(conns)
      BY DEF OwnerInv, Shape
    <3>3. /\ Objects(Put(conns, x, r))
          /\ \A d \in Conn : /\ Put(conns, x, r)[d].life = conns[d].life
                             /\ Put(conns, x, r)[d].handle = conns[d].handle
      BY <1>7, <3>2, FieldPut
    <3> QED
      BY <3>1, <3>3
  <2> QED
    BY <1>7, <2>1, NothingOwned DEF Shape
<1>8. \A x \in Conn : Owns(conns[x], conns[x].life, conns[x].handle)
  BY DEF OwnerInv, Shape, Objects
<1>9. CASE AddHandler
  <2>1. PICK e \in Handler, c \in Living :
          /\ conns' = [conns EXCEPT ![c] = [conns[c] EXCEPT !.handlers = Append(@, e)]]
          /\ handles' = IF conns[c].handlers = << >>
                          THEN Processing(handles, conns[c].handle, c) ELSE handles
    BY <1>9 DEF AddHandler
  <2>2. Owns([conns[c] EXCEPT !.handlers = Append(@, e)], conns[c].life, conns[c].handle)
    BY <1>2, <1>8, OtherSet
  <2>3. c \in Conn \cup {Null} /\ handles \in [Handle -> PGconn]
    BY <1>2 DEF OwnerInv, Shape
  <2>4. /\ handles' \in [Handle -> PGconn]
        /\ \A h \in Handle : handles'[h].status = handles[h].status
    BY <2>1, <2>3, ProcessingTyped
  <2> QED
    BY <1>7, <2>1, <2>2, <2>4
<1>10. CASE RemoveHandler
  <2>1. PICK e \in Handler :
          /\ conns' = [conns EXCEPT ![home[e]] =
                         [conns[home[e]] EXCEPT !.handlers = ChainWithout(home[e], e)]]
          /\ handles' = ProcessorAfter(home[e], ChainWithout(home[e], e))
    BY <1>10 DEF RemoveHandler
  <2> DEFINE r == [conns[home[e]] EXCEPT !.handlers = ChainWithout(home[e], e)]
  <2>2. home[e] \in Conn => Owns(r, conns[home[e]].life, conns[home[e]].handle)
    BY <1>8, OtherSet
  <2>3. /\ handles' \in [Handle -> PGconn]
        /\ \A h \in Handle : handles'[h].status = handles[h].status
    BY <2>1, ProcessingTyped DEF ProcessorAfter, OwnerInv, Shape
  <2> QED
    BY <1>7, <2>1, <2>2, <2>3
<1>11. CASE Register
  <2>1. PICK t \in Trans, c \in Living :
          conns' = [conns EXCEPT ![c] = [conns[c] EXCEPT !.trans = t]]
    BY <1>11 DEF Register
  <2>2. Owns([conns[c] EXCEPT !.trans = t], conns[c].life, conns[c].handle)
    BY <1>2, <1>8, OtherSet
  <2>3. UNCHANGED handles
    BY <1>11 DEF Register
  <2> QED
    BY <1>7, <2>1, <2>2, <2>3 DEF OwnerInv, Shape
<1>12. CASE Unregister
  <2>1. PICK t \in Trans :
          conns' = [conns EXCEPT ![user[t]] = [conns[user[t]] EXCEPT !.trans = Null]]
    BY <1>12 DEF Unregister
  <2>2. user[t] \in Conn =>
          Owns([conns[user[t]] EXCEPT !.trans = Null],
               conns[user[t]].life, conns[user[t]].handle)
    BY <1>8, OtherSet
  <2>3. UNCHANGED handles
    BY <1>12 DEF Unregister
  <2> QED
    BY <1>7, <2>1, <2>2, <2>3 DEF OwnerInv, Shape
<1>13. CASE AdornName
  <2>1. PICK c \in Living :
          conns' = [conns EXCEPT ![c] = [conns[c] EXCEPT !.id = @ + 1]]
    BY <1>13 DEF AdornName
  <2>2. Owns([conns[c] EXCEPT !.id = @ + 1], conns[c].life, conns[c].handle)
    BY <1>2, <1>8, OtherSet
  <2>3. UNCHANGED handles
    BY <1>13 DEF AdornName
  <2> QED
    BY <1>7, <2>1, <2>2, <2>3 DEF OwnerInv, Shape
<1>14. CASE Execute
  <2>1. PICK c \in Living : ExecuteOn(c)
    BY <1>14 DEF Execute
  <2>2. UNCHANGED conns
    BY <2>1 DEF ExecuteOn
  <2>3. conns[c].handle # Null => /\ conns[c].handle \in Handle
                                  /\ handles[conns[c].handle].status \in {"ok", "bad"}
    BY DEF OwnerInv, HandlesAreOwned, Living, Shape, Objects
  <2>4. \/ handles' = handles
        \/ /\ conns[c].handle # Null
           /\ handles' = [handles EXCEPT ![conns[c].handle].status = "bad"]
    BY <2>1 DEF ExecuteOn
  <2>5. /\ handles' \in [Handle -> PGconn]
        /\ \A h \in Handle : handles'[h].status \in {"ok", "bad"} <=>
                             handles[h].status \in {"ok", "bad"}
    BY <2>3, <2>4 DEF OwnerInv, Shape, PGconn
  <2>6. Shape'
    BY <2>2, <2>5 DEF OwnerInv, Shape
  <2> QED
    BY <2>2, <2>5, <2>6, NothingOwned
<1>15. CASE UNCHANGED connVars
  BY <1>15 DEF connVars, OwnerInv, Shape, HandlesAreOwned, Living
<1> QED
  BY <1>1, <1>3, <1>4, <1>5, <1>6, <1>9, <1>10, <1>11, <1>12, <1>13, <1>14, <1>15
     DEF ConnectionNext

(* Through all moves, a handle that is not finished has exactly one owner,   *)
(* and no one has a finished one (connection.cxx: the constructors, operator=*)
(* and close).                                                               *)
THEOREM HandlesAlwaysOwned == ConnectionSpec => []HandlesAreOwned
<1>1. OwnerInv => HandlesAreOwned
  BY DEF OwnerInv
<1> QED
  BY OwnerInit, OwnerNext, <1>1, PTL DEF ConnectionSpec

-----------------------------------------------------------------------------
(***************************************************************************)
(* What belongs to a session moves with it.  Where the notices go depends  *)
(* on who owns the handle, and that names are unique on the counter never  *)
(* being behind the names used in the session.                             *)
(***************************************************************************)
NamesAreBehind ==
  /\ \A h \in Handle : handles[h].status = "none" => named[h] = << >>
  /\ \A c \in Living : conns[c].handle # Null =>
       \A i \in DOMAIN named[conns[c].handle] :
         named[conns[c].handle][i] <= conns[c].id

MovesInv ==
  /\ ConnectionTypeOK /\ HandlesAreOwned
  /\ MovesAreWhole /\ NamesAreBehind

-----------------------------------------------------------------------------
(* The objects that the steps put into conns, field by field. *)
Is(r, life, h, t, chain, id) ==
  /\ r \in Connection /\ r.life = life /\ r.handle = h
  /\ r.trans = t /\ r.handlers = chain /\ r.id = id

WithLife(r, l)     == [r EXCEPT !.life = l]
WithHandle(r, h)   == [r EXCEPT !.handle = h]
WithTrans(r, t)    == [r EXCEPT !.trans = t]
WithHandlers(r, s) == [r EXCEPT !.handlers = s]
WithId(r, i)       == [r EXCEPT !.id = i]

LEMMA FieldIs ==
  ASSUME NEW r \in Connection
  PROVE  /\ \A l \in {"none", "alive", "gone"} :
              Is(WithLife(r, l), l, r.handle, r.trans, r.handlers, r.id)
         /\ \A h \in Handle \cup {Null} :
              Is(WithHandle(r, h), r.life, h, r.trans, r.handlers, r.id)
         /\ \A t \in Trans \cup {Null} :
              Is(WithTrans(r, t), r.life, r.handle, t, r.handlers, r.id)
         /\ \A s \in Seq(Handler) :
              Is(WithHandlers(r, s), r.life, r.handle, r.trans, s, r.id)
         /\ \A i \in 0 .. MaxNames :
              Is(WithId(r, i), r.life, r.handle, r.trans, r.handlers, i)
<1>1. ASSUME NEW l \in {"none", "alive", "gone"}
      PROVE  Is(WithLife(r, l), l, r.handle, r.trans, r.handlers, r.id)
  BY DEF Connection, Is, WithLife
<1>2. ASSUME NEW h \in Handle \cup {Null}
      PROVE  Is(WithHandle(r, h), r.life, h, r.trans, r.handlers, r.id)
  BY DEF Connection, Is, WithHandle
<1>3. ASSUME NEW t \in Trans \cup {Null}
      PROVE  Is(WithTrans(r, t), r.life, r.handle, t, r.handlers, r.id)
  BY DEF Connection, Is, WithTrans
<1>4. ASSUME NEW s \in Seq(Handler)
      PROVE  Is(WithHandlers(r, s), r.life, r.handle, r.trans, s, r.id)
  BY DEF Connection, Is, WithHandlers
<1>5. ASSUME NEW i \in 0 .. MaxNames
      PROVE  Is(WithId(r, i), r.life, r.handle, r.trans, r.handlers, i)
  BY DEF Connection, Is, WithId
<1> QED
  BY <1>1, <1>2, <1>3, <1>4, <1>5

LEMMA NewIs ==
  /\ Is(NewConnection, "alive", Null, Null, << >>, 0)
  /\ \A h \in Handle \cup {Null} :
       Is(WithHandle(NewConnection, h), "alive", h, Null, << >>, 0)
  /\ Is(WithLife(NewConnection, "none"), "none", Null, Null, << >>, 0)
<1>1. Is(NewConnection, "alive", Null, Null, << >>, 0)
  BY ConnectionAssumption DEF Is, NewConnection, Connection
<1> QED
  BY <1>1, FieldIs DEF Is

LEMMA ClosedIs ==
  ASSUME conns \in [Conn -> Connection], NEW c \in Conn
  PROVE  /\ Is(ClosedConnection(c), conns[c].life, Null, conns[c].trans, << >>,
               conns[c].id)
         /\ Is(WithLife(ClosedConnection(c), "gone"), "gone", Null,
               conns[c].trans, << >>, conns[c].id)
<1>1. /\ conns[c] \in Connection /\ << >> \in Seq(Handler)
      /\ ClosedConnection(c) = WithHandle(WithHandlers(conns[c], << >>), Null)
  BY DEF ClosedConnection, WithHandle, WithHandlers
<1> DEFINE r == WithHandlers(conns[c], << >>)
<1>2. Is(r, conns[c].life, conns[c].handle, conns[c].trans, << >>, conns[c].id)
  BY <1>1, FieldIs
<1>3. r \in Connection /\ ClosedConnection(c) = WithHandle(r, Null)
  BY <1>1, <1>2 DEF Is
<1> HIDE DEF r
<1>4. Is(ClosedConnection(c), conns[c].life, Null, conns[c].trans, << >>, conns[c].id)
  <2>1. Is(WithHandle(r, Null), r.life, Null, r.trans, r.handlers, r.id)
    BY <1>3, FieldIs
  <2>2. /\ r.life = conns[c].life /\ r.trans = conns[c].trans
        /\ r.handlers = << >> /\ r.id = conns[c].id
    BY <1>2 DEF Is
  <2> QED
    BY <1>3, <2>1, <2>2
<1> QED
  BY <1>4, FieldIs DEF Is

LEMMA MovedIs ==
  ASSUME conns \in [Conn -> Connection], NEW c \in Conn
  PROVE  /\ Is(TakenFrom(c), "alive", conns[c].handle, Null, << >>, conns[c].id)
         /\ Is(MovedFrom(c), conns[c].life, Null, conns[c].trans,
               conns[c].handlers, conns[c].id)
<1>1. /\ conns[c] \in Connection
      /\ TakenFrom(c) = WithId(WithHandle(NewConnection, conns[c].handle), conns[c].id)
      /\ MovedFrom(c) = WithHandle(conns[c], Null)
  BY DEF TakenFrom, MovedFrom, WithId, WithHandle
<1>2. conns[c].handle \in Handle \cup {Null} /\ conns[c].id \in 0 .. MaxNames
  BY <1>1 DEF Connection
<1>3. Is(TakenFrom(c), "alive", conns[c].handle, Null, << >>, conns[c].id)
  <2> DEFINE r == WithHandle(NewConnection, conns[c].handle)
  <2>1. Is(r, "alive", conns[c].handle, Null, << >>, 0)
    BY <1>2, NewIs
  <2>2. r \in Connection /\ TakenFrom(c) = WithId(r, conns[c].id)
    BY <1>1, <2>1 DEF Is
  <2> HIDE DEF r
  <2>3. Is(WithId(r, conns[c].id), r.life, r.handle, r.trans, r.handlers, conns[c].id)
    BY <1>2, <2>2, FieldIs
  <2>4. /\ r.life = "alive" /\ r.handle = conns[c].handle /\ r.trans = Null
        /\ r.handlers = << >>
    BY <2>1 DEF Is
  <2> QED
    BY <2>2, <2>3, <2>4
<1>4. Is(MovedFrom(c), conns[c].life, Null, conns[c].trans, conns[c].handlers,
         conns[c].id)
  BY <1>1, FieldIs
<1> QED
  BY <1>3, <1>4

LEMMA ConnPut ==
  ASSUME NEW cs \in [Conn -> Connection], NEW x \in Conn, NEW r \in Connection
  PROVE  /\ Put(cs, x, r) \in [Conn -> Connection]
         /\ Put(cs, x, r)[x] = r
         /\ \A d \in Conn \ {x} : Put(cs, x, r)[d] = cs[d]
  BY DEF Put

(* The chain of handlers. *)
LEMMA ChainAppended ==
  ASSUME NEW s \in Seq(Handler), NEW e \in Handler, IsInjective(s), e \notin ToSet(s)
  PROVE  /\ Append(s, e) \in Seq(Handler) /\ IsInjective(Append(s, e))
         /\ ToSet(Append(s, e)) = ToSet(s) \cup {e} /\ Append(s, e) # << >>
  BY DEF ToSet, IsInjective

LEMMA ChainRemoved ==
  ASSUME NEW s \in Seq(Handler), NEW e \in ToSet(s), IsInjective(s)
  PROVE  LET rest == RemoveAt(s, CHOOSE i \in DOMAIN s : s[i] = e)
         IN /\ rest \in Seq(Handler) /\ IsInjective(rest)
            /\ ToSet(rest) = ToSet(s) \ {e}
<1> DEFINE n == CHOOSE i \in DOMAIN s : s[i] = e
           rest == RemoveAt(s, n)
<1>1. n \in 1 .. Len(s) /\ s[n] = e
  BY DEF ToSet
<1> HIDE DEF n
<1>2. /\ rest \in Seq(Handler) /\ Len(rest) = Len(s) - 1
      /\ \A i \in 1 .. Len(s) - 1 : rest[i] = IF i < n THEN s[i] ELSE s[i + 1]
  <2> DEFINE before == SubSeq(s, 1, n - 1)
             after == SubSeq(s, n + 1, Len(s))
  <2>1. /\ before \in Seq(Handler) /\ Len(before) = n - 1
        /\ \A i \in 1 .. n - 1 : before[i] = s[i]
    BY <1>1
  <2>2. /\ after \in Seq(Handler) /\ Len(after) = Len(s) - n
        /\ \A i \in 1 .. Len(s) - n : after[i] = s[n + i]
    BY <1>1
  <2>3. rest = before \o after
    BY DEF RemoveAt
  <2> HIDE DEF before, after
  <2>4. rest \in Seq(Handler) /\ Len(rest) = Len(s) - 1
    BY <1>1, <2>1, <2>2, <2>3
  <2>5. ASSUME NEW i \in 1 .. Len(s) - 1
        PROVE  rest[i] = IF i < n THEN s[i] ELSE s[i + 1]
    <3>1. CASE i < n
      BY <1>1, <2>1, <2>2, <2>3, <3>1
    <3>2. CASE i >= n
      <4>1. rest[i] = after[i - (n - 1)]
        <5>1. \A j \in 1 .. Len(before) + Len(after) :
                rest[j] = IF j <= Len(before) THEN before[j] ELSE after[j - Len(before)]
          BY <2>1, <2>2, <2>3, ConcatProperties
        <5>2. i \in 1 .. Len(before) + Len(after) /\ ~(i <= Len(before))
          BY <1>1, <2>1, <2>2, <3>2
        <5> QED
          BY <2>1, <5>1, <5>2
      <4>2. i - (n - 1) \in 1 .. Len(s) - n /\ n + (i - (n - 1)) = i + 1
        BY <1>1, <3>2
      <4> QED
        BY <1>1, <2>2, <3>2, <4>1, <4>2
    <3> QED
      BY <1>1, <3>1, <3>2
  <2> QED
    BY <2>4, <2>5
<1> HIDE DEF rest
<1>3. IsInjective(rest)
  BY <1>1, <1>2, SMTT(30) DEF IsInjective
<1>4. ToSet(rest) \subseteq ToSet(s) \ {e}
  BY <1>1, <1>2, SMTT(30) DEF IsInjective, ToSet
<1>5. ASSUME NEW i \in 1 .. Len(s), i # n PROVE s[i] \in ToSet(rest)
  <2>1. CASE i < n
    <3>1. i \in DOMAIN rest /\ rest[i] = s[i]
      BY <1>1, <1>2, <2>1
    <3> QED
      BY <3>1 DEF ToSet
  <2>2. CASE i > n
    <3>1. i - 1 \in DOMAIN rest /\ rest[i - 1] = s[i]
      BY <1>1, <1>2, <2>2
    <3> QED
      BY <3>1 DEF ToSet
  <2> QED
    BY <1>1, <1>5, <2>1, <2>2
<1>6. ToSet(s) \ {e} \subseteq ToSet(rest)
  BY <1>1, <1>5 DEF ToSet
<1> QED
  BY <1>2, <1>3, <1>4, <1>6 DEF rest, n

LEMMA NamesAppended ==
  ASSUME NEW s \in Seq(1 .. MaxNames), NEW id \in 0 .. MaxNames - 1, IsInjective(s),
         \A i \in DOMAIN s : s[i] <= id
  PROVE  /\ Append(s, id + 1) \in Seq(1 .. MaxNames)
         /\ IsInjective(Append(s, id + 1))
         /\ \A i \in DOMAIN Append(s, id + 1) : Append(s, id + 1)[i] <= id + 1
  BY ConnectionAssumption, SMTT(30) DEF IsInjective

(* PQfinish and PQsetNoticeProcessor, to the end. *)
LEMMA FinishedProcessor ==
  ASSUME NEW hs \in [Handle -> PGconn], NEW h \in Handle \cup {Null}
  PROVE  h \in Handle => Finished(hs, h)[h].processor = Null
  BY ConnectionAssumption DEF Finished, PGconn

LEMMA ProcessingSet ==
  ASSUME NEW hs \in [Handle -> PGconn], NEW h \in Handle \cup {Null},
         NEW c \in Conn \cup {Null}
  PROVE  \A k \in Handle :
           Processing(hs, h, c)[k].processor = IF k = h THEN c ELSE hs[k].processor
  BY ConnectionAssumption DEF Processing, PGconn

(* Two objects never share a handle. *)
LEMMA OneOwner ==
  ASSUME ConnectionTypeOK, HandlesAreOwned, NEW c \in Living, conns[c].handle # Null
  PROVE  /\ conns[c].handle \in Handle
         /\ handles[conns[c].handle].status \in {"ok", "bad"}
         /\ \A d \in Living : conns[d].handle = conns[c].handle => d = c
<1>1. /\ conns[c].handle \in Handle
      /\ handles[conns[c].handle].status \in {"ok", "bad"}
  BY DEF Living, ConnectionTypeOK, Connection, HandlesAreOwned
<1> QED
  BY <1>1 DEF HandlesAreOwned

LEMMA MovesInvOwns == MovesInv => OwnerInv
<1> SUFFICES ASSUME MovesInv PROVE OwnerInv
  OBVIOUS
<1>1. conns \in [Conn -> Connection] /\ handles \in [Handle -> PGconn]
  BY DEF MovesInv, ConnectionTypeOK
<1>2. ASSUME NEW c \in Conn
      PROVE  /\ Owns(conns[c], conns[c].life, conns[c].handle)
             /\ conns[c].life \in {"none", "alive", "gone"}
             /\ conns[c].handle \in Handle \cup {Null}
  <2>1. conns[c] \in Connection
    BY <1>1
  <2> QED
    BY <2>1 DEF Connection, Owns, Fields
<1> QED
  BY <1>1, <1>2 DEF MovesInv, OwnerInv, Shape, Objects

LEMMA MovesInit == ConnectionInit => MovesInv
<1> SUFFICES ASSUME ConnectionInit PROVE MovesInv
  OBVIOUS
<1> USE ConnectionAssumption
<1>1. \A c \in Conn : Is(conns[c], "none", Null, Null, << >>, 0)
  BY NewIs DEF ConnectionInit, WithLife
<1>2. conns \in [Conn -> Connection]
  <2>1. conns = [c \in Conn |-> conns[c]]
    BY DEF ConnectionInit
  <2> QED
    BY <1>1, <2>1 DEF Is
<1>3. /\ \A c \in Conn : conns[c].life = "none" /\ conns[c].handlers = << >>
      /\ Living = {}
  BY <1>1 DEF Is, Living
<1>4. /\ handles \in [Handle -> PGconn] /\ home \in [Handler -> Conn \cup {Null}]
      /\ user \in [Trans -> Conn \cup {Null}]
      /\ named \in [Handle -> Seq(1 .. MaxNames)] /\ lastExec = "none"
      /\ \A h \in Handle : /\ handles[h].status = "none" /\ handles[h].processor = Null
                           /\ named[h] = << >>
      /\ \A e \in Handler : home[e] = Null
      /\ \A t \in Trans : user[t] = Null
  BY DEF ConnectionInit, PGconn
<1>5. ConnectionTypeOK
  BY <1>2, <1>3, <1>4 DEF ConnectionTypeOK, IsInjective, ExecOutcome
<1>6. MovesAreWhole
  BY <1>3, <1>4
     DEF MovesAreWhole, HandlersAreHome, NoticesComeHome, TransactionsAgree,
         NamesAreUnique, IsInjective
<1> QED
  BY <1>3, <1>4, <1>5, <1>6 DEF MovesInv, HandlesAreOwned, NamesAreBehind

-----------------------------------------------------------------------------
(* An object is closed, destroyed, or assigned to itself. *)
LEMMA MovesCloses ==
  ASSUME MovesInv, OwnerInv', NEW c \in Living, NEW r,
         NEW life \in {"alive", "gone"},
         Is(r, life, Null, conns[c].trans, << >>, conns[c].id),
         conns' = [conns EXCEPT ![c] = r],
         handles' = Finished(handles, conns[c].handle),
         home' = HomesAfterClose(c),
         life = "gone" => \A t \in Trans : user[t] # c,
         UNCHANGED <<user, named, lastExec>>
  PROVE  MovesInv'
<1> USE ConnectionAssumption
<1>1. /\ c \in Conn /\ conns[c].life = "alive" /\ r \in Connection
      /\ conns \in [Conn -> Connection] /\ handles \in [Handle -> PGconn]
      /\ conns[c].handle \in Handle \cup {Null}
      /\ home \in [Handler -> Conn \cup {Null}]
  BY DEF Living, MovesInv, ConnectionTypeOK, Connection, Is
<1>2. /\ conns' \in [Conn -> Connection] /\ conns'[c] = r
      /\ \A d \in Conn \ {c} : conns'[d] = conns[d]
  BY <1>1, ConnPut DEF Put
<1>3. /\ conns'[c].life = life /\ conns'[c].handle = Null
      /\ conns'[c].trans = conns[c].trans /\ conns'[c].handlers = << >>
      /\ conns'[c].id = conns[c].id
  BY <1>2 DEF Is
<1>4. /\ handles' \in [Handle -> PGconn]
      /\ \A k \in Handle : k # conns[c].handle => handles'[k] = handles[k]
      /\ conns[c].handle \in Handle => /\ handles'[conns[c].handle].status = "finished"
                                       /\ handles'[conns[c].handle].processor = Null
  BY <1>1, FinishedTyped, FinishedProcessor
<1>5. /\ \A d \in Living' \ {c} : d \in Living /\ d \in Conn /\ conns'[d] = conns[d]
      /\ \A d \in Living \ {c} : d \in Living' /\ d \in Conn /\ conns'[d] = conns[d]
      /\ c \in Living' <=> life = "alive"
  BY <1>1, <1>2, <1>3 DEF Living
<1>6. ConnectionTypeOK'
  <2>1. home' \in [Handler -> Conn \cup {Null}]
    BY <1>1 DEF HomesAfterClose
  <2>2. ASSUME NEW d \in Conn PROVE IsInjective(conns'[d].handlers)
    <3>1. CASE d = c
      BY <1>3, <3>1 DEF IsInjective
    <3>2. CASE d # c
      BY <1>2, <3>2 DEF MovesInv, ConnectionTypeOK
    <3> QED
      BY <3>1, <3>2
  <2> QED
    BY <1>2, <1>4, <2>1, <2>2 DEF MovesInv, ConnectionTypeOK
<1>7. HandlersAreHome'
  <2> SUFFICES ASSUME NEW e \in Handler, NEW d \in Conn
               PROVE  home'[e] = d <=> d \in Living' /\ e \in ToSet(conns'[d].handlers)
    BY DEF HandlersAreHome
  <2>1. /\ home'[e] = IF e \in ToSet(conns[c].handlers) THEN Null ELSE home[e]
        /\ \A o \in Conn : home[e] = o <=> o \in Living /\ e \in ToSet(conns[o].handlers)
    BY DEF HomesAfterClose, MovesInv, MovesAreWhole, HandlersAreHome
  <2>2. CASE d = c
    <3>1. e \notin ToSet(conns'[c].handlers)
      BY <1>3 DEF ToSet
    <3> QED
      BY <1>1, <2>1, <2>2, <3>1
  <2>3. CASE d # c
    BY <1>1, <1>5, <2>1, <2>3
  <2> QED
    BY <2>2, <2>3
<1>8. NoticesComeHome'
  <2> SUFFICES ASSUME NEW h \in Handle, NEW d \in Conn
               PROVE  handles'[h].processor = d <=>
                        d \in Living' /\ conns'[d].handle = h /\ conns'[d].handlers # << >>
    BY DEF NoticesComeHome
  <2>1. \A o \in Conn : handles[h].processor = o <=>
          o \in Living /\ conns[o].handle = h /\ conns[o].handlers # << >>
    BY DEF MovesInv, MovesAreWhole, NoticesComeHome
  <2>2. CASE h = conns[c].handle
    BY <1>3, <1>4, <1>5, <2>2, OneOwner DEF MovesInv
  <2>3. CASE h # conns[c].handle
    BY <1>3, <1>4, <1>5, <2>1, <2>3
  <2> QED
    BY <2>2, <2>3
<1>9. TransactionsAgree'
  BY <1>3, <1>5 DEF MovesInv, MovesAreWhole, TransactionsAgree
<1>10. NamesAreUnique' /\ NamesAreBehind'
  <2>1. ASSUME NEW h \in Handle, handles'[h].status = "none" PROVE named'[h] = << >>
    BY <1>4, <2>1 DEF MovesInv, NamesAreBehind
  <2>2. ASSUME NEW d \in Living', conns'[d].handle # Null
        PROVE  \A i \in DOMAIN named'[conns'[d].handle] :
                 named'[conns'[d].handle][i] <= conns'[d].id
    BY <1>3, <1>5, <2>2 DEF MovesInv, NamesAreBehind
  <2> QED
    BY <2>1, <2>2 DEF MovesInv, MovesAreWhole, NamesAreUnique, NamesAreBehind
<1> QED
  BY <1>6, <1>7, <1>8, <1>9, <1>10 DEF MovesInv, MovesAreWhole, OwnerInv

(* The session of one object goes to another, with the numbers. *)
LEMMA MovesMoves ==
  ASSUME MovesInv, OwnerInv', NEW c \in Conn, NEW rhs \in Living, c # rhs, IsUnused(rhs),
         conns' = [conns EXCEPT ![c] = TakenFrom(rhs), ![rhs] = MovedFrom(rhs)],
         \/ conns[c].life = "none" /\ UNCHANGED handles
         \/ c \in Living /\ IsUnused(c) /\ handles' = Finished(handles, conns[c].handle),
         UNCHANGED <<home, user, named, lastExec>>
  PROVE  MovesInv'
<1> USE ConnectionAssumption
<1>1. /\ rhs \in Conn /\ conns[rhs].life = "alive"
      /\ conns[rhs].trans = Null /\ conns[rhs].handlers = << >>
      /\ conns \in [Conn -> Connection] /\ handles \in [Handle -> PGconn]
      /\ conns[c].handle \in Handle \cup {Null}
      /\ conns[rhs].handle \in Handle \cup {Null}
  BY DEF Living, MovesInv, ConnectionTypeOK, Connection, IsUnused
<1> DEFINE half == Put(conns, c, TakenFrom(rhs))
           whole == Put(half, rhs, MovedFrom(rhs))
<1>2. /\ Is(TakenFrom(rhs), "alive", conns[rhs].handle, Null, << >>, conns[rhs].id)
      /\ Is(MovedFrom(rhs), "alive", Null, Null, << >>, conns[rhs].id)
  BY <1>1, MovedIs
<1>3. /\ half \in [Conn -> Connection] /\ half[c] = TakenFrom(rhs)
      /\ \A d \in Conn \ {c} : half[d] = conns[d]
  BY <1>1, <1>2, ConnPut DEF Is
<1>4. conns' = whole
  BY DEF Put
<1> HIDE DEF half
<1>5. /\ whole \in [Conn -> Connection] /\ whole[rhs] = MovedFrom(rhs)
      /\ \A d \in Conn \ {rhs} : whole[d] = half[d]
  BY <1>1, <1>2, <1>3, ConnPut DEF Is
<1> HIDE DEF whole
<1>6. /\ conns' \in [Conn -> Connection]
      /\ conns'[c] = TakenFrom(rhs) /\ conns'[rhs] = MovedFrom(rhs)
      /\ \A d \in Conn \ {c, rhs} : conns'[d] = conns[d]
  BY <1>1, <1>3, <1>4, <1>5
<1>7. /\ conns'[c].life = "alive" /\ conns'[c].handle = conns[rhs].handle
      /\ conns'[c].trans = Null /\ conns'[c].handlers = << >>
      /\ conns'[c].id = conns[rhs].id
      /\ conns'[rhs].life = "alive" /\ conns'[rhs].handle = Null
      /\ conns'[rhs].trans = Null /\ conns'[rhs].handlers = << >>
  BY <1>2, <1>6 DEF Is
<1>8. /\ Living' = Living \cup {c}
      /\ \A d \in Living \ {c, rhs} : d \in Conn /\ conns'[d] = conns[d]
  BY <1>1, <1>6, <1>7 DEF Living
<1>9. /\ handles' \in [Handle -> PGconn]
      /\ \A k \in Handle : \/ handles'[k] = handles[k]
                           \/ /\ c \in Living /\ k = conns[c].handle
                              /\ handles'[k].status = "finished"
                              /\ handles'[k].processor = Null
  BY <1>1, FinishedTyped, FinishedProcessor
<1>10. c \in Living => conns[c].trans = Null /\ conns[c].handlers = << >>
  BY DEF Living, IsUnused
<1>11. ConnectionTypeOK'
  <2>1. ASSUME NEW d \in Conn PROVE IsInjective(conns'[d].handlers)
    <3>1. CASE d \in {c, rhs}
      BY <1>7, <3>1 DEF IsInjective
    <3>2. CASE d \notin {c, rhs}
      BY <1>6, <3>2 DEF MovesInv, ConnectionTypeOK
    <3> QED
      BY <3>1, <3>2
  <2> QED
    BY <1>6, <1>9, <2>1 DEF MovesInv, ConnectionTypeOK
<1>12. HandlersAreHome'
  <2> SUFFICES ASSUME NEW e \in Handler, NEW d \in Conn
               PROVE  home'[e] = d <=> d \in Living' /\ e \in ToSet(conns'[d].handlers)
    BY DEF HandlersAreHome
  <2>1. home'[e] = d <=> d \in Living /\ e \in ToSet(conns[d].handlers)
    BY DEF MovesInv, MovesAreWhole, HandlersAreHome
  <2>2. CASE d \in {c, rhs}
    <3>1. d \in Living => e \notin ToSet(conns[d].handlers)
      BY <1>1, <1>10, <2>2 DEF ToSet
    <3>2. e \notin ToSet(conns'[d].handlers)
      BY <1>7, <2>2 DEF ToSet
    <3> QED
      BY <2>1, <3>1, <3>2
  <2>3. CASE d \notin {c, rhs}
    BY <1>6, <1>8, <2>1, <2>3
  <2> QED
    BY <2>2, <2>3
<1>13. NoticesComeHome'
  <2> SUFFICES ASSUME NEW h \in Handle, NEW d \in Conn
               PROVE  handles'[h].processor = d <=>
                        d \in Living' /\ conns'[d].handle = h /\ conns'[d].handlers # << >>
    BY DEF NoticesComeHome
  <2>1. \A o \in Conn : handles[h].processor = o <=>
          o \in Living /\ conns[o].handle = h /\ conns[o].handlers # << >>
    BY DEF MovesInv, MovesAreWhole, NoticesComeHome
  <2>2. c \in Living /\ h = conns[c].handle =>
          \A o \in Living \ {c} : conns[o].handle # h
    BY OneOwner DEF MovesInv
  <2>3. CASE d \in {c, rhs}
    BY <1>1, <1>7, <1>9, <1>10, <2>1, <2>3
  <2>4. CASE d \notin {c, rhs}
    <3>1. /\ d \in Living' <=> d \in Living
          /\ conns'[d] = conns[d]
      BY <1>6, <1>8, <2>4
    <3>2. CASE handles'[h] = handles[h]
      BY <2>1, <3>1, <3>2
    <3>3. CASE c \in Living /\ h = conns[c].handle /\ handles'[h].processor = Null
      BY <2>2, <2>4, <3>1, <3>3
    <3> QED
      BY <1>9, <3>2, <3>3
  <2> QED
    BY <2>3, <2>4
<1>14. TransactionsAgree'
  <2> SUFFICES ASSUME NEW t \in Trans, NEW d \in Conn
               PROVE  user'[t] = d <=> d \in Living' /\ conns'[d].trans = t
    BY DEF TransactionsAgree
  <2>1. user'[t] = d <=> d \in Living /\ conns[d].trans = t
    BY DEF MovesInv, MovesAreWhole, TransactionsAgree
  <2>2. t # Null
    OBVIOUS
  <2>3. CASE d \in {c, rhs}
    BY <1>1, <1>7, <1>10, <2>1, <2>2, <2>3
  <2>4. CASE d \notin {c, rhs}
    BY <1>6, <1>8, <2>1, <2>4
  <2> QED
    BY <2>3, <2>4
<1>15. NamesAreUnique' /\ NamesAreBehind'
  <2>1. ASSUME NEW h \in Handle, handles'[h].status = "none" PROVE named'[h] = << >>
    BY <1>9, <2>1 DEF MovesInv, NamesAreBehind
  <2>2. ASSUME NEW d \in Living', conns'[d].handle # Null
        PROVE  \A i \in DOMAIN named'[conns'[d].handle] :
                 named'[conns'[d].handle][i] <= conns'[d].id
    <3>1. CASE d = c
      BY <1>7, <2>2, <3>1 DEF MovesInv, NamesAreBehind
    <3>2. CASE d # c
      <4>1. d \in Living \ {c, rhs}
        BY <1>7, <1>8, <2>2, <3>2
      <4> QED
        BY <1>8, <2>2, <4>1 DEF MovesInv, NamesAreBehind
    <3> QED
      BY <3>1, <3>2
  <2> QED
    BY <2>1, <2>2 DEF MovesInv, MovesAreWhole, NamesAreUnique, NamesAreBehind
<1> QED
  BY <1>11, <1>12, <1>13, <1>14, <1>15 DEF MovesInv, MovesAreWhole, OwnerInv

-----------------------------------------------------------------------------
(* A new object, with the session of a new handle. *)
LEMMA MovesConnects ==
  ASSUME MovesInv, OwnerInv', NEW c \in Conn, NEW h \in Handle,
         conns[c].life = "none", handles[h].status = "none",
         handles' = [handles EXCEPT ![h].status = "ok"],
         conns' = [conns EXCEPT ![c] = WithHandle(NewConnection, h)],
         UNCHANGED <<home, user, named, lastExec>>
  PROVE  MovesInv'
<1> USE ConnectionAssumption
<1>1. /\ conns \in [Conn -> Connection] /\ handles \in [Handle -> PGconn]
      /\ c \notin Living /\ h # Null
  BY DEF MovesInv, ConnectionTypeOK, Living
<1>2. /\ conns' \in [Conn -> Connection] /\ conns'[c] = WithHandle(NewConnection, h)
      /\ \A d \in Conn \ {c} : conns'[d] = conns[d]
  BY <1>1, NewIs, ConnPut DEF Is, Put
<1>3. /\ conns'[c].life = "alive" /\ conns'[c].handle = h /\ conns'[c].trans = Null
      /\ conns'[c].handlers = << >> /\ conns'[c].id = 0
  BY <1>2, NewIs DEF Is
<1>4. /\ Living' = Living \cup {c}
      /\ \A d \in Living : d # c /\ d \in Conn /\ conns'[d] = conns[d]
  BY <1>1, <1>2, <1>3 DEF Living
<1>5. /\ handles' \in [Handle -> PGconn] /\ handles'[h].status = "ok"
      /\ \A k \in Handle : handles'[k].processor = handles[k].processor
      /\ \A k \in Handle \ {h} : handles'[k] = handles[k]
  BY <1>1 DEF PGconn
<1>6. ConnectionTypeOK'
  <2>1. ASSUME NEW d \in Conn PROVE IsInjective(conns'[d].handlers)
    <3>1. CASE d = c
      BY <1>3, <3>1 DEF IsInjective
    <3>2. CASE d # c
      BY <1>2, <3>2 DEF MovesInv, ConnectionTypeOK
    <3> QED
      BY <3>1, <3>2
  <2> QED
    BY <1>2, <1>5, <2>1 DEF MovesInv, ConnectionTypeOK
<1>7. HandlersAreHome'
  <2> SUFFICES ASSUME NEW e \in Handler, NEW d \in Conn
               PROVE  home'[e] = d <=> d \in Living' /\ e \in ToSet(conns'[d].handlers)
    BY DEF HandlersAreHome
  <2>1. home'[e] = d <=> d \in Living /\ e \in ToSet(conns[d].handlers)
    BY DEF MovesInv, MovesAreWhole, HandlersAreHome
  <2>2. e \notin ToSet(conns'[c].handlers)
    BY <1>3 DEF ToSet
  <2> QED
    BY <1>1, <1>4, <2>1, <2>2
<1>8. NoticesComeHome'
  <2> SUFFICES ASSUME NEW k \in Handle, NEW d \in Conn
               PROVE  handles'[k].processor = d <=>
                        d \in Living' /\ conns'[d].handle = k /\ conns'[d].handlers # << >>
    BY DEF NoticesComeHome
  <2>1. handles'[k].processor = d <=>
          d \in Living /\ conns[d].handle = k /\ conns[d].handlers # << >>
    BY <1>5 DEF MovesInv, MovesAreWhole, NoticesComeHome
  <2> QED
    BY <1>1, <1>3, <1>4, <2>1
<1>9. TransactionsAgree'
  <2> SUFFICES ASSUME NEW t \in Trans, NEW d \in Conn
               PROVE  user'[t] = d <=> d \in Living' /\ conns'[d].trans = t
    BY DEF TransactionsAgree
  <2>1. user'[t] = d <=> d \in Living /\ conns[d].trans = t
    BY DEF MovesInv, MovesAreWhole, TransactionsAgree
  <2>2. t # Null
    OBVIOUS
  <2> QED
    BY <1>1, <1>3, <1>4, <2>1, <2>2
<1>10. NamesAreUnique' /\ NamesAreBehind'
  <2>1. ASSUME NEW k \in Handle, handles'[k].status = "none" PROVE named'[k] = << >>
    BY <1>5, <2>1 DEF MovesInv, NamesAreBehind
  <2>2. named'[h] = << >>
    BY DEF MovesInv, NamesAreBehind
  <2>3. ASSUME NEW d \in Living', conns'[d].handle # Null,
               NEW i \in DOMAIN named'[conns'[d].handle]
        PROVE  named'[conns'[d].handle][i] <= conns'[d].id
    <3>1. CASE d = c
      BY <1>3, <2>2, <2>3, <3>1
    <3>2. CASE d # c
      BY <1>4, <2>3, <3>2 DEF MovesInv, NamesAreBehind
    <3> QED
      BY <3>1, <3>2
  <2> QED
    BY <2>1, <2>3 DEF MovesInv, MovesAreWhole, NamesAreUnique, NamesAreBehind
<1> QED
  BY <1>6, <1>7, <1>8, <1>9, <1>10 DEF MovesInv, MovesAreWhole, OwnerInv

(* The chain of a living object changes, and the processor with it. *)
LEMMA MovesChains ==
  ASSUME MovesInv, OwnerInv', NEW c \in Living, NEW e \in Handler, NEW chain \in Seq(Handler),
         IsInjective(chain), NEW there \in Conn \cup {Null},
         conns' = [conns EXCEPT ![c] = WithHandlers(conns[c], chain)],
         home' = [home EXCEPT ![e] = there],
         home[e] \in {c, Null},
         \/ there = c /\ ToSet(chain) = ToSet(conns[c].handlers) \cup {e}
         \/ there = Null /\ ToSet(chain) = ToSet(conns[c].handlers) \ {e},
         handles' \in [Handle -> PGconn],
         \A h \in Handle : handles'[h].status = handles[h].status,
         \A h \in Handle : handles'[h].processor =
           IF h # conns[c].handle THEN handles[h].processor
           ELSE IF chain = << >> THEN Null ELSE c,
         UNCHANGED <<user, named, lastExec>>
  PROVE  MovesInv'
<1> USE ConnectionAssumption
<1>1. /\ c \in Conn /\ conns \in [Conn -> Connection] /\ conns[c] \in Connection
      /\ home \in [Handler -> Conn \cup {Null}] /\ c # Null
  BY DEF MovesInv, ConnectionTypeOK, Living
<1>2. Is(WithHandlers(conns[c], chain), conns[c].life, conns[c].handle, conns[c].trans,
         chain, conns[c].id)
  BY <1>1, FieldIs
<1>3. /\ conns' \in [Conn -> Connection] /\ conns'[c] = WithHandlers(conns[c], chain)
      /\ \A d \in Conn \ {c} : conns'[d] = conns[d]
  BY <1>1, <1>2, ConnPut DEF Is, Put
<1>4. /\ \A d \in Conn : /\ conns'[d].life = conns[d].life
                         /\ conns'[d].handle = conns[d].handle
                         /\ conns'[d].trans = conns[d].trans
                         /\ conns'[d].id = conns[d].id
      /\ conns'[c].handlers = chain
  BY <1>2, <1>3 DEF Is
<1>5. Living' = Living
  BY <1>4 DEF Living
<1>6. ConnectionTypeOK'
  <2>1. ASSUME NEW d \in Conn PROVE IsInjective(conns'[d].handlers)
    <3>1. CASE d = c
      BY <1>4, <3>1
    <3>2. CASE d # c
      BY <1>3, <3>2 DEF MovesInv, ConnectionTypeOK
    <3> QED
      BY <3>1, <3>2
  <2> QED
    BY <1>1, <1>3, <2>1 DEF MovesInv, ConnectionTypeOK
<1>7. HandlersAreHome'
  <2> SUFFICES ASSUME NEW f \in Handler, NEW d \in Conn
               PROVE  home'[f] = d <=> d \in Living' /\ f \in ToSet(conns'[d].handlers)
    BY DEF HandlersAreHome
  <2>1. /\ home[f] = d <=> d \in Living /\ f \in ToSet(conns[d].handlers)
        /\ home'[f] = IF f = e THEN there ELSE home[f]
    BY <1>1 DEF MovesInv, MovesAreWhole, HandlersAreHome
  <2>2. CASE d = c
    BY <1>1, <1>4, <1>5, <2>1, <2>2
  <2>3. CASE d # c
    <3>1. conns'[d] = conns[d]
      BY <1>3, <2>3
    <3>2. CASE f # e
      BY <1>5, <2>1, <3>1, <3>2
    <3>3. CASE f = e
      BY <1>1, <1>5, <2>1, <2>3, <3>1, <3>3
    <3> QED
      BY <3>2, <3>3
  <2> QED
    BY <2>2, <2>3
<1>8. NoticesComeHome'
  <2> SUFFICES ASSUME NEW h \in Handle, NEW d \in Conn
               PROVE  handles'[h].processor = d <=>
                        d \in Living' /\ conns'[d].handle = h /\ conns'[d].handlers # << >>
    BY DEF NoticesComeHome
  <2>1. handles[h].processor = d <=>
          d \in Living /\ conns[d].handle = h /\ conns[d].handlers # << >>
    BY DEF MovesInv, MovesAreWhole, NoticesComeHome
  <2>2. CASE d = c
    BY <1>1, <1>4, <1>5, <2>1, <2>2
  <2>3. CASE d # c
    <3>1. conns'[d] = conns[d]
      BY <1>3, <2>3
    <3>2. CASE h # conns[c].handle
      BY <1>5, <2>1, <3>1, <3>2
    <3>3. CASE h = conns[c].handle
      <4>1. d \notin Living \/ conns[d].handle # h
        BY <2>3, <3>3, OneOwner DEF MovesInv
      <4> QED
        BY <1>1, <1>5, <2>3, <3>1, <3>3, <4>1
    <3> QED
      BY <3>2, <3>3
  <2> QED
    BY <2>2, <2>3
<1>9. TransactionsAgree'
  BY <1>4, <1>5 DEF MovesInv, MovesAreWhole, TransactionsAgree
<1>10. NamesAreUnique' /\ NamesAreBehind'
  BY <1>4, <1>5, ZenonT(60) DEF MovesInv, MovesAreWhole, NamesAreUnique, NamesAreBehind, Living
<1> QED
  BY <1>6, <1>7, <1>8, <1>9, <1>10 DEF MovesInv, MovesAreWhole, OwnerInv

(* A transaction comes to, or leaves, a living object. *)
LEMMA MovesRegisters ==
  ASSUME MovesInv, OwnerInv', NEW c \in Living, NEW t \in Trans,
         NEW reg \in Trans \cup {Null}, NEW whose \in Conn \cup {Null},
         \/ reg = t /\ whose = c /\ user[t] = Null /\ conns[c].trans = Null
         \/ reg = Null /\ whose = Null /\ user[t] = c,
         conns' = [conns EXCEPT ![c] = WithTrans(conns[c], reg)],
         user' = [user EXCEPT ![t] = whose],
         UNCHANGED <<handles, home, named, lastExec>>
  PROVE  MovesInv'
<1> USE ConnectionAssumption
<1>1. /\ c \in Conn /\ conns \in [Conn -> Connection] /\ conns[c] \in Connection
      /\ user \in [Trans -> Conn \cup {Null}] /\ c # Null /\ t # Null
  BY DEF MovesInv, ConnectionTypeOK, Living
<1>2. Is(WithTrans(conns[c], reg), conns[c].life, conns[c].handle, reg,
         conns[c].handlers, conns[c].id)
  BY <1>1, FieldIs
<1>3. /\ conns' \in [Conn -> Connection] /\ conns'[c] = WithTrans(conns[c], reg)
      /\ \A d \in Conn \ {c} : conns'[d] = conns[d]
  BY <1>1, <1>2, ConnPut DEF Is, Put
<1>4. /\ \A d \in Conn : /\ conns'[d].life = conns[d].life
                         /\ conns'[d].handle = conns[d].handle
                         /\ conns'[d].handlers = conns[d].handlers
                         /\ conns'[d].id = conns[d].id
      /\ conns'[c].trans = reg
  BY <1>2, <1>3 DEF Is
<1>5. Living' = Living
  BY <1>4 DEF Living
<1>6. ConnectionTypeOK'
  BY <1>1, <1>3, <1>4 DEF MovesInv, ConnectionTypeOK
<1>7. HandlersAreHome'
  BY <1>4, <1>5 DEF MovesInv, MovesAreWhole, HandlersAreHome
<1>8. NoticesComeHome'
  BY <1>4, <1>5 DEF MovesInv, MovesAreWhole, NoticesComeHome
<1>9. TransactionsAgree'
  <2> SUFFICES ASSUME NEW u \in Trans, NEW d \in Conn
               PROVE  user'[u] = d <=> d \in Living' /\ conns'[d].trans = u
    BY DEF TransactionsAgree
  <2>1. /\ user[u] = d <=> d \in Living /\ conns[d].trans = u
        /\ user[t] = d <=> d \in Living /\ conns[d].trans = t
        /\ user[u] = c <=> c \in Living /\ conns[c].trans = u
        /\ user[t] = c <=> c \in Living /\ conns[c].trans = t
        /\ user'[u] = IF u = t THEN whose ELSE user[u]
    BY <1>1 DEF MovesInv, MovesAreWhole, TransactionsAgree
  <2>2. u # Null
    OBVIOUS
  <2>3. CASE d = c
    BY <1>1, <1>4, <1>5, <2>1, <2>2, <2>3
  <2>4. CASE d # c
    BY <1>1, <1>3, <1>5, <2>1, <2>2, <2>4
  <2> QED
    BY <2>3, <2>4
<1>10. NamesAreUnique' /\ NamesAreBehind'
  BY <1>4, <1>5 DEF MovesInv, MovesAreWhole, NamesAreUnique, NamesAreBehind, Living
<1> QED
  BY <1>6, <1>7, <1>8, <1>9, <1>10 DEF MovesInv, MovesAreWhole, OwnerInv

(* The next name of a session. *)
LEMMA MovesAdorns ==
  ASSUME MovesInv, OwnerInv', NEW c \in Living, IsOpen(c), conns[c].id < MaxNames,
         conns' = [conns EXCEPT ![c] = WithId(conns[c], conns[c].id + 1)],
         named' = [named EXCEPT ![conns[c].handle] = Append(@, conns[c].id + 1)],
         UNCHANGED <<handles, home, user, lastExec>>
  PROVE  MovesInv'
<1> USE ConnectionAssumption
<1>1. /\ c \in Conn /\ conns \in [Conn -> Connection] /\ conns[c] \in Connection
      /\ conns[c].id \in 0 .. MaxNames - 1 /\ conns[c].handle # Null
      /\ named \in [Handle -> Seq(1 .. MaxNames)]
  BY DEF MovesInv, ConnectionTypeOK, Living, Connection, IsOpen
<1> DEFINE h == conns[c].handle
           id == conns[c].id + 1
<1>2. /\ h \in Handle /\ handles[h].status \in {"ok", "bad"}
      /\ \A d \in Living : conns[d].handle = h => d = c
  BY <1>1, OneOwner DEF MovesInv
<1>3. id \in 0 .. MaxNames
  BY <1>1
<1>4. Is(WithId(conns[c], id), conns[c].life, h, conns[c].trans, conns[c].handlers, id)
  BY <1>1, <1>3, FieldIs
<1>5. /\ conns' \in [Conn -> Connection] /\ conns'[c] = WithId(conns[c], id)
      /\ \A d \in Conn \ {c} : conns'[d] = conns[d]
  BY <1>1, <1>4, ConnPut DEF Is, Put
<1>6. /\ \A d \in Conn : /\ conns'[d].life = conns[d].life
                         /\ conns'[d].handle = conns[d].handle
                         /\ conns'[d].handlers = conns[d].handlers
                         /\ conns'[d].trans = conns[d].trans
      /\ conns'[c].id = id
  BY <1>4, <1>5 DEF Is
<1>7. Living' = Living
  BY <1>6 DEF Living
<1>8. /\ IsInjective(named[h]) /\ named[h] \in Seq(1 .. MaxNames)
      /\ \A i \in DOMAIN named[h] : named[h][i] <= conns[c].id
  BY <1>1, <1>2 DEF MovesInv, MovesAreWhole, NamesAreUnique, NamesAreBehind
<1>9. /\ named'[h] = Append(named[h], id)
      /\ named'[h] \in Seq(1 .. MaxNames) /\ IsInjective(named'[h])
      /\ \A i \in DOMAIN named'[h] : named'[h][i] <= id
      /\ \A k \in Handle \ {h} : named'[k] = named[k]
      /\ named' \in [Handle -> Seq(1 .. MaxNames)]
  <2>1. /\ Append(named[h], id) \in Seq(1 .. MaxNames) /\ IsInjective(Append(named[h], id))
        /\ \A i \in DOMAIN Append(named[h], id) : Append(named[h], id)[i] <= id
    BY <1>1, <1>8, NamesAppended
  <2> HIDE DEF id
  <2>2. named' = [named EXCEPT ![h] = Append(named[h], id)]
    BY DEF id
  <2> QED
    BY <1>1, <1>2, <2>1, <2>2
<1>10. ConnectionTypeOK'
  BY <1>5, <1>6, <1>9 DEF MovesInv, ConnectionTypeOK
<1>11. HandlersAreHome'
  BY <1>6, <1>7 DEF MovesInv, MovesAreWhole, HandlersAreHome
<1>12. NoticesComeHome'
  BY <1>6, <1>7 DEF MovesInv, MovesAreWhole, NoticesComeHome
<1>13. TransactionsAgree'
  BY <1>6, <1>7 DEF MovesInv, MovesAreWhole, TransactionsAgree
<1>14. NamesAreUnique'
  BY <1>9 DEF MovesInv, MovesAreWhole, NamesAreUnique
<1>15. NamesAreBehind'
  <2>1. ASSUME NEW k \in Handle, handles'[k].status = "none" PROVE named'[k] = << >>
    BY <1>2, <1>9, <2>1 DEF MovesInv, NamesAreBehind
  <2>2. ASSUME NEW d \in Living', conns'[d].handle # Null,
               NEW i \in DOMAIN named'[conns'[d].handle]
        PROVE  named'[conns'[d].handle][i] <= conns'[d].id
    <3>1. d \in Living /\ d \in Conn /\ conns'[d].handle = conns[d].handle
      BY <1>6, <1>7 DEF Living
    <3>2. CASE d = c
      <4>1. conns'[d].handle = h
        BY <1>1, <3>1, <3>2, Zenon
      <4>2. i \in DOMAIN named'[h] /\ conns'[d].id = id
        BY <1>6, <2>2, <3>2, <4>1, Zenon
      <4> QED
        BY <1>9, <4>1, <4>2, Zenon
    <3>3. CASE d # c
      <4>1. /\ conns[d].handle \in Handle \ {h} /\ conns'[d] = conns[d]
            /\ named'[conns[d].handle] = named[conns[d].handle]
        BY <1>2, <1>5, <1>9, <2>2, <3>1, <3>3, OneOwner DEF MovesInv
      <4> QED
        BY <2>2, <3>1, <4>1 DEF MovesInv, NamesAreBehind
    <3> QED
      BY <3>2, <3>3
  <2> QED
    BY <2>1, <2>2 DEF NamesAreBehind
<1> QED
  BY <1>10, <1>11, <1>12, <1>13, <1>14, <1>15 DEF MovesInv, MovesAreWhole, OwnerInv

(* Neither objects nor processors change. *)
LEMMA MovesKeeps ==
  ASSUME MovesInv, OwnerInv', UNCHANGED <<conns, home, user, named>>,
         handles' \in [Handle -> PGconn],
         \A h \in Handle : /\ handles'[h].processor = handles[h].processor
                           /\ handles'[h].status = "none" => handles[h].status = "none",
         lastExec' \in ExecOutcome
  PROVE  MovesInv'
<1>1. Living' = Living
  BY DEF Living
<1>2. ConnectionTypeOK'
  BY DEF MovesInv, ConnectionTypeOK
<1>3. HandlersAreHome' /\ TransactionsAgree' /\ NamesAreUnique'
  BY <1>1 DEF MovesInv, MovesAreWhole, HandlersAreHome, TransactionsAgree, NamesAreUnique
<1>4. NoticesComeHome'
  BY <1>1 DEF MovesInv, MovesAreWhole, NoticesComeHome
<1>5. NamesAreBehind'
  BY <1>1 DEF MovesInv, NamesAreBehind
<1> QED
  BY <1>2, <1>3, <1>4, <1>5 DEF MovesInv, MovesAreWhole, OwnerInv

-----------------------------------------------------------------------------
(* No result, or one that cannot be read, once the connection broke. *)
LEMMA BrokenIsTold ==
  ASSUME NEW got \in BOOLEAN, NEW ok \in BOOLEAN
  PROVE  MakeResult(got, FALSE, ok) = "broken_connection"
<1>1. CASE got
  BY <1>1, Zenon DEF MakeResult
<1>2. CASE ~got
  BY <1>2, Zenon DEF MakeResult
<1> QED
  BY <1>1, <1>2

LEMMA ResultIsOutcome ==
  ASSUME NEW got \in BOOLEAN, NEW open \in BOOLEAN, NEW ok \in BOOLEAN
  PROVE  MakeResult(got, open, ok) \in ExecOutcome
<1>1. CASE ~open
  BY <1>1, BrokenIsTold DEF ExecOutcome
<1>2. CASE open /\ ~got
  BY <1>2, Zenon DEF MakeResult, ExecOutcome
<1>3. CASE open /\ got
  BY <1>3, Zenon DEF MakeResult, ExecOutcome
<1> QED
  BY <1>1, <1>2, <1>3

LEMMA MovesNext == MovesInv /\ [ConnectionNext]_connVars => MovesInv'
<1> SUFFICES ASSUME MovesInv, [ConnectionNext]_connVars
             PROVE  MovesInv'
  OBVIOUS
<1> USE ConnectionAssumption
<1>1. OwnerInv'
  BY MovesInvOwns, OwnerNext
<1>2. /\ conns \in [Conn -> Connection] /\ handles \in [Handle -> PGconn]
      /\ home \in [Handler -> Conn \cup {Null}] /\ user \in [Trans -> Conn \cup {Null}]
      /\ lastExec \in ExecOutcome
  BY DEF MovesInv, ConnectionTypeOK
<1>3. ASSUME NEW c \in Living
      PROVE  /\ c \in Conn /\ conns[c].life = "alive" /\ conns[c] \in Connection
             /\ conns[c].handlers \in Seq(Handler) /\ IsInjective(conns[c].handlers)
             /\ conns[c].handle \in Handle \cup {Null}
             /\ Is(ClosedConnection(c), "alive", Null, conns[c].trans, << >>, conns[c].id)
             /\ Is(WithLife(ClosedConnection(c), "gone"), "gone", Null, conns[c].trans,
                   << >>, conns[c].id)
  <2>1. /\ c \in Conn /\ conns[c].life = "alive" /\ conns[c] \in Connection
        /\ IsInjective(conns[c].handlers)
    BY <1>2 DEF Living, MovesInv, ConnectionTypeOK
  <2>2. /\ conns[c].handlers \in Seq(Handler)
        /\ conns[c].handle \in Handle \cup {Null}
    BY <2>1 DEF Connection
  <2> QED
    BY <1>2, <2>1, <2>2, ClosedIs
<1>4. CASE Connect
  <2>1. PICK c \in Conn, h \in Handle :
          /\ conns[c].life = "none" /\ handles[h].status = "none"
          /\ \/ /\ handles' = [handles EXCEPT ![h].status = "ok"]
                /\ conns' = [conns EXCEPT ![c] = WithHandle(NewConnection, h)]
             \/ handles' = Finished(handles, h) /\ UNCHANGED conns
    BY <1>4 DEF Connect, WithHandle
  <2>2. UNCHANGED <<home, user, named, lastExec>>
    BY <1>4 DEF Connect
  <2>3. CASE /\ handles' = [handles EXCEPT ![h].status = "ok"]
             /\ conns' = [conns EXCEPT ![c] = WithHandle(NewConnection, h)]
    BY <1>1, <2>1, <2>2, <2>3, MovesConnects
  <2>4. CASE handles' = Finished(handles, h) /\ UNCHANGED conns
    <3>1. handles[h].processor \notin Conn
      <4>1. \A c2 \in Living : conns[c2].handle # h
        BY <2>1 DEF MovesInv, HandlesAreOwned
      <4> QED
        BY <4>1 DEF MovesInv, MovesAreWhole, NoticesComeHome
    <3>2. handles[h].processor = Null
      BY <1>2, <3>1 DEF PGconn
    <3>3. /\ handles' \in [Handle -> PGconn]
          /\ \A k \in Handle : k # h => handles'[k] = handles[k]
          /\ handles'[h].status = "finished" /\ handles'[h].processor = Null
      BY <1>2, <2>4, FinishedTyped, FinishedProcessor
    <3>4. \A k \in Handle : /\ handles'[k].processor = handles[k].processor
                            /\ handles'[k].status = "none" => handles[k].status = "none"
      BY <3>2, <3>3
    <3> QED
      BY <1>1, <1>2, <2>2, <2>4, <3>3, <3>4, MovesKeeps
  <2> QED
    BY <2>1, <2>3, <2>4
<1>5. CASE Close
  <2>1. PICK c \in Living :
          /\ conns' = [conns EXCEPT ![c] = ClosedConnection(c)]
          /\ handles' = Finished(handles, conns[c].handle)
          /\ home' = HomesAfterClose(c)
    BY <1>5 DEF Close
  <2>2. UNCHANGED <<user, named, lastExec>>
    BY <1>5 DEF Close
  <2> QED
    BY <1>1, <1>3, <2>1, <2>2, MovesCloses
<1>6. CASE DestroyConnection
  <2>1. PICK c \in Living :
          /\ \A t \in Trans : user[t] # c
          /\ conns' = [conns EXCEPT ![c] = WithLife(ClosedConnection(c), "gone")]
          /\ handles' = Finished(handles, conns[c].handle)
          /\ home' = HomesAfterClose(c)
    BY <1>6 DEF DestroyConnection, WithLife
  <2>2. UNCHANGED <<user, named, lastExec>>
    BY <1>6 DEF DestroyConnection
  <2> QED
    BY <1>1, <1>3, <2>1, <2>2, MovesCloses
<1>7. CASE MoveConstruct
  <2>1. PICK c \in Conn, rhs \in Living :
          /\ conns[c].life = "none" /\ IsUnused(rhs)
          /\ conns' = [conns EXCEPT ![c] = TakenFrom(rhs), ![rhs] = MovedFrom(rhs)]
    BY <1>7 DEF MoveConstruct
  <2>2. UNCHANGED <<handles, home, user, named, lastExec>>
    BY <1>7 DEF MoveConstruct
  <2>3. c # rhs
    BY <1>3, <2>1
  <2> QED
    BY <1>1, <2>1, <2>2, <2>3, MovesMoves
<1>8. CASE MoveAssign
  <2>1. PICK c \in Living, rhs \in Living :
          /\ IsUnused(c) /\ IsUnused(rhs)
          /\ conns' = [conns EXCEPT
                         ![c] = IF c = rhs THEN ClosedConnection(c) ELSE TakenFrom(rhs),
                         ![rhs] = MovedFrom(rhs)]
          /\ handles' = Finished(handles, conns[c].handle)
    BY <1>8 DEF MoveAssign
  <2>2. UNCHANGED <<home, user, named, lastExec>>
    BY <1>8 DEF MoveAssign
  <2>3. CASE c # rhs
    BY <1>1, <1>3, <2>1, <2>2, <2>3, MovesMoves
  <2>4. CASE c = rhs
    <3>1. conns[c].handlers = << >>
      BY <2>1 DEF IsUnused
    <3>2. Is(MovedFrom(c), "alive", Null, conns[c].trans, << >>, conns[c].id)
      BY <1>2, <1>3, <3>1, MovedIs
    <3>3. conns' = [conns EXCEPT ![c] = MovedFrom(c)]
      BY <1>2, <1>3, <2>1, <2>4
    <3>4. home' = HomesAfterClose(c)
      BY <1>2, <2>2, <3>1 DEF HomesAfterClose, ToSet
    <3> QED
      BY <1>1, <2>1, <2>2, <3>2, <3>3, <3>4, MovesCloses
  <2> QED
    BY <2>3, <2>4
<1>9. CASE AddHandler
  <2>1. PICK e \in Handler, c \in Living :
          /\ home[e] = Null
          /\ home' = [home EXCEPT ![e] = c]
          /\ conns' = [conns EXCEPT ![c] =
                         WithHandlers(conns[c], Append(conns[c].handlers, e))]
          /\ handles' = IF conns[c].handlers = << >>
                          THEN Processing(handles, conns[c].handle, c) ELSE handles
    BY <1>9 DEF AddHandler, WithHandlers
  <2>2. UNCHANGED <<user, named, lastExec>>
    BY <1>9 DEF AddHandler
  <2> DEFINE chain == Append(conns[c].handlers, e)
  <2>3. e \notin ToSet(conns[c].handlers)
    BY <1>3, <2>1 DEF MovesInv, MovesAreWhole, HandlersAreHome
  <2>4. /\ chain \in Seq(Handler) /\ IsInjective(chain) /\ chain # << >>
        /\ ToSet(chain) = ToSet(conns[c].handlers) \cup {e}
    BY <1>3, <2>3, ChainAppended
  <2>5. /\ handles' \in [Handle -> PGconn]
        /\ \A h \in Handle : handles'[h].status = handles[h].status
    BY <1>2, <1>3, <2>1, ProcessingTyped
  <2>6. \A h \in Handle : handles'[h].processor =
          IF h # conns[c].handle THEN handles[h].processor ELSE c
    <3>1. CASE conns[c].handlers = << >>
      BY <1>2, <1>3, <2>1, <3>1, ProcessingSet
    <3>2. CASE conns[c].handlers # << >>
      <4>1. \A h \in Handle : h = conns[c].handle => handles[h].processor = c
        BY <1>3, <3>2 DEF MovesInv, MovesAreWhole, NoticesComeHome
      <4> QED
        BY <2>1, <3>2, <4>1
    <3> QED
      BY <3>1, <3>2
  <2>7. c \in Conn \cup {Null}
    BY <1>3
  <2> HIDE DEF chain
  <2>8. conns' = [conns EXCEPT ![c] = WithHandlers(conns[c], chain)]
    BY <2>1 DEF chain
  <2>9. \A h \in Handle : handles'[h].processor =
          IF h # conns[c].handle THEN handles[h].processor
          ELSE IF chain = << >> THEN Null ELSE c
    BY <2>4, <2>6
  <2> QED
    BY <1>1, <2>1, <2>2, <2>4, <2>5, <2>7, <2>8, <2>9, MovesChains
<1>10. CASE RemoveHandler
  <2>1. PICK e \in Handler :
          /\ home[e] # Null
          /\ home' = [home EXCEPT ![e] = Null]
          /\ conns' = [conns EXCEPT ![home[e]] =
                         WithHandlers(conns[home[e]], ChainWithout(home[e], e))]
          /\ handles' = ProcessorAfter(home[e], ChainWithout(home[e], e))
    BY <1>10 DEF RemoveHandler, WithHandlers
  <2>2. UNCHANGED <<user, named, lastExec>>
    BY <1>10 DEF RemoveHandler
  <2> DEFINE c == home[e]
             chain == ChainWithout(c, e)
  <2>3. c \in Living /\ e \in ToSet(conns[c].handlers)
    BY <1>2, <2>1 DEF MovesInv, MovesAreWhole, HandlersAreHome
  <2> HIDE DEF c
  <2>4. /\ chain \in Seq(Handler) /\ IsInjective(chain)
        /\ ToSet(chain) = ToSet(conns[c].handlers) \ {e}
    BY <1>3, <2>3, ChainRemoved DEF ChainWithout
  <2>5. /\ conns' = [conns EXCEPT ![c] = WithHandlers(conns[c], chain)]
        /\ handles' = ProcessorAfter(c, chain) /\ home[e] = c
    BY <2>1 DEF c
  <2> HIDE DEF chain
  <2>6. /\ handles' \in [Handle -> PGconn]
        /\ \A h \in Handle : handles'[h].status = handles[h].status
    BY <1>2, <1>3, <2>3, <2>5, ProcessingTyped DEF ProcessorAfter
  <2>7. \A h \in Handle : h = conns[c].handle => handles[h].processor = c
    <3>1. conns[c].handlers # << >>
      BY <2>3 DEF ToSet
    <3> QED
      BY <1>3, <2>3, <3>1 DEF MovesInv, MovesAreWhole, NoticesComeHome
  <2>8. \A h \in Handle : handles'[h].processor =
          IF h # conns[c].handle THEN handles[h].processor
          ELSE IF chain = << >> THEN Null ELSE c
    <3>1. CASE chain = << >>
      <4>1. handles' = Processing(handles, conns[c].handle, Null)
        BY <2>5, <3>1 DEF ProcessorAfter
      <4>2. \A h \in Handle : handles'[h].processor =
              IF h = conns[c].handle THEN Null ELSE handles[h].processor
        BY <1>2, <1>3, <2>3, <4>1, ProcessingSet, SMTT(30)
      <4> QED
        BY <3>1, <4>2
    <3>2. CASE chain # << >>
      BY <2>5, <2>7, <3>2 DEF ProcessorAfter
    <3> QED
      BY <3>1, <3>2
  <2>9. /\ home' = [home EXCEPT ![e] = Null] /\ home[e] \in {c, Null}
        /\ Null \in Conn \cup {Null}
    BY <2>1, <2>5
  <2>10. conns' = [conns EXCEPT ![c] = WithHandlers(conns[c], chain)]
    BY <2>5
  <2> QED
    BY <1>1, <2>2, <2>3, <2>4, <2>6, <2>8, <2>9, <2>10, MovesChains
<1>11. CASE Register
  <2>1. PICK t \in Trans, c \in Living :
          /\ user[t] = Null /\ conns[c].trans = Null
          /\ user' = [user EXCEPT ![t] = c]
          /\ conns' = [conns EXCEPT ![c] = WithTrans(conns[c], t)]
    BY <1>11 DEF Register, CanRegister, WithTrans
  <2>2. UNCHANGED <<handles, home, named, lastExec>>
    BY <1>11 DEF Register
  <2>3. c \in Conn \cup {Null} /\ t \in Trans \cup {Null}
    BY <1>3
  <2> QED
    BY <1>1, <2>1, <2>2, <2>3, MovesRegisters
<1>12. CASE Unregister
  <2>1. PICK t \in Trans :
          /\ user[t] # Null
          /\ user' = [user EXCEPT ![t] = Null]
          /\ conns' = [conns EXCEPT ![user[t]] = WithTrans(conns[user[t]], Null)]
    BY <1>12 DEF Unregister, WithTrans
  <2>2. UNCHANGED <<handles, home, named, lastExec>>
    BY <1>12 DEF Unregister
  <2>3. user[t] \in Living
    BY <1>2, <2>1 DEF MovesInv, MovesAreWhole, TransactionsAgree
  <2> QED
    BY <1>1, <2>1, <2>2, <2>3, MovesRegisters
<1>13. CASE AdornName
  <2>1. PICK c \in Living :
          /\ IsOpen(c) /\ conns[c].id < MaxNames
          /\ conns' = [conns EXCEPT ![c] = WithId(conns[c], conns[c].id + 1)]
          /\ named' = [named EXCEPT ![conns[c].handle] = Append(@, conns[c].id + 1)]
    BY <1>13 DEF AdornName, WithId
  <2>2. UNCHANGED <<handles, home, user, lastExec>>
    BY <1>13 DEF AdornName
  <2> QED
    BY <1>1, <2>1, <2>2, MovesAdorns
<1>14. CASE Execute
  <2>1. PICK c \in Living : ExecuteOn(c)
    BY <1>14 DEF Execute
  <2>2. UNCHANGED <<conns, home, user, named>>
    BY <2>1 DEF ExecuteOn
  <2>3. PICK got \in BOOLEAN, ok \in BOOLEAN, breaks \in BOOLEAN :
          /\ lastExec' = MakeResult(got, IsOpen(c) /\ ~breaks, ok)
          /\ handles' = IF conns[c].handle # Null /\ breaks
                          THEN [handles EXCEPT ![conns[c].handle].status = "bad"]
                          ELSE handles
    BY <2>1 DEF ExecuteOn
  <2>4. lastExec' \in ExecOutcome
    <3>1. (IsOpen(c) /\ ~breaks) \in BOOLEAN
      OBVIOUS
    <3> QED
      BY <2>3, <3>1, ResultIsOutcome
  <2>5. /\ handles' \in [Handle -> PGconn]
        /\ \A h \in Handle : /\ handles'[h].processor = handles[h].processor
                             /\ handles'[h].status = "none" => handles[h].status = "none"
    BY <1>2, <2>3, ZenonT(60) DEF PGconn
  <2> QED
    BY <1>1, <2>2, <2>4, <2>5, MovesKeeps
<1>15. CASE UNCHANGED connVars
  BY <1>1, <1>2, <1>15, MovesKeeps DEF connVars
<1> QED
  BY <1>4, <1>5, <1>6, <1>7, <1>8, <1>9, <1>10, <1>11, <1>12, <1>13, <1>14, <1>15
     DEF ConnectionNext

LEMMA MovesAlways == ConnectionSpec => []MovesInv
  BY MovesInit, MovesNext, PTL DEF ConnectionSpec

(* Every variable keeps its type, and no chain ever has a handler twice.     *)
THEOREM ConnectionTyped == ConnectionSpec => []ConnectionTypeOK
<1>1. MovesInv => ConnectionTypeOK
  BY DEF MovesInv
<1> QED
  BY <1>1, MovesAlways, PTL

(* Handlers, the notice processor, the transaction and the numbers of names  *)
(* go with the session from object to object (connection.cxx: the moves,     *)
(* close, register_errorhandler, register_transaction, adorn_name).          *)
THEOREM MovesAlwaysWhole == ConnectionSpec => []MovesAreWhole
<1>1. MovesInv => MovesAreWhole
  BY DEF MovesInv
<1> QED
  BY <1>1, MovesAlways, PTL

(* Whoever loses the connection by a statement is told (make_result).        *)
THEOREM BreaksAlwaysTold == ConnectionSpec => BreaksAreTold
<1>1. ASSUME NEW c \in Living, ExecuteOn(c), ~IsOpen(c)'
      PROVE  lastExec' = "broken_connection"
  <2>1. PICK got \in BOOLEAN, ok \in BOOLEAN, breaks \in BOOLEAN :
          /\ lastExec' = MakeResult(got, IsOpen(c) /\ ~breaks, ok)
          /\ handles' = IF conns[c].handle # Null /\ breaks
                          THEN [handles EXCEPT ![conns[c].handle].status = "bad"]
                          ELSE handles
    BY <1>1 DEF ExecuteOn
  <2>2. UNCHANGED conns
    BY <1>1 DEF ExecuteOn
  <2>3. ~(IsOpen(c) /\ ~breaks)
    BY <1>1, <2>1, <2>2 DEF IsOpen
  <2>4. (IsOpen(c) /\ ~breaks) = FALSE
    BY <2>3
  <2> QED
    BY <2>1, <2>4, BrokenIsTold
<1>2. [\A c \in Living : ExecuteOn(c) /\ ~IsOpen(c)' =>
                         lastExec' = "broken_connection"]_connVars
  BY <1>1
<1> QED
  BY <1>2, PTL DEF ConnectionSpec, BreaksAreTold

-----------------------------------------------------------------------------
(* Sequences. *)

(* Inserting an element makes room for it. *)
LEMMA InsertAtIs ==
  ASSUME NEW S, NEW s \in Seq(S), NEW i \in 1 .. Len(s) + 1, NEW e \in S
  PROVE  /\ InsertAt(s, i, e) \in Seq(S)
         /\ Len(InsertAt(s, i, e)) = Len(s) + 1
         /\ InsertAt(s, i, e)[i] = e
         /\ \A j \in 1 .. Len(s) :
              InsertAt(s, i, e)[IF j < i THEN j ELSE j + 1] = s[j]
<1> DEFINE front == SubSeq(s, 1, i - 1)
           back  == SubSeq(s, i, Len(s))
           both  == front \o << e >>
           all   == both \o back
<1>1. /\ front \in Seq(S) /\ Len(front) = i - 1
      /\ \A j \in 1 .. i - 1 : front[j] = s[j]
  OBVIOUS
<1>2. /\ back \in Seq(S) /\ Len(back) = Len(s) + 1 - i
      /\ \A j \in 1 .. Len(s) + 1 - i : back[j] = s[j + i - 1]
  OBVIOUS
<1>3. InsertAt(s, i, e) = all
  BY DEF InsertAt
<1> HIDE DEF front, back
<1>4. << e >> \in Seq(S) /\ Len(<< e >>) = 1 /\ << e >>[1] = e
  OBVIOUS
<1>5. /\ both \in Seq(S) /\ Len(both) = i /\ both[i] = e
      /\ \A j \in 1 .. i - 1 : both[j] = s[j]
  <2> DEFINE one == << e >>
  <2>1. /\ one \in Seq(S) /\ Len(one) = 1 /\ one[1] = e
        /\ both = front \o one
    BY <1>4
  <2> HIDE DEF one, both
  <2>2. /\ both \in Seq(S) /\ Len(both) = i
        /\ \A j \in 1 .. i :
             both[j] = IF j <= i - 1 THEN front[j] ELSE one[j - (i - 1)]
    <3>1. /\ both \in Seq(S) /\ Len(both) = Len(front) + Len(one)
          /\ \A j \in 1 .. Len(front) + Len(one) :
               both[j] = IF j <= Len(front) THEN front[j] ELSE one[j - Len(front)]
      BY <1>1, <2>1, ConcatProperties
    <3>2. Len(front) + Len(one) = i
      BY <1>1, <2>1
    <3> QED
      BY <1>1, <3>1, <3>2
  <2>3. both[i] = e
    <3>1. i - (i - 1) = 1 /\ i \in 1 .. i /\ ~(i <= i - 1)
      OBVIOUS
    <3>2. both[i] = one[1]
      BY <2>2, <3>1
    <3> QED
      BY <2>1, <3>2, Zenon
  <2>4. ASSUME NEW j \in 1 .. i - 1
        PROVE  both[j] = s[j]
    <3>1. j \in 1 .. i /\ j <= i - 1
      OBVIOUS
    <3>2. both[j] = front[j]
      BY <2>2, <3>1
    <3> QED
      BY <1>1, <3>2, Zenon
  <2> QED
    BY <2>2, <2>3, <2>4, Zenon
<1> HIDE DEF both
<1>6. /\ all \in Seq(S) /\ Len(all) = Len(s) + 1
      /\ \A j \in 1 .. Len(s) + 1 :
           all[j] = IF j <= i THEN both[j] ELSE back[j - i]
  BY <1>2, <1>5, ConcatProperties
<1> HIDE DEF all
<1>7. ASSUME NEW j \in 1 .. Len(s)
      PROVE  all[IF j < i THEN j ELSE j + 1] = s[j]
  <2>1. CASE j < i
    BY <1>5, <1>6, <2>1
  <2>2. CASE ~(j < i)
    <3>1. all[j + 1] = back[j + 1 - i]
      BY <1>6, <2>2
    <3>2. back[j + 1 - i] = s[j]
      <4>1. j + 1 - i \in 1 .. Len(s) + 1 - i /\ (j + 1 - i) + i - 1 = j
        BY <2>2
      <4> QED
        BY <1>2, <4>1
    <3> QED
      BY <2>2, <3>1, <3>2
  <2> QED
    BY <2>1, <2>2
<1>8. all[i] = e
  BY <1>5, <1>6
<1> QED
  BY <1>3, <1>6, <1>7, <1>8, Zenon

(* Removing a position leaves a sequence that is one shorter. *)
LEMMA RemoveAtIs ==
  ASSUME NEW S, NEW s \in Seq(S), NEW i \in 1 .. Len(s)
  PROVE  /\ RemoveAt(s, i) \in Seq(S)
         /\ Len(RemoveAt(s, i)) = Len(s) - 1
         /\ \A j \in 1 .. Len(s) - 1 :
              RemoveAt(s, i)[j] = s[IF j < i THEN j ELSE j + 1]
<1> DEFINE front == SubSeq(s, 1, i - 1)
           back  == SubSeq(s, i + 1, Len(s))
           both  == front \o back
<1>1. /\ front \in Seq(S) /\ Len(front) = i - 1
      /\ \A j \in 1 .. i - 1 : front[j] = s[j]
  OBVIOUS
<1>2. /\ back \in Seq(S) /\ Len(back) = Len(s) - i
      /\ \A j \in 1 .. Len(s) - i : back[j] = s[j + i]
  OBVIOUS
<1>3. RemoveAt(s, i) = both
  BY DEF RemoveAt
<1> HIDE DEF front, back
<1>4. /\ both \in Seq(S) /\ Len(both) = Len(s) - 1
      /\ \A j \in 1 .. Len(s) - 1 :
           both[j] = IF j <= i - 1 THEN front[j] ELSE back[j - (i - 1)]
  BY <1>1, <1>2, ConcatProperties
<1> HIDE DEF both
<1>5. ASSUME NEW j \in 1 .. Len(s) - 1
      PROVE  both[j] = s[IF j < i THEN j ELSE j + 1]
  <2>1. CASE j < i
    BY <1>1, <1>4, <2>1
  <2>2. CASE ~(j < i)
    <3>1. both[j] = back[j - (i - 1)]
      BY <1>4, <2>2
    <3>2. j - (i - 1) \in 1 .. Len(s) - i /\ (j - (i - 1)) + i = j + 1
      BY <2>2
    <3> QED
      BY <1>2, <2>2, <3>1, <3>2
  <2> QED
    BY <2>1, <2>2
<1> QED
  BY <1>3, <1>4, <1>5

(* The list is in the order of the channels. *)
InChannelOrder(s) ==
  \A i, j \in 1 .. Len(s) : i <= j => ChannelOf[s[i]] <= ChannelOf[s[j]]

(* A list of receivers, in which each is once. *)
Plain(s) == s \in Seq(Receiver) /\ IsInjective(s)

(* What an insertion does to a list of receivers. *)
LEMMA Inserted ==
  ASSUME NEW s, Plain(s), NEW i \in 1 .. Len(s) + 1, NEW r \in Receiver,
         r \notin ToSet(s)
  PROVE  /\ Plain(InsertAt(s, i, r))
         /\ ToSet(InsertAt(s, i, r)) = ToSet(s) \cup {r}
<1> DEFINE t == InsertAt(s, i, r)
           to(j) == IF j < i THEN j ELSE j + 1
           from(k) == IF k < i THEN k ELSE k - 1
<1>1. s \in Seq(Receiver) /\ \A j, k \in 1 .. Len(s) : s[j] = s[k] => j = k
  BY DEF Plain, IsInjective
<1>2. /\ t \in Seq(Receiver) /\ Len(t) = Len(s) + 1 /\ t[i] = r
      /\ \A j \in 1 .. Len(s) : t[to(j)] = s[j]
  BY <1>1, InsertAtIs
<1> HIDE DEF t
<1>3. \A k \in 1 .. Len(t) : k # i => from(k) \in 1 .. Len(s) /\ k = to(from(k))
  BY <1>2
<1>4. \A k \in 1 .. Len(t) : k # i => t[k] = s[from(k)]
  BY <1>2, <1>3
<1>5. \A j \in 1 .. Len(s) : to(j) \in 1 .. Len(t) /\ s[j] # r
  BY <1>2 DEF ToSet
<1>6. IsInjective(t)
  <2>1. ASSUME NEW j \in 1 .. Len(t), NEW k \in 1 .. Len(t), t[j] = t[k]
        PROVE  j = k
    <3>1. CASE j = i \/ k = i
      <4>1. t[i] = r /\ \A m \in 1 .. Len(t) : m # i => t[m] # r
        BY <1>2, <1>3, <1>4, <1>5, Zenon
      <4> QED
        BY <2>1, <3>1, <4>1, Zenon
    <3>2. CASE j # i /\ k # i
      <4> HIDE DEF to, from
      <4>1. /\ j = to(from(j)) /\ k = to(from(k))
            /\ from(j) \in 1 .. Len(s) /\ from(k) \in 1 .. Len(s)
        BY <1>3, <3>2, Zenon
      <4>2. s[from(j)] = s[from(k)]
        BY <1>4, <2>1, <3>2, Zenon
      <4>3. from(j) = from(k)
        BY <1>1, <4>1, <4>2, Zenon
      <4> QED
        BY <4>1, <4>3, Zenon
    <3> QED
      BY <3>1, <3>2
  <2>2. DOMAIN t = 1 .. Len(t)
    BY <1>2, LenProperties, Zenon
  <2> QED
    BY <2>1, <2>2, Zenon DEF IsInjective
<1>7. ToSet(t) = ToSet(s) \cup {r}
  <2>1. ASSUME NEW q \in ToSet(t)
        PROVE  q \in ToSet(s) \cup {r}
    <3>1. PICK k \in 1 .. Len(t) : q = t[k]
      BY <1>2 DEF ToSet
    <3>2. CASE k = i
      BY <1>2, <3>1, <3>2
    <3>3. CASE k # i
      <4>1. q = s[from(k)] /\ from(k) \in 1 .. Len(s)
        BY <1>3, <1>4, <3>1, <3>3
      <4> QED
        BY <1>1, <4>1 DEF ToSet
    <3> QED
      BY <3>2, <3>3
  <2>2. ASSUME NEW q \in ToSet(s)
        PROVE  q \in ToSet(t)
    <3>1. PICK j \in 1 .. Len(s) : q = s[j]
      BY <1>1 DEF ToSet
    <3>2. q = t[to(j)] /\ to(j) \in 1 .. Len(t)
      BY <1>2, <1>5, <3>1
    <3> QED
      BY <1>2, <3>2 DEF ToSet
  <2>3. r \in ToSet(t)
    BY <1>2 DEF ToSet
  <2> QED
    BY <2>1, <2>2, <2>3
<1> QED
  BY <1>2, <1>6, <1>7 DEF Plain, t

(* What a removal does to a list of receivers. *)
LEMMA Removed ==
  ASSUME NEW s, Plain(s), NEW i \in 1 .. Len(s)
  PROVE  /\ Plain(RemoveAt(s, i))
         /\ ToSet(RemoveAt(s, i)) = ToSet(s) \ {s[i]}
         /\ InChannelOrder(s) => InChannelOrder(RemoveAt(s, i))
<1> DEFINE t == RemoveAt(s, i)
           from(k) == IF k < i THEN k ELSE k + 1
           to(j) == IF j < i THEN j ELSE j - 1
<1>1. s \in Seq(Receiver) /\ \A j, k \in 1 .. Len(s) : s[j] = s[k] => j = k
  BY DEF Plain, IsInjective
<1>2. /\ t \in Seq(Receiver) /\ Len(t) = Len(s) - 1
      /\ \A k \in 1 .. Len(t) : t[k] = s[from(k)]
  BY <1>1, RemoveAtIs
<1> HIDE DEF t
<1>3. \A k \in 1 .. Len(t) : from(k) \in 1 .. Len(s) /\ from(k) # i
  BY <1>2
<1>4. \A j \in 1 .. Len(s) : j # i => to(j) \in 1 .. Len(t) /\ j = from(to(j))
  BY <1>2
<1>5. \A j, k \in 1 .. Len(t) : /\ from(j) = from(k) => j = k
                                /\ j <= k => from(j) <= from(k)
  BY <1>2
<1> HIDE DEF from, to
<1>6. IsInjective(t)
  <2>1. ASSUME NEW j \in 1 .. Len(t), NEW k \in 1 .. Len(t), t[j] = t[k]
        PROVE  j = k
    <3>1. s[from(j)] = s[from(k)]
      BY <1>2, <2>1, Zenon
    <3>2. from(j) \in 1 .. Len(s) /\ from(k) \in 1 .. Len(s)
      BY <1>3, <2>1, Zenon
    <3>3. from(j) = from(k)
      BY <1>1, <3>1, <3>2, Zenon
    <3> QED
      BY <1>5, <2>1, <3>3, Zenon
  <2>2. DOMAIN t = 1 .. Len(t)
    BY <1>2, LenProperties, Zenon
  <2> QED
    BY <2>1, <2>2, Zenon DEF IsInjective
<1>7. ToSet(t) = ToSet(s) \ {s[i]}
  <2>1. ASSUME NEW q \in ToSet(t)
        PROVE  q \in ToSet(s) \ {s[i]}
    <3>1. PICK k \in 1 .. Len(t) : q = t[k]
      BY <1>2 DEF ToSet
    <3> QED
      BY <1>1, <1>2, <1>3, <3>1 DEF ToSet
  <2>2. ASSUME NEW q \in ToSet(s) \ {s[i]}
        PROVE  q \in ToSet(t)
    <3>1. PICK j \in 1 .. Len(s) : q = s[j]
      BY <1>1 DEF ToSet
    <3>2. q = t[to(j)] /\ to(j) \in 1 .. Len(t)
      BY <1>2, <1>4, <3>1
    <3> QED
      BY <1>2, <3>2 DEF ToSet
  <2> QED
    BY <2>1, <2>2
<1>8. InChannelOrder(s) => InChannelOrder(t)
  BY <1>2, <1>3, <1>5 DEF InChannelOrder
<1> QED
  BY <1>2, <1>6, <1>7, <1>8 DEF Plain, t

(* The shortest sequences. *)
LEMMA EmptyIs == DOMAIN << >> = {}
<1>1. << >> \in Seq({}) /\ Len(<< >>) = 0
  OBVIOUS
<1>2. DOMAIN << >> = 1 .. 0
  BY <1>1, LenProperties
<1> QED
  BY <1>2

LEMMA OneIs ==
  ASSUME NEW e
  PROVE  \A i \in DOMAIN << e >> : << e >>[i] = e
<1> DEFINE s == << e >>
<1>1. s \in Seq({e}) /\ Len(s) = 1
  OBVIOUS
<1> HIDE DEF s
<1>2. DOMAIN s = 1 .. Len(s) /\ \A i \in 1 .. Len(s) : s[i] \in {e}
  BY <1>1, LenProperties, ElementOfSeq
<1>3. \A i \in DOMAIN s : s[i] = e
  BY <1>2
<1> QED
  BY <1>3 DEF s

LEMMA ShorterRange == \A n \in Nat : \A i \in 1 .. n - 1 : i \in 1 .. n
OBVIOUS

(* Leaving the last element out. *)
LEMMA FrontIs ==
  ASSUME NEW S, NEW s \in Seq(S), s # << >>
  PROVE  /\ Front(s) \in Seq(S) /\ Len(Front(s)) = Len(s) - 1
         /\ \A i \in 1 .. Len(s) - 1 : Front(s)[i] = s[i]
<1>1. PICK n \in 1 .. Len(s) : n = Len(s)
  OBVIOUS
<1>2. /\ SubSeq(s, 1, n - 1) \in Seq(S) /\ Len(SubSeq(s, 1, n - 1)) = n - 1
      /\ \A i \in 1 .. n - 1 : SubSeq(s, 1, n - 1)[i] = s[i]
  OBVIOUS
<1> QED
  BY <1>1, <1>2 DEF Front

(* Changing the last element of a sequence. *)
LEMMA LastChanged ==
  ASSUME NEW S, NEW s \in Seq(S), s # << >>, NEW l \in S
  PROVE  LET t == [s EXCEPT ![Len(s)] = l]
         IN /\ t \in Seq(S) /\ Len(t) = Len(s) /\ t[Len(s)] = l /\ t # << >>
            /\ \A i \in 1 .. Len(s) : i # Len(s) => t[i] = s[i]
  OBVIOUS

-----------------------------------------------------------------------------
(* The multimap. *)

LEMMA IndexIs ==
  ASSUME Plain(receivers)
  PROVE  /\ \A r \in Registered :
              Index(r) \in 1 .. Len(receivers) /\ receivers[Index(r)] = r
         /\ \A i \in 1 .. Len(receivers) :
              receivers[i] \in Registered /\ Index(receivers[i]) = i
<1>1. /\ DOMAIN receivers = 1 .. Len(receivers)
      /\ \A i, j \in 1 .. Len(receivers) : receivers[i] = receivers[j] => i = j
  BY DEF Plain, IsInjective
<1>2. ASSUME NEW r \in Registered
      PROVE  Index(r) \in 1 .. Len(receivers) /\ receivers[Index(r)] = r
  <2>1. \E i \in DOMAIN receivers : receivers[i] = r
    BY DEF Registered, ToSet
  <2> QED
    BY <1>1, <2>1 DEF Index
<1>3. \A i \in 1 .. Len(receivers) : receivers[i] \in Registered
  BY <1>1 DEF Registered, ToSet
<1> QED
  BY <1>1, <1>2, <1>3

LEMMA AtTyped ==
  ASSUME Plain(receivers)
  PROVE  Registered \subseteq Receiver /\ \A i : At(i) \in Registered \cup {Stop}
<1>1. \A i \in DOMAIN receivers : receivers[i] \in Registered
  BY DEF Registered, ToSet
<1>2. Registered \subseteq Receiver
  BY DEF Registered, ToSet, Plain
<1> QED
  BY <1>1, <1>2 DEF At

LEMMA ChannelsAre ==
  ASSUME NEW s, Plain(s)
  PROVE  Len(s) \in Nat /\ \A j \in 1 .. Len(s) : ChannelOf[s[j]] \in Nat
<1>1. s \in Seq(Receiver)
  BY DEF Plain
<1>2. Len(s) \in Nat /\ \A j \in 1 .. Len(s) : s[j] \in Receiver
  BY <1>1
<1> QED
  BY <1>2, NotifyAssumption

LEMMA LowerBoundIs ==
  ASSUME Plain(receivers), InChannelOrder(receivers), NEW c \in Nat
  PROVE  /\ LowerBound(c) \in 1 .. Len(receivers) + 1
         /\ \A j \in 1 .. Len(receivers) :
              j < LowerBound(c) <=> ChannelOf[receivers[j]] < c
<1> DEFINE n == Len(receivers)
           ch(j) == ChannelOf[receivers[j]]
           rest == {i \in 1 .. n + 1 : i = n + 1 \/ ch(i) >= c}
<1>1. /\ n \in Nat /\ \A j \in 1 .. n : ch(j) \in Nat
      /\ \A i, j \in 1 .. n : i <= j => ch(i) <= ch(j)
  BY ChannelsAre DEF InChannelOrder
<1>2. \E i \in rest : \A j \in rest : ~(j < i)
  <2>1. n + 1 \in rest /\ rest \subseteq Nat
    BY <1>1
  <2> HIDE DEF rest
  <2> DEFINE less == OpToRel(<, Nat)
  <2>2. \A x, y \in Nat : <<y, x>> \in less <=> y < x
    BY DEF OpToRel
  <2>3. IsWellFoundedOn(less, Nat)
    BY NatLessThanWellFounded
  <2> HIDE DEF less
  <2>4. PICK i \in rest : \A j \in rest : <<j, i>> \notin less
    BY <2>1, <2>3, WFMin
  <2> QED
    BY <2>1, <2>2, <2>4
<1>3. \E i \in 1 .. n + 1 : /\ i = n + 1 \/ ch(i) >= c
                            /\ \A j \in 1 .. i - 1 : ch(j) < c
  <2>1. PICK i \in rest : \A j \in rest : ~(j < i)
    BY <1>2
  <2>2. ASSUME NEW j \in 1 .. i - 1
        PROVE  ch(j) < c
    <3>1. j \in 1 .. n /\ j # n + 1 /\ j < i /\ j \in 1 .. n + 1
      BY <1>1
    <3>2. j \notin rest
      BY <2>1, <3>1
    <3> QED
      BY <1>1, <3>1, <3>2
  <2> QED
    BY <2>2
<1> DEFINE lb == LowerBound(c)
<1>4. /\ lb \in 1 .. n + 1
      /\ lb = n + 1 \/ ch(lb) >= c
      /\ \A j \in 1 .. lb - 1 : ch(j) < c
  BY <1>3 DEF LowerBound
<1> HIDE DEF lb, n, ch
<1>5. ASSUME NEW j \in 1 .. n
      PROVE  j < lb <=> ch(j) < c
  <2>1. CASE j < lb
    <3>1. j \in 1 .. lb - 1
      BY <1>1, <1>4, <2>1
    <3> QED
      BY <1>4, <2>1, <3>1
  <2>2. CASE ~(j < lb)
    <3>1. lb \in 1 .. n /\ lb <= j /\ lb # n + 1
      BY <1>1, <1>4, <2>2
    <3>2. ch(lb) <= ch(j) /\ ch(lb) >= c /\ ch(lb) \in Nat /\ ch(j) \in Nat
      BY <1>1, <1>4, <3>1
    <3> QED
      BY <2>2, <3>2
  <2> QED
    BY <2>1, <2>2
<1> QED
  BY <1>4, <1>5 DEF lb, n, ch

(* A new receiver is put where its channel belongs. *)
LEMMA InsertedInOrder ==
  ASSUME Plain(receivers), InChannelOrder(receivers), NEW r \in Receiver
  PROVE  /\ LowerBound(ChannelOf[r]) \in 1 .. Len(receivers) + 1
         /\ InChannelOrder(InsertAt(receivers, LowerBound(ChannelOf[r]), r))
<1> DEFINE s == receivers
           n == Len(s)
           c == ChannelOf[r]
           lb == LowerBound(c)
           t == InsertAt(s, lb, r)
           from(k) == IF k < lb THEN k ELSE k - 1
<1>1. /\ s \in Seq(Receiver) /\ n \in Nat /\ c \in Nat
      /\ \A j \in 1 .. n : ChannelOf[s[j]] \in Nat
      /\ \A i, j \in 1 .. n : i <= j => ChannelOf[s[i]] <= ChannelOf[s[j]]
  <2>1. s \in Seq(Receiver) /\ n \in Nat
    BY DEF Plain
  <2>2. c \in Nat
    BY NotifyAssumption
  <2>3. \A j \in 1 .. n : ChannelOf[s[j]] \in Nat
    BY ChannelsAre
  <2>4. \A i, j \in 1 .. n : i <= j => ChannelOf[s[i]] <= ChannelOf[s[j]]
    BY DEF InChannelOrder
  <2> QED
    BY <2>1, <2>2, <2>3, <2>4
<1>2. /\ lb \in 1 .. n + 1
      /\ \A j \in 1 .. n : j < lb <=> ChannelOf[s[j]] < c
  BY <1>1, LowerBoundIs
<1> HIDE DEF lb
<1> HIDE DEF s
<1>3. /\ Len(t) = n + 1 /\ t[lb] = r
      /\ \A j \in 1 .. n : t[IF j < lb THEN j ELSE j + 1] = s[j]
  <2>1. s \in Seq(Receiver) /\ lb \in 1 .. Len(s) + 1
    BY <1>1, <1>2
  <2>2. /\ Len(InsertAt(s, lb, r)) = Len(s) + 1 /\ InsertAt(s, lb, r)[lb] = r
        /\ \A j \in 1 .. Len(s) : InsertAt(s, lb, r)[IF j < lb THEN j ELSE j + 1] = s[j]
    <3> HIDE DEF t, n
    <3> QED
      BY <2>1, InsertAtIs
  <2> QED
    BY <2>2, Zenon
<1> HIDE DEF t, n
<1>4. \A k \in 1 .. n + 1 : k # lb => /\ from(k) \in 1 .. n
                                      /\ k < lb => from(k) < lb
                                      /\ k > lb => ~(from(k) < lb)
                                      /\ t[k] = s[from(k)]
  <2>1. ASSUME NEW k \in 1 .. n + 1, k # lb
        PROVE  /\ from(k) \in 1 .. n
               /\ k < lb => from(k) < lb
               /\ k > lb => ~(from(k) < lb)
               /\ t[k] = s[from(k)]
    <3>1. from(k) \in 1 .. n /\ k = IF from(k) < lb THEN from(k) ELSE from(k) + 1
      BY <1>1, <1>2, <2>1
    <3>2. (k < lb => from(k) < lb) /\ (k > lb => ~(from(k) < lb))
      BY <1>1, <1>2, <2>1
    <3> HIDE DEF from
    <3> QED
      BY <1>3, <3>1, <3>2
  <2> QED
    BY <2>1
<1>5. \A j, k \in 1 .. n + 1 :
        j # lb /\ k # lb /\ j <= k => from(j) <= from(k)
  BY <1>1, <1>2
<1> HIDE DEF from, c
<1>6. ASSUME NEW j \in 1 .. n + 1, NEW k \in 1 .. n + 1, j <= k
      PROVE  ChannelOf[t[j]] <= ChannelOf[t[k]]
  <2>1. CASE j = lb /\ k = lb
    BY <1>1, <1>3, <2>1 DEF c
  <2>2. CASE j = lb /\ k # lb
    <3>1. k > lb
      BY <1>2, <1>6, <2>2
    <3>2. /\ from(k) \in 1 .. n /\ t[k] = s[from(k)]
          /\ ~(ChannelOf[s[from(k)]] < c)
      BY <1>2, <1>4, <2>2, <3>1
    <3>3. ChannelOf[t[j]] = c
      BY <1>3, <2>2 DEF c
    <3> QED
      BY <1>1, <3>2, <3>3
  <2>3. CASE j # lb /\ k = lb
    <3>1. j < lb
      BY <1>2, <1>6, <2>3
    <3>2. /\ from(j) \in 1 .. n /\ t[j] = s[from(j)]
          /\ ChannelOf[s[from(j)]] < c
      BY <1>2, <1>4, <2>3, <3>1
    <3>3. ChannelOf[t[k]] = c
      BY <1>3, <2>3 DEF c
    <3> QED
      BY <1>1, <3>2, <3>3
  <2>4. CASE j # lb /\ k # lb
    <3>1. from(j) \in 1 .. n /\ from(k) \in 1 .. n /\ from(j) <= from(k)
      BY <1>4, <1>5, <1>6, <2>4
    <3>2. t[j] = s[from(j)] /\ t[k] = s[from(k)]
      BY <1>4, <2>4
    <3> QED
      BY <1>1, <3>1, <3>2
  <2> QED
    BY <2>1, <2>2, <2>3, <2>4
<1>7. InChannelOrder(t)
  BY <1>3, <1>6 DEF InChannelOrder
<1> QED
  BY <1>2, <1>7 DEF c, lb, t, s, n

-----------------------------------------------------------------------------
(* Types.  That the list is in order belongs to them: it is what places the  *)
(* next receiver.                                                            *)

ReceiversFit ==
  /\ Plain(receivers) /\ InChannelOrder(receivers)
  /\ object \in [Receiver -> {"none", "alive", "gone"}]
  /\ Registered = {r \in Receiver : object[r] = "alive"}

ServerFits ==
  /\ trans \in {"none", "block", "plain", "failed block"}
  /\ listening \subseteq Channels /\ fallback \subseteq Channels
  /\ channel \in Seq(Channels) /\ Len(channel) <= MaxNotifs

QueuesFit == inbox \in Seq(Notifs) /\ queue \in Seq(Notifs)

LoopsTyped == loops \in Seq(Loop) /\ Len(loops) <= MaxDepth + 1

CallsTyped == calls \in [1 .. MaxNotifs -> [Receiver -> 0 .. 2]]

NotifyTyped ==
  ReceiversFit /\ ServerFits /\ QueuesFit /\ LoopsTyped /\ CallsTyped

LEMMA TypedIsTypeOK == NotifyTyped => NotifyTypeOK
BY DEF NotifyTyped, NotifyTypeOK, ReceiversFit, ServerFits, QueuesFit, LoopsTyped,
       CallsTyped, Plain

LEMMA BoundsAre == MaxNotifs \in Nat /\ MaxDepth \in Nat /\ Stop \notin Receiver
BY NotifyAssumption, Zenon DEF Stop

LEMMA NotifyTypedInit == NotifyInit => NotifyTyped
<1> SUFFICES ASSUME NotifyInit
             PROVE  NotifyTyped
  OBVIOUS
<1>1. ReceiversFit
  <2>1. receivers = << >> /\ object = [r \in Receiver |-> "none"]
    BY DEF NotifyInit
  <2>2. Registered = {}
    BY <2>1 DEF Registered, ToSet
  <2>3. Plain(receivers) /\ InChannelOrder(receivers)
    BY <2>1 DEF Plain, InChannelOrder, IsInjective
  <2> QED
    BY <2>1, <2>2, <2>3 DEF ReceiversFit
<1>2. ServerFits
  <2>1. trans = "none" /\ listening = {} /\ fallback = {} /\ channel = << >>
    BY DEF NotifyInit
  <2> QED
    BY <2>1, BoundsAre DEF ServerFits
<1>3. QueuesFit
  BY DEF NotifyInit, QueuesFit
<1>4. LoopsTyped
  <2>1. loops = << >>
    BY DEF NotifyInit
  <2> QED
    BY <2>1, BoundsAre DEF LoopsTyped
<1>5. CallsTyped
  BY DEF NotifyInit, CallsTyped
<1> QED
  BY <1>1, <1>2, <1>3, <1>4, <1>5 DEF NotifyTyped

(* Reading what has come. *)
LEMMA Consumed ==
  ASSUME QueuesFit, Consume, channel' = channel
  PROVE  /\ QueuesFit'
         /\ Len(queue') + Len(inbox') = Len(queue) + Len(inbox)
<1>1. CASE trans \in {"block", "failed block"}
  BY <1>1 DEF QueuesFit, Consume, Notifs
<1>2. CASE trans \notin {"block", "failed block"}
  <2>1. queue' = queue \o inbox /\ inbox' = << >>
    BY <1>2 DEF Consume
  <2>2. /\ queue \o inbox \in Seq(Notifs)
        /\ Len(queue \o inbox) = Len(queue) + Len(inbox)
    BY ConcatProperties DEF QueuesFit
  <2>3. Len(queue) \in Nat /\ Len(inbox) \in Nat
    BY DEF QueuesFit
  <2> QED
    BY <2>1, <2>2, <2>3 DEF QueuesFit, Notifs
<1> QED
  BY <1>1, <1>2

LEMMA CalledTyped ==
  /\ Called \in Loop
  /\ \A await \in {"no", "forever", "timeout"} :
       LET l == [Called EXCEPT !.await = await]
       IN /\ l \in Loop /\ l.n = 0 /\ l.at = Stop /\ l.stop = Stop /\ ~l.inside
          /\ l.due = {}
<1>1. Called \in Loop /\ Stop \in Iterator
  <2>1. 0 \in 0 .. MaxNotifs
    BY BoundsAre
  <2> QED
    BY <2>1 DEF Called, Loop, Iterator
<1>2. ASSUME NEW await \in {"no", "forever", "timeout"}
      PROVE  LET l == [Called EXCEPT !.await = await]
             IN /\ l \in Loop /\ l.n = 0 /\ l.at = Stop /\ l.stop = Stop
                /\ ~l.inside /\ l.due = {}
  <2>1. 0 \in 0 .. MaxNotifs
    BY BoundsAre
  <2> QED
    BY <1>1, <2>1 DEF Called, Loop, Iterator
<1> QED
  BY <1>1, <1>2

(* A call of get_notifs begins a loop, or none in a transaction. *)
LEMMA GetNotifsTyped ==
  ASSUME LoopsTyped, NEW await \in {"no", "forever", "timeout"}, GetNotifs(await),
         DeliversNow \/ await # "no" => Len(loops) <= MaxDepth
  PROVE  LoopsTyped'
<1>1. CASE DeliversNow \/ await # "no"
  <2> DEFINE l == [Called EXCEPT !.await = await]
  <2>1. l \in Loop
    BY CalledTyped
  <2>2. loops' = Append(loops, l)
    BY <1>1 DEF GetNotifs
  <2> HIDE DEF l
  <2>3. loops' \in Seq(Loop) /\ Len(loops') = Len(loops) + 1
    BY <2>1, <2>2 DEF LoopsTyped
  <2> QED
    BY <1>1, <2>3, BoundsAre DEF LoopsTyped
<1>2. CASE ~(DeliversNow \/ await # "no")
  <2>1. loops' = loops
    BY <1>2 DEF GetNotifs
  <2> QED
    BY <2>1 DEF LoopsTyped
<1> QED
  BY <1>1, <1>2

LEMMA MayLoopBound ==
  ASSUME LoopsTyped, MayLoop
  PROVE  /\ DeliversNow => Len(loops) <= MaxDepth
         /\ ~InCallback => Len(loops) <= MaxDepth
<1>1. Len(loops) \in Nat /\ MaxDepth \in Nat
  BY BoundsAre DEF LoopsTyped
<1> QED
  BY <1>1 DEF MayLoop, DeliversNow, InCallback

LEMMA TopTyped ==
  ASSUME LoopsTyped, InCallback
  PROVE  /\ Top \in Loop /\ Len(loops) \in 1 .. Len(loops)
         /\ Top.n \in 0 .. MaxNotifs /\ Top.at \in Iterator /\ Top.stop \in Iterator
<1>1. loops \in Seq(Loop) /\ Len(loops) \in 1 .. Len(loops)
  BY DEF LoopsTyped, InCallback
<1>2. Top \in Loop
  BY <1>1 DEF Top
<1> QED
  BY <1>1, <1>2 DEF Loop

LEMMA SetTopTyped ==
  ASSUME LoopsTyped, InCallback, NEW l \in Loop, SetTop(l)
  PROVE  /\ LoopsTyped' /\ Len(loops') = Len(loops) /\ loops'[Len(loops)] = l
         /\ \A i \in 1 .. Len(loops) : i # Len(loops) => loops'[i] = loops[i]
<1>1. loops \in Seq(Loop) /\ loops # << >> /\ loops' = [loops EXCEPT ![Len(loops)] = l]
  BY DEF LoopsTyped, InCallback, SetTop
<1> QED
  BY <1>1, LastChanged DEF LoopsTyped

(* The receivers change in two actions. *)
LEMMA AddTyped ==
  ASSUME ReceiversFit, ServerFits, AddReceiver
  PROVE  ReceiversFit' /\ ServerFits' /\ Registered \subseteq Registered'
<1>1. PICK r \in Receiver :
        /\ object[r] = "none"
        /\ object' = [object EXCEPT ![r] = "alive"]
        /\ receivers' = InsertAt(receivers, LowerBound(ChannelOf[r]), r)
        /\ IF NeedsListen(ChannelOf[r])
             THEN /\ trans # "failed block"
                  /\ SetListening(listening \cup {ChannelOf[r]})
             ELSE UNCHANGED <<listening, fallback>>
  BY Zenon DEF AddReceiver
<1>2. UNCHANGED <<trans, channel>>
  BY DEF AddReceiver
<1>3. r \notin Registered
  BY <1>1 DEF ReceiversFit
<1>4. /\ LowerBound(ChannelOf[r]) \in 1 .. Len(receivers) + 1
      /\ InChannelOrder(receivers')
  BY <1>1, InsertedInOrder DEF ReceiversFit
<1>5. Plain(receivers') /\ Registered' = Registered \cup {r}
  <2>1. r \notin ToSet(receivers) /\ Plain(receivers)
    BY <1>3 DEF Registered, ReceiversFit
  <2> QED
    BY <1>1, <1>4, <2>1, Inserted DEF Registered
<1>6. ReceiversFit'
  <2>1. object' \in [Receiver -> {"none", "alive", "gone"}]
    BY <1>1 DEF ReceiversFit
  <2>2. Registered' = {q \in Receiver : object'[q] = "alive"}
    BY <1>1, <1>5 DEF ReceiversFit
  <2> QED
    BY <1>4, <1>5, <2>1, <2>2 DEF ReceiversFit
<1>7. ServerFits'
  <2>1. ChannelOf[r] \in Channels
    BY DEF Channels
  <2> QED
    BY <1>1, <1>2, <2>1 DEF ServerFits, SetListening, Channels
<1> QED
  BY <1>5, <1>6, <1>7

LEMMA RemoveTyped ==
  ASSUME ReceiversFit, ServerFits, RemoveReceiver
  PROVE  /\ ReceiversFit' /\ ServerFits' /\ Registered' \subseteq Registered
<1>1. PICK r \in Registered :
        /\ object[r] = "alive"
        /\ object' = [object EXCEPT ![r] = "gone"]
        /\ receivers' = Erase(r)
        /\ IF IsLast(r) /\ trans # "failed block"
             THEN SetListening(listening \ {ChannelOf[r]}) /\ GetNotifs("no")
             ELSE UNCHANGED <<listening, fallback, inbox, queue, loops>>
  BY Zenon DEF RemoveReceiver
<1>2. UNCHANGED <<trans, channel>>
  BY DEF RemoveReceiver
<1>3. Index(r) \in 1 .. Len(receivers) /\ receivers[Index(r)] = r /\ r \in Receiver
  BY IndexIs, AtTyped DEF ReceiversFit
<1>4. /\ Plain(receivers') /\ InChannelOrder(receivers')
      /\ Registered' = Registered \ {r}
  BY <1>1, <1>3, Removed DEF ReceiversFit, Erase, Registered
<1>5. ReceiversFit'
  <2>1. object' \in [Receiver -> {"none", "alive", "gone"}]
    BY <1>1 DEF ReceiversFit
  <2>2. Registered' = {q \in Receiver : object'[q] = "alive"}
    BY <1>1, <1>3, <1>4 DEF ReceiversFit
  <2> QED
    BY <1>4, <2>1, <2>2 DEF ReceiversFit
<1>6. ServerFits'
  BY <1>1, <1>2 DEF ServerFits, SetListening, Channels
<1> QED
  BY <1>4, <1>5, <1>6

(* What an action leaves alone keeps its type. *)
LEMMA Frames ==
  /\ ReceiversFit /\ UNCHANGED <<receivers, object>> => ReceiversFit'
  /\ ServerFits /\ UNCHANGED <<trans, listening, fallback, channel>> => ServerFits'
  /\ QueuesFit /\ UNCHANGED <<channel, inbox, queue>> => QueuesFit'
  /\ LoopsTyped /\ UNCHANGED loops => LoopsTyped'
  /\ CallsTyped /\ UNCHANGED calls => CallsTyped'
<1>1. ReceiversFit /\ UNCHANGED <<receivers, object>> => ReceiversFit'
  BY DEF ReceiversFit, Plain, InChannelOrder, IsInjective, Registered, ToSet
<1>2. ServerFits /\ UNCHANGED <<trans, listening, fallback, channel>> => ServerFits'
  BY DEF ServerFits, Channels
<1>3. QueuesFit /\ UNCHANGED <<channel, inbox, queue>> => QueuesFit'
  BY DEF QueuesFit, Notifs
<1> QED
  BY <1>1, <1>2, <1>3 DEF LoopsTyped, CallsTyped

(* The loop at its next notification. *)
TakenLoop ==
  LET c == channel[Head(queue)]
  IN [Top EXCEPT !.n = Head(queue), !.some = TRUE,
                 !.at = At(LowerBound(c)), !.stop = At(UpperBound(c)),
                 !.due = {r \in Registered : ChannelOf[r] = c}]

LEMMA TakeIs ==
  ASSUME NotifyTyped, Take
  PROVE  /\ InCallback /\ ~Top.inside /\ Top.at = Top.stop
         /\ Head(queue) \in Notifs /\ queue # << >> /\ channel[Head(queue)] \in Nat
         /\ TakenLoop \in Loop /\ SetTop(TakenLoop) /\ queue' = Tail(queue)
         /\ UNCHANGED <<receivers, object, trans, listening, fallback, channel,
                        inbox, calls>>
<1>1. /\ InCallback /\ ~Top.inside /\ Top.at = Top.stop /\ queue # << >>
      /\ SetTop(TakenLoop) /\ queue' = Tail(queue)
      /\ UNCHANGED <<receivers, object, trans, listening, fallback, channel,
                     inbox, calls>>
  BY Zenon DEF Take, TakenLoop, LoopStep, Taken
<1>2. Head(queue) \in Notifs /\ channel \in Seq(Channels) /\ Len(channel) <= MaxNotifs
  <2>1. queue \in Seq(Notifs) /\ queue # << >>
    BY <1>1 DEF NotifyTyped, QueuesFit
  <2>2. Head(queue) \in Notifs
    BY <2>1
  <2> QED
    BY <2>2 DEF NotifyTyped, ServerFits
<1>3. Head(queue) \in 0 .. MaxNotifs /\ channel[Head(queue)] \in Channels
  BY <1>2, BoundsAre DEF Notifs
<1>4. channel[Head(queue)] \in Nat
  BY <1>3, NotifyAssumption DEF Channels
<1>5. Plain(receivers)
  BY DEF NotifyTyped, ReceiversFit
<1>6. /\ At(LowerBound(channel[Head(queue)])) \in Iterator
      /\ At(UpperBound(channel[Head(queue)])) \in Iterator
      /\ Registered \subseteq Receiver
  BY <1>5, AtTyped DEF Iterator
<1>7. Top \in Loop
  BY <1>1, TopTyped DEF NotifyTyped
<1>8. TakenLoop \in Loop
  BY <1>3, <1>6, <1>7 DEF TakenLoop, Loop
<1> QED
  BY <1>1, <1>2, <1>4, <1>8

LEMMA CallIs ==
  ASSUME NotifyTyped, CallReceiver
  PROVE  LET l == [Top EXCEPT !.inside = TRUE]
         IN /\ InCallback /\ ~Top.inside /\ Top.at # Top.stop
            /\ Top.at \in Registered /\ Valid(Top.stop)
            /\ l \in Loop /\ SetTop(l)
            /\ calls' = [calls EXCEPT ![Top.n][Top.at] = IF @ < 2 THEN @ + 1 ELSE 2]
            /\ UNCHANGED <<receivers, object, trans, listening, fallback, channel,
                           inbox, queue>>
<1>1. /\ InCallback /\ ~Top.inside /\ Top.at # Top.stop
      /\ Top.at \in Registered /\ Valid(Top.stop)
      /\ SetTop([Top EXCEPT !.inside = TRUE])
      /\ calls' = [calls EXCEPT ![Top.n][Top.at] = IF @ < 2 THEN @ + 1 ELSE 2]
      /\ UNCHANGED <<receivers, object, trans, listening, fallback, channel,
                     inbox, queue>>
  BY Zenon DEF CallReceiver, LoopStep, Valid
<1>2. Top \in Loop
  BY <1>1, TopTyped DEF NotifyTyped
<1>3. [Top EXCEPT !.inside = TRUE] \in Loop
  BY <1>2 DEF Loop
<1> QED
  BY <1>1, <1>3, Zenon

LEMMA ReturnIs ==
  ASSUME NotifyTyped, ReturnFromCallback
  PROVE  LET l == [Top EXCEPT !.inside = FALSE, !.at = Successor(Top.at)]
         IN /\ InCallback /\ Top.inside /\ Valid(Top.at)
            /\ l \in Loop /\ SetTop(l)
            /\ UNCHANGED <<receivers, object, trans, listening, fallback, channel,
                           inbox, queue, calls>>
<1>1. /\ InCallback /\ Top.inside /\ Valid(Top.at)
      /\ UNCHANGED <<receivers, object, trans, listening, fallback, channel,
                     inbox, queue, calls>>
  BY Zenon DEF ReturnFromCallback
<1>2. SetTop([Top EXCEPT !.inside = FALSE, !.at = Successor(Top.at)])
  <2>1. PICK throws \in BOOLEAN :
          SetTop([Top EXCEPT !.inside = FALSE,
                             !.at = IF throws THEN AfterThrow(Top.at, Top.stop)
                                    ELSE Successor(Top.at)])
    BY DEF ReturnFromCallback, SetTop
  <2>2. (IF throws THEN AfterThrow(Top.at, Top.stop) ELSE Successor(Top.at)) =
        Successor(Top.at)
    BY DEF AfterThrow
  <2> QED
    BY <2>1, <2>2
<1>3. Top \in Loop
  BY <1>1, TopTyped DEF NotifyTyped
<1>4. Successor(Top.at) \in Iterator
  BY AtTyped DEF NotifyTyped, ReceiversFit, Successor, Iterator
<1>5. [Top EXCEPT !.inside = FALSE, !.at = Successor(Top.at)] \in Loop
  BY <1>3, <1>4 DEF Loop
<1> QED
  BY <1>1, <1>2, <1>5, Zenon

LEMMA CallsTypedNext ==
  ASSUME CallsTyped, NEW n, NEW r \in Receiver,
         calls' = [calls EXCEPT ![n][r] = IF @ < 2 THEN @ + 1 ELSE 2]
  PROVE  CallsTyped'
<1>1. CASE n \in 1 .. MaxNotifs
  <2>1. calls[n] \in [Receiver -> 0 .. 2]
    BY <1>1 DEF CallsTyped
  <2>2. (IF calls[n][r] < 2 THEN calls[n][r] + 1 ELSE 2) \in 0 .. 2
    BY <2>1
  <2>3. [calls[n] EXCEPT ![r] = IF calls[n][r] < 2 THEN calls[n][r] + 1 ELSE 2]
          \in [Receiver -> 0 .. 2]
    BY <2>1, <2>2
  <2> QED
    BY <2>3 DEF CallsTyped
<1>2. CASE n \notin 1 .. MaxNotifs
  BY <1>2 DEF CallsTyped
<1> QED
  BY <1>1, <1>2

LEMMA NotifyTypedNext ==
  ASSUME NotifyTyped, [NotifyNext]_notifyVars
  PROVE  NotifyTyped'
<1> USE DEF NotifyTyped
<1>1. CASE Take
  <2>1. QueuesFit'
    <3>1. queue \in Seq(Notifs) /\ queue # << >> /\ inbox \in Seq(Notifs)
      BY <1>1, TakeIs DEF QueuesFit
    <3>2. Tail(queue) \in Seq(Notifs)
      BY <3>1
    <3>3. queue' = Tail(queue) /\ inbox' = inbox /\ Notifs' = Notifs
      BY <1>1, TakeIs DEF Notifs
    <3> QED
      BY <3>1, <3>2, <3>3 DEF QueuesFit
  <2>2. LoopsTyped'
    BY <1>1, TakeIs, SetTopTyped
  <2> QED
    BY <1>1, TakeIs, Frames, <2>1, <2>2
<1>2. CASE CallReceiver
  <2>1. CallsTyped'
    <3>1. Top.at \in Receiver
      BY <1>2, CallIs, AtTyped DEF ReceiversFit
    <3> QED
      BY <1>2, <3>1, CallIs, CallsTypedNext
  <2>2. LoopsTyped'
    BY <1>2, CallIs, SetTopTyped
  <2> QED
    BY <1>2, CallIs, Frames, <2>1, <2>2
<1>3. CASE ReturnFromCallback
  <2>1. LoopsTyped'
    BY <1>3, ReturnIs, SetTopTyped
  <2> QED
    BY <1>3, ReturnIs, Frames, <2>1
<1>4. CASE LoopEnd
  <2>1. LoopsTyped'
    <3>1. loops' = SubSeq(loops, 1, Len(loops) - 1) /\ loops # << >>
      BY <1>4 DEF LoopEnd, Front, LoopStep, InCallback
    <3> QED
      <4>1. loops \in Seq(Loop) /\ Len(loops) <= MaxDepth + 1 /\ MaxDepth \in Nat
        BY BoundsAre DEF LoopsTyped
      <4>2. loops' \in Seq(Loop) /\ Len(loops') = Len(loops) - 1
        BY <3>1, <4>1, FrontIs DEF Front
      <4> QED
        BY <4>1, <4>2 DEF LoopsTyped
  <2> QED
    BY <1>4, <2>1, Frames DEF LoopEnd
<1>5. CASE Woken
  <2>1. LoopsTyped'
    <3>1. loops' = << Called >> \/ loops' = << >>
      BY <1>5 DEF Woken
    <3> QED
      <4>1. << Called >> \in Seq(Loop) /\ Len(<< Called >>) = 1
        BY CalledTyped
      <4>2. 0 <= MaxDepth + 1 /\ 1 <= MaxDepth + 1
        BY BoundsAre
      <4>3. << >> \in Seq(Loop) /\ Len(<< >>) = 0
        OBVIOUS
      <4>4. CASE loops' = << Called >>
        BY <4>1, <4>2, <4>4, Zenon DEF LoopsTyped
      <4>5. CASE loops' = << >>
        BY <4>2, <4>3, <4>5, Zenon DEF LoopsTyped
      <4> QED
        BY <3>1, <4>4, <4>5
  <2>2. QueuesFit'
    BY <1>5, Consumed DEF Woken
  <2> QED
    BY <1>5, <2>1, <2>2, Frames DEF Woken
<1>6. CASE Exec
  <2>1. LoopsTyped'
    BY <1>6, GetNotifsTyped, MayLoopBound DEF Exec
  <2>2. QueuesFit'
    BY <1>6, Consumed DEF Exec, GetNotifs
  <2> QED
    BY <1>6, <2>1, <2>2, Frames DEF Exec
<1>7. CASE Await
  <2>1. PICK t \in {"forever", "timeout"} : GetNotifs(t)
    BY <1>7 DEF Await
  <2>2. LoopsTyped'
    BY <1>7, <2>1, GetNotifsTyped, MayLoopBound DEF Await
  <2>3. QueuesFit'
    BY <1>7, <2>1, Consumed DEF Await, GetNotifs
  <2> QED
    BY <1>7, <2>2, <2>3, Frames DEF Await
<1>8. CASE AddReceiver
  BY <1>8, AddTyped, Frames DEF AddReceiver
<1>9. CASE RemoveReceiver
  <2>1. CASE GetNotifs("no")
    <3>1. LoopsTyped'
      BY <1>9, <2>1, GetNotifsTyped, MayLoopBound DEF RemoveReceiver
    <3>2. QueuesFit'
      BY <1>9, <2>1, Consumed DEF RemoveReceiver, GetNotifs
    <3>3. UNCHANGED calls
      BY <1>9 DEF RemoveReceiver
    <3> QED
      BY <1>9, <3>1, <3>2, <3>3, RemoveTyped, Frames
  <2>2. CASE ~GetNotifs("no")
    <3>1. UNCHANGED <<inbox, queue, loops, channel, calls>>
      BY <1>9, <2>2 DEF RemoveReceiver
    <3> QED
      BY <1>9, <3>1, RemoveTyped, Frames
  <2> QED
    BY <2>1, <2>2
<1>10. CASE BeginTransaction \/ Fail \/ EndTransaction
  <2>1. UNCHANGED <<receivers, object, channel, inbox, queue, loops, calls>>
    BY <1>10 DEF BeginTransaction, Fail, EndTransaction
  <2>2. ServerFits'
    BY <1>10 DEF BeginTransaction, Fail, EndTransaction, ServerFits, Channels
  <2> QED
    BY <2>1, <2>2, Frames
<1>11. CASE Notify
  <2>1. PICK c \in fallback \cap listening :
          channel' = Append(channel, c) /\ inbox' = Append(inbox, Len(channel) + 1)
    BY <1>11 DEF Notify
  <2>2. /\ Len(channel) < MaxNotifs
        /\ UNCHANGED <<receivers, object, trans, listening, fallback, queue, loops,
                       calls>>
    BY <1>11 DEF Notify
  <2>3. ServerFits'
    <3>1. channel \in Seq(Channels) /\ c \in Channels /\ Len(channel) <= MaxNotifs
      BY DEF ServerFits
    <3>2. channel' \in Seq(Channels) /\ Len(channel') = Len(channel) + 1
      BY <2>1, <3>1
    <3>3. Len(channel') <= MaxNotifs
      BY <2>2, <3>1, <3>2, BoundsAre
    <3> QED
      BY <2>2, <3>2, <3>3 DEF ServerFits, Channels
  <2>4. QueuesFit'
    <3>1. Len(channel) \in Nat /\ Len(channel') = Len(channel) + 1
      <4>1. channel \in Seq(Channels) /\ c \in Channels
        BY DEF ServerFits
      <4> QED
        BY <2>1, <4>1
    <3>2. Notifs \subseteq Notifs' /\ Len(channel) + 1 \in Notifs'
      BY <3>1 DEF Notifs
    <3>3. inbox \in Seq(Notifs') /\ queue \in Seq(Notifs')
      BY <3>2 DEF QueuesFit
    <3> QED
      BY <2>1, <2>2, <3>2, <3>3 DEF QueuesFit
  <2> QED
    BY <2>2, <2>3, <2>4, Frames
<1>12. CASE UNCHANGED notifyVars
  BY <1>12, Frames DEF notifyVars
<1> QED
  BY <1>1, <1>2, <1>3, <1>4, <1>5, <1>6, <1>7, <1>8, <1>9, <1>10, <1>11, <1>12
  DEF NotifyNext, Progress

(* The variables of the notifications have their types, in any program.      *)
THEOREM NotificationsTyped == NotifySpec => []NotifyTypeOK
<1>1. NotifySpec => []NotifyTyped
  BY NotifyTypedInit, NotifyTypedNext, PTL DEF NotifySpec
<1> QED
  BY <1>1, TypedIsTypeOK, PTL

-----------------------------------------------------------------------------
(* Iterators. *)

(* An iterator that no erasure has made invalid. *)
LoopsHold ==
  \A i \in DOMAIN loops :
    /\ loops[i].at \in Registered \cup {Stop}
    /\ loops[i].stop \in Registered \cup {Stop}

LEMMA HoldIsValid ==
  ASSUME NotifyTyped, LoopsHold
  PROVE  LoopsAreValid
<1>1. \A r \in Registered : object[r] = "alive"
  BY DEF NotifyTyped, ReceiversFit
<1> QED
  BY <1>1 DEF LoopsHold, LoopsAreValid

(* An iterator changes in the innermost loop only. *)
LEMMA TopHolds ==
  ASSUME NotifyTyped, LoopsHold, InCallback, NEW l \in Loop, SetTop(l),
         receivers' = receivers,
         l.at \in Registered \cup {Stop}, l.stop \in Registered \cup {Stop}
  PROVE  LoopsHold'
<1>1. /\ Len(loops') = Len(loops) /\ loops'[Len(loops)] = l
      /\ \A i \in 1 .. Len(loops) : i # Len(loops) => loops'[i] = loops[i]
      /\ loops \in Seq(Loop) /\ loops' \in Seq(Loop)
  BY SetTopTyped DEF NotifyTyped, LoopsTyped
<1>2. Registered' = Registered
  BY DEF Registered, ToSet
<1>3. ASSUME NEW i \in DOMAIN loops'
      PROVE  /\ loops'[i].at \in Registered \cup {Stop}
             /\ loops'[i].stop \in Registered \cup {Stop}
  <2>1. i \in 1 .. Len(loops) /\ i \in DOMAIN loops
    BY <1>1
  <2>2. CASE i = Len(loops)
    BY <1>1, <2>2
  <2>3. CASE i # Len(loops)
    BY <1>1, <2>1, <2>3 DEF LoopsHold
  <2> QED
    BY <2>2, <2>3
<1> QED
  BY <1>2, <1>3 DEF LoopsHold

(* The loops that there were, without or with a new one. *)
LEMMA GetNotifsIs ==
  ASSUME LoopsTyped, NEW await \in {"no", "forever", "timeout"}, GetNotifs(await)
  PROVE  \/ loops' = loops
         \/ \E l \in Loop :
              /\ l.n = 0 /\ l.at = Stop /\ l.stop = Stop /\ ~l.inside /\ l.due = {}
              /\ Len(loops') = Len(loops) + 1 /\ loops'[Len(loops) + 1] = l
              /\ loops' \in Seq(Loop)
              /\ \A i \in 1 .. Len(loops) : loops'[i] = loops[i]
<1>1. CASE loops' = loops
  BY <1>1
<1>2. CASE loops' # loops
  <2> DEFINE l == [Called EXCEPT !.await = await]
  <2>1. l \in Loop /\ l.n = 0 /\ l.at = Stop /\ l.stop = Stop /\ ~l.inside
        /\ l.due = {}
    BY CalledTyped
  <2>2. loops' = Append(loops, l)
    BY <1>2 DEF GetNotifs
  <2> HIDE DEF l
  <2>3. /\ loops' \in Seq(Loop)
        /\ Len(loops') = Len(loops) + 1 /\ loops'[Len(loops) + 1] = l
        /\ \A i \in 1 .. Len(loops) : loops'[i] = loops[i]
    BY <2>1, <2>2 DEF LoopsTyped
  <2> QED
    BY <2>1, <2>3
<1> QED
  BY <1>1, <1>2

(* A loop begins with iterators to the end. *)
LEMMA BegunHolds ==
  ASSUME LoopsTyped, LoopsHold, NEW await \in {"no", "forever", "timeout"},
         GetNotifs(await), loops = << >> \/ Registered' = Registered
  PROVE  LoopsHold'
<1>0. /\ loops \in Seq(Loop) /\ Len(loops) \in Nat
      /\ DOMAIN loops = 1 .. Len(loops)
  BY DEF LoopsTyped
<1>1. \A i \in DOMAIN loops : /\ loops[i].at \in Registered' \cup {Stop}
                              /\ loops[i].stop \in Registered' \cup {Stop}
  BY DEF LoopsHold
<1>2. CASE loops' = loops
  BY <1>1, <1>2 DEF LoopsHold
<1>3. CASE loops' # loops
  <2>1. PICK l \in Loop :
          /\ l.n = 0 /\ l.at = Stop /\ l.stop = Stop /\ ~l.inside /\ l.due = {}
          /\ Len(loops') = Len(loops) + 1 /\ loops'[Len(loops) + 1] = l
          /\ loops' \in Seq(Loop)
          /\ \A i \in 1 .. Len(loops) : loops'[i] = loops[i]
    BY <1>3, GetNotifsIs
  <2>2. ASSUME NEW i \in DOMAIN loops'
        PROVE  i = Len(loops) + 1 \/ i \in DOMAIN loops
    BY <1>0, <2>1
  <2>3. ASSUME NEW i \in DOMAIN loops'
        PROVE  /\ loops'[i].at \in Registered' \cup {Stop}
               /\ loops'[i].stop \in Registered' \cup {Stop}
    BY <1>0, <1>1, <2>1, <2>2
  <2> QED
    BY <2>3 DEF LoopsHold
<1> QED
  BY <1>2, <1>3

LEMMA LoopsHoldNext ==
  ASSUME NotifyTyped, NotifyTyped', LoopsHold, [NotifyNext]_notifyVars,
         "remove in callback" \notin Liberties
  PROVE  LoopsHold'
<1>0. LoopsTyped /\ ReceiversFit /\ ServerFits
  BY DEF NotifyTyped
<1>1. CASE Take
  <2>1. TakenLoop.at \in Registered \cup {Stop}
        /\ TakenLoop.stop \in Registered \cup {Stop}
    <3>1. /\ At(LowerBound(channel[Head(queue)])) \in Registered \cup {Stop}
          /\ At(UpperBound(channel[Head(queue)])) \in Registered \cup {Stop}
          /\ Top \in Loop
      BY <1>0, <1>1, TakeIs, TopTyped, AtTyped DEF ReceiversFit
    <3> QED
      BY <3>1 DEF TakenLoop, Loop
  <2> QED
    BY <1>1, <2>1, TakeIs, TopHolds
<1>2. CASE CallReceiver
  <2> DEFINE l == [Top EXCEPT !.inside = TRUE]
  <2>1. Top \in Loop /\ Top.at \in Registered \cup {Stop} /\ Top.stop \in Registered \cup {Stop}
    BY <1>0, <1>2, CallIs, TopTyped DEF Valid
  <2>2. l.at \in Registered \cup {Stop} /\ l.stop \in Registered \cup {Stop}
    BY <2>1 DEF Loop
  <2>3. InCallback /\ l \in Loop /\ SetTop(l) /\ receivers' = receivers
    BY <1>2, CallIs
  <2> HIDE DEF l
  <2> QED
    BY <2>2, <2>3, TopHolds
<1>3. CASE ReturnFromCallback
  <2> DEFINE l == [Top EXCEPT !.inside = FALSE, !.at = Successor(Top.at)]
  <2>1. InCallback /\ l \in Loop /\ SetTop(l) /\ receivers' = receivers
    BY <1>3, ReturnIs
  <2>2. Top \in Loop /\ Len(loops) \in DOMAIN loops
    <3>1. DOMAIN loops = 1 .. Len(loops)
      BY <1>0, LenProperties, Zenon DEF LoopsTyped
    <3> QED
      BY <1>0, <2>1, <3>1, TopTyped
  <2>3. Top.stop \in Registered \cup {Stop}
    BY <2>2 DEF LoopsHold, Top
  <2>4. Successor(Top.at) \in Registered \cup {Stop}
    BY <1>0, AtTyped DEF Successor, ReceiversFit
  <2>5. l.at \in Registered \cup {Stop} /\ l.stop \in Registered \cup {Stop}
    BY <2>2, <2>3, <2>4 DEF Loop
  <2> HIDE DEF l
  <2> QED
    BY <2>1, <2>5, TopHolds
<1>4. CASE LoopEnd
  <2>1. /\ loops' = Front(loops) /\ loops # << >> /\ receivers' = receivers
        /\ loops \in Seq(Loop)
    BY <1>0, <1>4 DEF LoopEnd, LoopStep, InCallback, LoopsTyped
  <2>2. /\ loops' \in Seq(Loop) /\ Len(loops') = Len(loops) - 1
        /\ \A i \in 1 .. Len(loops) - 1 : loops'[i] = loops[i]
    BY <2>1, FrontIs
  <2>3. \A i \in DOMAIN loops' : i \in DOMAIN loops /\ loops'[i] = loops[i]
    <3>1. /\ DOMAIN loops = 1 .. Len(loops) /\ Len(loops) \in Nat
          /\ DOMAIN loops' = 1 .. Len(loops')
      BY <2>1, <2>2, LenProperties, Zenon
    <3>2. PICK n \in Nat : n = Len(loops)
      BY <3>1
    <3>3. /\ DOMAIN loops' = 1 .. n - 1 /\ DOMAIN loops = 1 .. n
          /\ \A i \in 1 .. n - 1 : loops'[i] = loops[i]
      BY <2>2, <3>1, <3>2, Zenon
    <3>4. \A i \in 1 .. n - 1 : i \in 1 .. n
      BY ShorterRange
    <3> QED
      BY <3>3, <3>4, Zenon
  <2>4. Registered' = Registered
    BY <2>1 DEF Registered, ToSet
  <2> QED
    BY <2>3, <2>4 DEF LoopsHold
<1>5. CASE Woken
  <2>1. CASE loops' = << >>
    BY <2>1, EmptyIs DEF LoopsHold
  <2>2. CASE loops' = << Called >>
    <3>1. \A i \in DOMAIN << Called >> : << Called >>[i] = Called
      BY OneIs
    <3>2. Called.at = Stop /\ Called.stop = Stop
      BY DEF Called
    <3> QED
      BY <2>2, <3>1, <3>2 DEF LoopsHold
  <2> QED
    BY <1>5, <2>1, <2>2 DEF Woken
<1>6. CASE Exec
  <2>1. GetNotifs("no") /\ Registered' = Registered
    BY <1>6 DEF Exec, Registered, ToSet
  <2> QED
    BY <1>0, <2>1, BegunHolds
<1>7. CASE Await
  <2>1. PICK t \in {"forever", "timeout"} : GetNotifs(t)
    BY <1>7 DEF Await
  <2>2. Registered' = Registered
    BY <1>7 DEF Await, Registered, ToSet
  <2> QED
    BY <1>0, <2>1, <2>2, BegunHolds
<1>8. CASE AddReceiver
  <2>1. Registered \subseteq Registered' /\ loops' = loops
    BY <1>0, <1>8, AddTyped DEF AddReceiver
  <2> QED
    BY <2>1 DEF LoopsHold
<1>9. CASE RemoveReceiver
  <2>1. loops = << >>
    BY <1>9 DEF RemoveReceiver, InCallback
  <2>2. CASE GetNotifs("no")
    BY <1>0, <2>1, <2>2, BegunHolds
  <2>3. CASE ~GetNotifs("no")
    <3>1. loops' = << >>
      BY <1>9, <2>1, <2>3 DEF RemoveReceiver
    <3> QED
      BY <3>1, EmptyIs DEF LoopsHold
  <2> QED
    BY <2>2, <2>3
<1>10. CASE BeginTransaction \/ Fail \/ EndTransaction \/ Notify \/ UNCHANGED notifyVars
  <2>1. UNCHANGED <<receivers, loops>>
    BY <1>10 DEF BeginTransaction, Fail, EndTransaction, Notify, notifyVars
  <2> QED
    BY <2>1 DEF LoopsHold, Registered, ToSet
<1> QED
  BY <1>1, <1>2, <1>3, <1>4, <1>5, <1>6, <1>7, <1>8, <1>9, <1>10
  DEF NotifyNext, Progress

(* If no receiver is destroyed by the code of one, no loop of get_notifs has *)
(* an iterator to a receiver that is gone; receivers may be added meanwhile. *)
THEOREM LoopsAlwaysValid ==
  ASSUME "remove in callback" \notin Liberties
  PROVE  NotifySpec => []LoopsAreValid
<1>1. NotifyInit => LoopsHold
  BY EmptyIs DEF NotifyInit, LoopsHold
<1>2. NotifyTyped /\ LoopsHold /\ [NotifyNext]_notifyVars => (NotifyTyped /\ LoopsHold)'
  BY NotifyTypedNext, LoopsHoldNext
<1>3. NotifySpec => [](NotifyTyped /\ LoopsHold)
  BY NotifyTypedInit, <1>1, <1>2, PTL DEF NotifySpec
<1> QED
  BY <1>3, HoldIsValid, PTL

-----------------------------------------------------------------------------
(* LISTEN and UNLISTEN. *)

(* A channel that has a receiver is listened on, and a rollback would not    *)
(* change that.                                                              *)
ChannelsAreHeard == \A r \in Registered : ChannelOf[r] \in listening \cap fallback

LEMMA ChannelsAreHeardNext ==
  ASSUME NotifyTyped, ChannelsAreHeard, [NotifyNext]_notifyVars,
         "add in block" \notin Liberties
  PROVE  ChannelsAreHeard'
<1>0. LoopsTyped /\ ReceiversFit /\ ServerFits
  BY DEF NotifyTyped
<1>1. CASE AddReceiver
  <2>1. PICK r \in Receiver :
          /\ object[r] = "none"
          /\ receivers' = InsertAt(receivers, LowerBound(ChannelOf[r]), r)
          /\ IF NeedsListen(ChannelOf[r])
               THEN /\ trans # "failed block"
                    /\ SetListening(listening \cup {ChannelOf[r]})
               ELSE UNCHANGED <<listening, fallback>>
    BY <1>1, Zenon DEF AddReceiver
  <2>2. Registered' = Registered \cup {r}
    <3>1. r \notin Registered /\ Plain(receivers)
      BY <1>0, <2>1 DEF ReceiversFit
    <3>2. LowerBound(ChannelOf[r]) \in 1 .. Len(receivers) + 1
      BY <1>0, InsertedInOrder DEF ReceiversFit
    <3> QED
      BY <2>1, <3>1, <3>2, Inserted DEF Registered
  <2>3. trans # "block"
    BY <1>1 DEF AddReceiver
  <2>4. CASE NeedsListen(ChannelOf[r])
    <3>1. listening' = listening \cup {ChannelOf[r]} /\ fallback' = listening'
      BY <2>1, <2>3, <2>4 DEF SetListening
    <3> QED
      BY <2>2, <3>1 DEF ChannelsAreHeard
  <2>5. CASE ~NeedsListen(ChannelOf[r])
    <3>1. PICK q \in Registered : ChannelOf[q] = ChannelOf[r]
      BY <2>5 DEF NeedsListen
    <3>2. listening' = listening /\ fallback' = fallback
      BY <2>1, <2>5
    <3> QED
      BY <2>2, <3>1, <3>2 DEF ChannelsAreHeard
  <2> QED
    BY <2>4, <2>5
<1>2. CASE RemoveReceiver
  <2>1. PICK r \in Registered :
          /\ receivers' = Erase(r)
          /\ IF IsLast(r) /\ trans # "failed block"
               THEN SetListening(listening \ {ChannelOf[r]}) /\ GetNotifs("no")
               ELSE UNCHANGED <<listening, fallback, inbox, queue, loops>>
    BY <1>2, Zenon DEF RemoveReceiver
  <2>2. Registered' = Registered \ {r}
    <3>1. Index(r) \in 1 .. Len(receivers) /\ receivers[Index(r)] = r
      BY <1>0, IndexIs DEF ReceiversFit
    <3> QED
      BY <1>0, <2>1, <3>1, Removed DEF ReceiversFit, Erase, Registered
  <2>3. CASE IsLast(r) /\ trans # "failed block"
    <3>1. /\ listening' = listening \ {ChannelOf[r]}
          /\ fallback' = fallback \/ fallback' = listening'
      BY <2>1, <2>3 DEF SetListening
    <3>2. \A q \in Registered \ {r} : ChannelOf[q] # ChannelOf[r]
      BY <2>3 DEF IsLast
    <3> QED
      BY <2>2, <3>1, <3>2 DEF ChannelsAreHeard
  <2>4. CASE ~(IsLast(r) /\ trans # "failed block")
    <3>1. listening' = listening /\ fallback' = fallback
      BY <2>1, <2>4
    <3> QED
      BY <2>2, <3>1 DEF ChannelsAreHeard
  <2> QED
    BY <2>3, <2>4
<1>3. CASE BeginTransaction \/ Fail \/ EndTransaction
  <2>1. /\ receivers' = receivers
        /\ listening' \in {listening, fallback}
        /\ fallback' \in {listening, fallback}
    BY <1>3 DEF BeginTransaction, Fail, EndTransaction
  <2> QED
    BY <2>1 DEF ChannelsAreHeard, Registered, ToSet
<1>4. CASE Progress \/ Exec \/ Await \/ Notify \/ UNCHANGED notifyVars
  <2>1. UNCHANGED <<receivers, listening, fallback>>
    BY <1>4 DEF Progress, Take, CallReceiver, ReturnFromCallback, LoopEnd, Woken,
                Exec, Await, Notify, notifyVars
  <2> QED
    BY <2>1 DEF ChannelsAreHeard, Registered, ToSet
<1> QED
  BY <1>1, <1>2, <1>3, <1>4 DEF NotifyNext

(* If no receiver is made in a transaction block, whose rollback would take  *)
(* its LISTEN back, the session listens outside of transactions on every     *)
(* channel that has a receiver.                                              *)
THEOREM AlwaysListensForReceivers ==
  ASSUME "add in block" \notin Liberties
  PROVE  NotifySpec => []ListensForReceivers
<1>1. NotifyInit => ChannelsAreHeard
  BY EmptyIs DEF NotifyInit, ChannelsAreHeard, Registered, ToSet
<1>2. NotifyTyped /\ ChannelsAreHeard /\ [NotifyNext]_notifyVars
        => (NotifyTyped /\ ChannelsAreHeard)'
  BY NotifyTypedNext, ChannelsAreHeardNext
<1>3. NotifySpec => [](NotifyTyped /\ ChannelsAreHeard)
  BY NotifyTypedInit, <1>1, <1>2, PTL DEF NotifySpec
<1>4. ChannelsAreHeard => ListensForReceivers
  BY DEF ChannelsAreHeard, ListensForReceivers
<1> QED
  BY <1>3, <1>4, PTL

-----------------------------------------------------------------------------
(* Calls.  As long as a loop is under way the receivers stay, so that it can *)
(* be said which of them it has called: those before its iterator.           *)

(* Where an iterator stands in a list. *)
Standing(s, i) == IF i = Stop THEN Len(s) + 1 ELSE CHOOSE k \in DOMAIN s : s[k] = i

HasCalled(l, s, r) ==
  /\ r \in l.due
  /\ Standing(s, r) < Standing(s, l.at) \/ (l.inside /\ r = l.at)

(* The range of a loop, in the list s, is what equal_range gave: its         *)
(* receivers are called in order, and each receiver that is due is in the    *)
(* range or was called.  Waiting is how many notifications were not taken.   *)
Fits(l, s, sent, waiting, called) ==
  IF l.n = 0
    THEN l.at = Stop /\ l.stop = Stop /\ ~l.inside /\ l.due = {}
    ELSE /\ l.n + waiting <= Len(sent)
         /\ l.at \in ToSet(s) \cup {Stop} /\ l.stop \in ToSet(s) \cup {Stop}
         /\ l.inside => l.at # l.stop
         /\ l.due = {r \in ToSet(s) : ChannelOf[r] = sent[l.n]}
         /\ Standing(s, l.at) <= Standing(s, l.stop)
         /\ \A r \in ToSet(s) :
              /\ (/\ Standing(s, l.at) <= Standing(s, r)
                  /\ Standing(s, r) < Standing(s, l.stop)) => r \in l.due
              /\ r \in l.due => Standing(s, r) < Standing(s, l.stop)
         /\ \A r \in Receiver :
              called[l.n][r] = IF HasCalled(l, s, r) THEN 1 ELSE 0

Waiting == Len(queue) + Len(inbox)

(* Notifications are taken in the order in which they were sent. *)
ComeInOrder ==
  /\ Waiting <= Len(channel)
  /\ \A i \in 1 .. Len(inbox) : inbox[i] + Len(inbox) = Len(channel) + i
  /\ \A i \in 1 .. Len(queue) : queue[i] + Waiting = Len(channel) + i

LoopsFit ==
  \A i \in DOMAIN loops : Fits(loops[i], receivers, channel, Waiting, calls)

(* Two loops serve different notifications. *)
LoopsDiffer ==
  \A i, j \in DOMAIN loops : i # j /\ loops[i].n # 0 => loops[i].n # loops[j].n

NotYetCalled ==
  \A n \in 1 .. MaxNotifs :
    n + Waiting > Len(channel) => \A r \in Receiver : calls[n][r] = 0

CalledOnce == \A n \in 1 .. MaxNotifs : \A r \in Receiver : calls[n][r] <= 1

CallsFit == ComeInOrder /\ LoopsFit /\ LoopsDiffer /\ NotYetCalled /\ CalledOnce

LEMMA StandingIs ==
  ASSUME NEW s, Plain(s)
  PROVE  /\ Len(s) \in Nat
         /\ \A i \in ToSet(s) : /\ Standing(s, i) \in 1 .. Len(s)
                                /\ s[Standing(s, i)] = i /\ i # Stop
         /\ Standing(s, Stop) = Len(s) + 1
         /\ \A i, j \in ToSet(s) \cup {Stop} :
              Standing(s, i) = Standing(s, j) => i = j
         /\ \A k \in 1 .. Len(s) : s[k] \in ToSet(s) /\ Standing(s, s[k]) = k
<1>1. /\ s \in Seq(Receiver) /\ \A j, k \in DOMAIN s : s[j] = s[k] => j = k
  BY DEF Plain, IsInjective
<1>2. DOMAIN s = 1 .. Len(s) /\ Len(s) \in Nat
  BY <1>1, LenProperties, Zenon
<1>3. Standing(s, Stop) = Len(s) + 1
  BY DEF Standing
<1>4. ASSUME NEW i \in ToSet(s)
      PROVE  Standing(s, i) \in 1 .. Len(s) /\ s[Standing(s, i)] = i /\ i # Stop
  <2>1. \E k \in DOMAIN s : s[k] = i
    BY DEF ToSet
  <2>2. i # Stop
    BY <1>1, <2>1, BoundsAre
  <2>3. Standing(s, i) = CHOOSE k \in DOMAIN s : s[k] = i
    BY <2>2 DEF Standing
  <2>4. Standing(s, i) \in DOMAIN s /\ s[Standing(s, i)] = i
    BY <2>1, <2>3, Zenon
  <2> QED
    BY <1>2, <2>2, <2>4, Zenon
<1>5. ASSUME NEW i \in ToSet(s) \cup {Stop}, NEW j \in ToSet(s) \cup {Stop},
             Standing(s, i) = Standing(s, j)
      PROVE  i = j
  <2>1. ASSUME NEW a \in ToSet(s)
        PROVE  Standing(s, a) # Standing(s, Stop)
    <3>1. \A n \in Nat : \A p \in 1 .. n : p # n + 1
      OBVIOUS
    <3> QED
      BY <1>2, <1>3, <1>4, <3>1, Zenon
  <2>2. CASE i = Stop \/ j = Stop
    BY <1>5, <2>1, <2>2, Zenon
  <2>3. CASE i # Stop /\ j # Stop
    BY <1>4, <1>5, <2>3, Zenon
  <2> QED
    BY <2>2, <2>3
<1>6. ASSUME NEW k \in 1 .. Len(s)
      PROVE  s[k] \in ToSet(s) /\ Standing(s, s[k]) = k
  <2>1. s[k] \in ToSet(s)
    BY <1>2, Zenon DEF ToSet
  <2>2. Standing(s, s[k]) \in DOMAIN s /\ s[Standing(s, s[k])] = s[k] /\ k \in DOMAIN s
    BY <1>2, <1>4, <2>1, Zenon
  <2> QED
    BY <1>1, <2>1, <2>2, Zenon
<1> QED
  BY <1>2, <1>3, <1>4, <1>5, <1>6, Zenon

LEMMA StandingAt ==
  ASSUME Plain(receivers), NEW k \in 1 .. Len(receivers) + 1
  PROVE  /\ At(k) \in ToSet(receivers) \cup {Stop}
         /\ Standing(receivers, At(k)) = k
<1>1. DOMAIN receivers = 1 .. Len(receivers) /\ Len(receivers) \in Nat
  BY LenProperties, Zenon DEF Plain
<1>2. CASE k = Len(receivers) + 1
  <2>1. k \notin DOMAIN receivers
    BY <1>1, <1>2
  <2>2. At(k) = Stop
    BY <2>1, Zenon DEF At
  <2> QED
    BY <1>2, <2>2, StandingIs, Zenon
<1>3. CASE k # Len(receivers) + 1
  <2>1. k \in 1 .. Len(receivers)
    BY <1>1, <1>3
  <2>2. At(k) = receivers[k]
    BY <1>1, <2>1, Zenon DEF At
  <2>3. /\ receivers[k] \in ToSet(receivers)
        /\ Standing(receivers, receivers[k]) = k
    BY <2>1, StandingIs
  <2> QED
    BY <2>2, <2>3, Zenon
<1> QED
  BY <1>2, <1>3, Zenon

(* A loop is not concerned by what happens to other notifications. *)
LEMMA FitsStill ==
  ASSUME NEW l, NEW s, NEW sent, NEW waiting, NEW called,
         NEW sent2, NEW waiting2, NEW called2,
         Fits(l, s, sent, waiting, called),
         l.n # 0 /\ l.n + waiting <= Len(sent) =>
           /\ l.n + waiting2 <= Len(sent2)
           /\ sent2[l.n] = sent[l.n] /\ called2[l.n] = called[l.n]
  PROVE  Fits(l, s, sent2, waiting2, called2)
<1>1. CASE l.n = 0
  BY <1>1, Zenon DEF Fits
<1>2. CASE l.n # 0
  <2>1. /\ l.n + waiting2 <= Len(sent2)
        /\ sent2[l.n] = sent[l.n] /\ called2[l.n] = called[l.n]
    BY <1>2, Zenon DEF Fits
  <2> QED
    BY <1>2, <2>1, Zenon DEF Fits
<1> QED
  BY <1>1, <1>2

LEMMA WaitingIs ==
  ASSUME NotifyTyped
  PROVE  /\ Waiting \in Nat /\ Len(queue) \in Nat /\ Len(inbox) \in Nat
         /\ Len(channel) \in Nat /\ Len(channel) <= MaxNotifs
         /\ Notifs = 1 .. Len(channel) /\ Registered = ToSet(receivers)
<1>1. Len(queue) \in Nat /\ Len(inbox) \in Nat
  BY DEF NotifyTyped, QueuesFit
<1>2. Len(channel) \in Nat /\ Len(channel) <= MaxNotifs
  <2>1. channel \in Seq(Channels)
    BY DEF NotifyTyped, ServerFits
  <2>2. Len(channel) \in Nat
    BY <2>1
  <2> QED
    BY <2>2 DEF NotifyTyped, ServerFits
<1> QED
  BY <1>1, <1>2 DEF Waiting, Notifs, Registered

(* A loop that has taken a notification has called nobody for it. *)
LEMMA TakenFits ==
  ASSUME NotifyTyped, CallsFit, Take
  PROVE  /\ Fits(TakenLoop, receivers, channel, Waiting - 1, calls)
         /\ TakenLoop.n # 0 /\ TakenLoop.n + Waiting > Len(channel)
<1> DEFINE n == Head(queue)
           c == channel[n]
           s == receivers
           l == TakenLoop
<1>1. /\ n \in Notifs /\ queue # << >> /\ c \in Nat /\ l \in Loop
      /\ ~Top.inside /\ Top \in Loop
  BY TakeIs, TopTyped DEF NotifyTyped
<1>2. /\ Plain(s) /\ InChannelOrder(s) /\ queue \in Seq(Notifs)
  BY DEF NotifyTyped, ReceiversFit, QueuesFit
<1>3. /\ l.n = n /\ ~l.inside /\ l.at = At(LowerBound(c))
      /\ l.stop = At(LowerBound(c + 1))
      /\ l.due = {r \in ToSet(s) : ChannelOf[r] = c}
  BY <1>1 DEF TakenLoop, Loop, UpperBound, Registered
<1>4. PICK w \in Nat, m \in Nat : w = Waiting /\ m = Len(channel)
  BY WaitingIs
<1>5. n + w = m + 1 /\ n # 0 /\ n \in 1 .. m /\ w # 0
  <2>1. n = queue[1] /\ 1 \in 1 .. Len(queue)
    BY <1>1, <1>2
  <2>2. n + w = m + 1
    BY <1>4, <2>1 DEF CallsFit, ComeInOrder
  <2>3. n \in 1 .. m
    BY <1>1, <1>4, WaitingIs
  <2> QED
    BY <2>2, <2>3
<1>6. \A r \in Receiver : calls[n][r] = 0
  <2>1. n \in 1 .. MaxNotifs
    BY <1>4, <1>5, WaitingIs, BoundsAre
  <2>2. n + w > m
    BY <1>5
  <2> QED
    BY <1>4, <2>1, <2>2 DEF CallsFit, NotYetCalled
<1>7. PICK lb \in 1 .. Len(s) + 1, ub \in 1 .. Len(s) + 1 :
        /\ lb = LowerBound(c) /\ ub = LowerBound(c + 1)
        /\ \A j \in 1 .. Len(s) : j < lb <=> ChannelOf[s[j]] < c
        /\ \A j \in 1 .. Len(s) : j < ub <=> ChannelOf[s[j]] < c + 1
  <2>1. c + 1 \in Nat
    BY <1>1
  <2> QED
    BY <1>1, <1>2, <2>1, LowerBoundIs
<1>8. /\ l.at \in ToSet(s) \cup {Stop} /\ l.stop \in ToSet(s) \cup {Stop}
      /\ Standing(s, l.at) = lb /\ Standing(s, l.stop) = ub
  BY <1>2, <1>3, <1>7, StandingAt
<1>9. ASSUME NEW r \in ToSet(s)
      PROVE  /\ Standing(s, r) \in 1 .. Len(s)
             /\ Standing(s, r) < lb <=> ChannelOf[r] < c
             /\ Standing(s, r) < ub <=> ChannelOf[r] < c + 1
             /\ ChannelOf[r] \in Nat
  <2>1. Standing(s, r) \in 1 .. Len(s) /\ s[Standing(s, r)] = r
    BY <1>2, StandingIs
  <2> QED
    BY <1>2, <1>7, <2>1, ChannelsAre
<1>10. lb <= ub
  <2>1. Len(s) \in Nat
    BY <1>2, StandingIs
  <2>2. CASE ub = Len(s) + 1
    BY <1>7, <2>1, <2>2
  <2>3. CASE ub # Len(s) + 1
    <3>1. ub \in 1 .. Len(s) /\ ~(ub < ub)
      BY <1>7, <2>1, <2>3
    <3>2. ~(ChannelOf[s[ub]] < c + 1) /\ ChannelOf[s[ub]] \in Nat
      BY <1>2, <1>7, <3>1, ChannelsAre
    <3>3. ~(ub < lb)
      BY <1>1, <1>7, <3>1, <3>2
    <3> QED
      BY <1>7, <2>1, <3>3
  <2> QED
    BY <2>2, <2>3
<1>11. ASSUME NEW r \in ToSet(s)
       PROVE  /\ (/\ Standing(s, l.at) <= Standing(s, r)
                  /\ Standing(s, r) < Standing(s, l.stop)) => r \in l.due
              /\ r \in l.due => Standing(s, r) < Standing(s, l.stop)
              /\ ~HasCalled(l, s, r)
  <2>1. PICK p \in 1 .. Len(s), d \in Nat : p = Standing(s, r) /\ d = ChannelOf[r]
    BY <1>9
  <2>2. (p < lb <=> d < c) /\ (p < ub <=> d < c + 1)
    BY <1>9, <2>1, Zenon
  <2>3. r \in l.due <=> d = c
    BY <1>3, <2>1
  <2>4. lb \in Nat /\ ub \in Nat /\ p \in Nat
    BY <1>2, StandingIs
  <2>5. (lb <= p /\ p < ub => d = c) /\ (d = c => p < ub /\ ~(p < lb))
    BY <1>1, <2>2, <2>4
  <2>6. ~HasCalled(l, s, r)
    BY <1>3, <1>8, <2>1, <2>3, <2>5, Zenon DEF HasCalled
  <2> QED
    BY <1>8, <2>1, <2>3, <2>5, <2>6, Zenon
<1>12. \A r \in Receiver : ~HasCalled(l, s, r)
  BY <1>3, <1>11, Zenon DEF HasCalled
<1>13. l.n + (w - 1) <= m /\ l.n # 0 /\ l.n + w > m
  BY <1>3, <1>5
<1>14. /\ Standing(s, l.at) <= Standing(s, l.stop)
       /\ \A r \in Receiver : calls[l.n][r] = IF HasCalled(l, s, r) THEN 1 ELSE 0
  BY <1>3, <1>6, <1>8, <1>10, <1>12
<1> HIDE DEF l, s, n, c
<1>15. Fits(l, s, channel, w - 1, calls)
  BY <1>3, <1>4, <1>8, <1>11, <1>13, <1>14, Zenon DEF Fits, c
<1> QED
  BY <1>4, <1>13, <1>15 DEF l, s

(* A receiver that is called is due, and was not called before. *)
LEMMA CalledFits ==
  ASSUME NotifyTyped, CallsFit, CallReceiver
  PROVE  LET l == [Top EXCEPT !.inside = TRUE]
         IN /\ Fits(l, receivers, channel, Waiting, calls')
            /\ Top.n # 0 /\ Top.n \in 1 .. MaxNotifs
            /\ Top.n + Waiting <= Len(channel)
            /\ \A n \in 1 .. MaxNotifs : n # Top.n => calls'[n] = calls[n]
            /\ \A r \in Receiver : calls'[Top.n][r] <= 1
<1> DEFINE s == receivers
           n == Top.n
           a == Top.at
           l == [Top EXCEPT !.inside = TRUE]
<1>1. /\ InCallback /\ ~Top.inside /\ a # Top.stop /\ a \in ToSet(s)
      /\ calls' = [calls EXCEPT ![n][a] = IF @ < 2 THEN @ + 1 ELSE 2]
      /\ Plain(s)
  BY CallIs DEF NotifyTyped, ReceiversFit, Registered
<1>2. Top \in Loop /\ n \in 0 .. MaxNotifs /\ Len(loops) \in DOMAIN loops
  <2>1. DOMAIN loops = 1 .. Len(loops)
    BY LenProperties, Zenon DEF NotifyTyped, LoopsTyped
  <2> QED
    BY <1>1, <2>1, TopTyped DEF NotifyTyped
<1>3. Fits(Top, s, channel, Waiting, calls)
  BY <1>2, Zenon DEF CallsFit, LoopsFit, Top
<1>4. n # 0
  <2>1. n = 0 => a = Top.stop
    BY <1>3, Zenon DEF Fits
  <2> QED
    BY <1>1, <2>1
<1>5. n \in 1 .. MaxNotifs
  BY <1>2, <1>4, BoundsAre
<1>6. /\ n + Waiting <= Len(channel)
      /\ Top.stop \in ToSet(s) \cup {Stop}
      /\ Top.due = {r \in ToSet(s) : ChannelOf[r] = channel[n]}
      /\ Standing(s, a) <= Standing(s, Top.stop)
      /\ \A r \in ToSet(s) :
           /\ (/\ Standing(s, a) <= Standing(s, r)
               /\ Standing(s, r) < Standing(s, Top.stop)) => r \in Top.due
           /\ r \in Top.due => Standing(s, r) < Standing(s, Top.stop)
      /\ \A r \in Receiver : calls[n][r] = IF HasCalled(Top, s, r) THEN 1 ELSE 0
  BY <1>3, <1>4, Zenon DEF Fits
<1>7. /\ l.n = n /\ l.at = a /\ l.stop = Top.stop /\ l.due = Top.due /\ l.inside
  BY <1>2 DEF Loop
<1>8. a \in Top.due /\ a \in Receiver
  <2>1. /\ Standing(s, a) # Standing(s, Top.stop)
        /\ Standing(s, a) \in Nat /\ Standing(s, Top.stop) \in Nat
    BY <1>1, <1>6, StandingIs
  <2>2. Standing(s, a) <= Standing(s, a) /\ Standing(s, a) < Standing(s, Top.stop)
    BY <1>6, <2>1
  <2>3. a \in Receiver
    BY <1>1, AtTyped DEF Registered
  <2> QED
    BY <1>1, <1>6, <2>2, <2>3, Zenon
<1>9. calls[n][a] = 0 /\ calls[n] \in [Receiver -> 0 .. 2]
  <2>1. ~(Standing(s, a) < Standing(s, a))
    BY <1>1, StandingIs
  <2>2. ~HasCalled(Top, s, a)
    BY <1>1, <2>1, Zenon DEF HasCalled
  <2> QED
    BY <1>5, <1>6, <1>8, <2>2 DEF NotifyTyped, CallsTyped
<1>10. /\ calls'[n] = [calls[n] EXCEPT ![a] = 1]
       /\ \A m \in 1 .. MaxNotifs : m # n => calls'[m] = calls[m]
  <2>1. (IF calls[n][a] < 2 THEN calls[n][a] + 1 ELSE 2) = 1
    BY <1>9
  <2>2. calls' = [calls EXCEPT ![n] = [calls[n] EXCEPT ![a] = 1]]
    BY <1>1, <2>1
  <2> QED
    BY <1>5, <2>2 DEF NotifyTyped, CallsTyped
<1>11. ASSUME NEW r \in Receiver
       PROVE  calls'[n][r] = IF HasCalled(l, s, r) THEN 1 ELSE 0
  <2>1. CASE r = a
    <3>1. HasCalled(l, s, r)
      BY <1>7, <1>8, <2>1, Zenon DEF HasCalled
    <3> QED
      BY <1>8, <1>9, <1>10, <2>1, <3>1
  <2>2. CASE r # a
    <3>1. HasCalled(l, s, r) <=> HasCalled(Top, s, r)
      BY <1>1, <1>7, <2>2, Zenon DEF HasCalled
    <3>2. calls'[n][r] = calls[n][r]
      BY <1>9, <1>10, <2>2
    <3> QED
      BY <1>6, <3>1, <3>2, Zenon
  <2> QED
    BY <2>1, <2>2
<1>12. Fits(l, s, channel, Waiting, calls')
  <2> HIDE DEF l
  <2> QED
    BY <1>1, <1>4, <1>6, <1>7, <1>11, ZenonT(60) DEF Fits
<1>13. \A r \in Receiver : calls'[n][r] <= 1
  BY <1>11
<1> QED
  BY <1>4, <1>5, <1>6, <1>10, <1>12, <1>13, Zenon

(* The iterator moves on from a receiver that was called. *)
LEMMA ReturnedFits ==
  ASSUME NotifyTyped, CallsFit, ReturnFromCallback
  PROVE  LET l == [Top EXCEPT !.inside = FALSE, !.at = Successor(Top.at)]
         IN Fits(l, receivers, channel, Waiting, calls) /\ l.n = Top.n
<1> DEFINE s == receivers
           n == Top.n
           a == Top.at
           l == [Top EXCEPT !.inside = FALSE, !.at = Successor(a)]
<1>1. InCallback /\ Top.inside /\ Plain(s)
  BY ReturnIs DEF NotifyTyped, ReceiversFit
<1>2. Top \in Loop /\ Len(loops) \in DOMAIN loops
  <2>1. DOMAIN loops = 1 .. Len(loops)
    BY LenProperties, Zenon DEF NotifyTyped, LoopsTyped
  <2> QED
    BY <1>1, <2>1, TopTyped DEF NotifyTyped
<1>3. Fits(Top, s, channel, Waiting, calls)
  BY <1>2, Zenon DEF CallsFit, LoopsFit, Top
<1>4. n # 0
  BY <1>1, <1>3, Zenon DEF Fits
<1>5. /\ n + Waiting <= Len(channel)
      /\ a \in ToSet(s) \cup {Stop} /\ Top.stop \in ToSet(s) \cup {Stop}
      /\ a # Top.stop
      /\ Top.due = {r \in ToSet(s) : ChannelOf[r] = channel[n]}
      /\ Standing(s, a) <= Standing(s, Top.stop)
      /\ \A r \in ToSet(s) :
           /\ (/\ Standing(s, a) <= Standing(s, r)
               /\ Standing(s, r) < Standing(s, Top.stop)) => r \in Top.due
           /\ r \in Top.due => Standing(s, r) < Standing(s, Top.stop)
      /\ \A r \in Receiver : calls[n][r] = IF HasCalled(Top, s, r) THEN 1 ELSE 0
  BY <1>1, <1>3, <1>4, Zenon DEF Fits
<1>6. PICK p \in Nat, q \in Nat : /\ p = Standing(s, a) /\ q = Standing(s, Top.stop)
                                  /\ p < q /\ q <= Len(s) + 1
  <2>1. /\ Standing(s, a) # Standing(s, Top.stop)
        /\ Standing(s, a) \in Nat /\ Standing(s, Top.stop) \in Nat
        /\ Standing(s, Top.stop) <= Len(s) + 1
    BY <1>1, <1>5, StandingIs
  <2> QED
    BY <1>5, <2>1
<1>7. a \in ToSet(s) /\ a # Stop /\ p \in 1 .. Len(s) /\ Len(s) \in Nat
  <2>1. Len(s) \in Nat /\ Standing(s, Stop) = Len(s) + 1
    BY <1>1, StandingIs
  <2>2. a # Stop
    BY <1>6, <2>1
  <2>3. a \in ToSet(s)
    BY <1>5, <2>2
  <2> QED
    BY <1>1, <1>6, <2>1, <2>2, <2>3, StandingIs
<1>8. /\ Successor(a) \in ToSet(s) \cup {Stop}
      /\ Standing(s, Successor(a)) = p + 1
  <2>1. Index(a) = p
    <3>1. /\ Index(a) \in 1 .. Len(s) /\ s[Index(a)] = a
          /\ s[p] = a
      BY <1>1, <1>6, <1>7, IndexIs, StandingIs DEF Registered
    <3> QED
      BY <1>1, <1>7, <3>1, StandingIs
  <2>2. p + 1 \in 1 .. Len(s) + 1
    BY <1>7
  <2> QED
    BY <1>1, <2>1, <2>2, StandingAt DEF Successor
<1>9. /\ l.n = n /\ l.at = Successor(a) /\ l.stop = Top.stop /\ l.due = Top.due
      /\ ~l.inside
  BY <1>2 DEF Loop
<1>10. ASSUME NEW r \in ToSet(s)
       PROVE  /\ Standing(s, r) \in Nat
              /\ p + 1 <= Standing(s, r) => p <= Standing(s, r)
              /\ Standing(s, r) < p + 1 <=> Standing(s, r) < p \/ r = a
  <2>1. PICK k \in Nat : k = Standing(s, r)
    BY <1>1, StandingIs
  <2>2. k = p <=> r = a
    BY <1>1, <1>6, <1>7, <2>1, StandingIs
  <2>3. k < p + 1 <=> k < p \/ k = p
    OBVIOUS
  <2>4. p + 1 <= k => p <= k
    OBVIOUS
  <2> QED
    BY <2>1, <2>2, <2>3, <2>4
<1>11. ASSUME NEW r \in Receiver
       PROVE  HasCalled(l, s, r) <=> HasCalled(Top, s, r)
  <2>1. r \in Top.due => r \in ToSet(s)
    BY <1>5
  <2>2. CASE r \in ToSet(s)
    <3>1. HasCalled(l, s, r) <=> r \in Top.due /\ Standing(s, r) < p + 1
      BY <1>8, <1>9, Zenon DEF HasCalled
    <3>2. HasCalled(Top, s, r) <=>
            r \in Top.due /\ (Standing(s, r) < p \/ r = a)
      BY <1>1, <1>6, Zenon DEF HasCalled
    <3> QED
      BY <1>10, <2>2, <3>1, <3>2, Zenon
  <2>3. CASE r \notin ToSet(s)
    BY <1>9, <2>1, <2>3, Zenon DEF HasCalled
  <2> QED
    BY <2>2, <2>3
<1>12. p + 1 <= q
  BY <1>6
<1>13. /\ Standing(s, l.at) <= Standing(s, l.stop)
       /\ \A r \in ToSet(s) :
            /\ (/\ Standing(s, l.at) <= Standing(s, r)
                /\ Standing(s, r) < Standing(s, l.stop)) => r \in l.due
            /\ r \in l.due => Standing(s, r) < Standing(s, l.stop)
  <2> HIDE DEF l
  <2> QED
    BY <1>5, <1>6, <1>8, <1>9, <1>10, <1>12, Zenon
<1>14. Fits(l, s, channel, Waiting, calls)
  <2> HIDE DEF l
  <2> QED
    BY <1>4, <1>5, <1>8, <1>9, <1>11, <1>13, Zenon DEF Fits
<1> QED
  BY <1>9, <1>14, Zenon

(* What is waiting is numbered on from what was taken. *)
LEMMA ConsumedInOrder ==
  ASSUME NotifyTyped, ComeInOrder, Consume, channel' = channel
  PROVE  ComeInOrder' /\ Waiting' = Waiting
<1>1. inbox \in Seq(Notifs) /\ queue \in Seq(Notifs)
  BY DEF NotifyTyped, QueuesFit
<1>2. CASE trans \in {"block", "failed block"}
  BY <1>2 DEF Consume, ComeInOrder, Waiting
<1>3. CASE trans \notin {"block", "failed block"}
  <2> DEFINE both == queue \o inbox
  <2>1. queue' = both /\ inbox' = << >> /\ Len(inbox') = 0
    <3>1. queue' = both /\ inbox' = << >>
      BY <1>3, Zenon DEF Consume
    <3>2. Len(<< >>) = 0
      OBVIOUS
    <3> QED
      BY <3>1, <3>2, Zenon
  <2>2. PICK a \in Nat, b \in Nat, c \in Nat :
          a = Len(queue) /\ b = Len(inbox) /\ c = Len(channel)
    BY WaitingIs
  <2>3. /\ Len(both) = a + b
        /\ \A i \in 1 .. a + b : both[i] = IF i <= a THEN queue[i] ELSE inbox[i - a]
    BY <1>1, <2>2, ConcatProperties
  <2>4. Waiting = a + b /\ Waiting' = a + b
    BY <2>1, <2>2, <2>3 DEF Waiting
  <2>5. /\ a + b <= c
        /\ \A i \in 1 .. b : inbox[i] + b = c + i
        /\ \A i \in 1 .. a : queue[i] + (a + b) = c + i
    BY <2>2, <2>4 DEF ComeInOrder
  <2> HIDE DEF both
  <2>6. ASSUME NEW i \in 1 .. a + b
        PROVE  both[i] + (a + b) = c + i
    <3>1. CASE i <= a
      <4>1. i \in 1 .. a /\ both[i] = queue[i]
        BY <2>3, <3>1
      <4> QED
        BY <2>5, <4>1
    <3>2. CASE ~(i <= a)
      <4>1. PICK k \in 1 .. b : k = i - a
        BY <3>2
      <4>2. both[i] = inbox[k]
        BY <2>3, <3>2, <4>1
      <4>3. inbox[k] + b = c + k /\ inbox[k] \in Nat
        <5>1. inbox[k] \in Notifs
          BY <1>1, <2>2
        <5> QED
          BY <2>5, <5>1 DEF Notifs
      <4> QED
        BY <4>1, <4>2, <4>3
    <3> QED
      BY <3>1, <3>2
  <2>7. \A i \in 1 .. Len(inbox') : inbox'[i] + Len(inbox') = Len(channel') + i
    BY <2>1
  <2> QED
    BY <2>1, <2>2, <2>3, <2>4, <2>5, <2>6, <2>7 DEF ComeInOrder
<1> QED
  BY <1>2, <1>3

(* The queue that Take leaves. *)
LEMMA TakenInOrder ==
  ASSUME NotifyTyped, ComeInOrder, Take
  PROVE  ComeInOrder' /\ Waiting' = Waiting - 1
<1>1. /\ queue \in Seq(Notifs) /\ queue # << >> /\ queue' = Tail(queue)
      /\ inbox' = inbox /\ channel' = channel
  BY TakeIs DEF NotifyTyped, QueuesFit
<1>2. PICK a \in Nat, b \in Nat, c \in Nat :
        a = Len(queue) /\ b = Len(inbox) /\ c = Len(channel)
  BY WaitingIs
<1>3. /\ a # 0 /\ Len(queue') = a - 1
      /\ \A i \in 1 .. a - 1 : queue'[i] = queue[i + 1]
  BY <1>1, <1>2
<1>4. Waiting = a + b /\ Waiting' = a + b - 1
  BY <1>1, <1>2, <1>3 DEF Waiting
<1>5. /\ a + b <= c
      /\ \A i \in 1 .. b : inbox[i] + b = c + i
      /\ \A i \in 1 .. a : queue[i] + (a + b) = c + i /\ queue[i] \in Nat
  <2>1. \A i \in 1 .. a : queue[i] \in Notifs
    BY <1>1, <1>2
  <2> QED
    BY <1>2, <1>4, <2>1 DEF ComeInOrder, Notifs
<1>6. ASSUME NEW i \in 1 .. a - 1
      PROVE  queue'[i] + (a + b - 1) = c + i
  <2>1. i + 1 \in 1 .. a
    OBVIOUS
  <2>2. queue[i + 1] + (a + b) = c + (i + 1) /\ queue[i + 1] \in Nat
    BY <1>5, <2>1
  <2>3. PICK x \in Nat : x = queue[i + 1]
    BY <2>2
  <2>4. x + (a + b) = c + (i + 1)
    BY <2>2, <2>3, Zenon
  <2>5. x + (a + b - 1) = c + i
    BY <2>4
  <2> QED
    BY <1>3, <2>3, <2>5, Zenon
<1> QED
  BY <1>1, <1>2, <1>3, <1>4, <1>5, <1>6 DEF ComeInOrder

(* A notification that is sent comes last. *)
LEMMA SentInOrder ==
  ASSUME NotifyTyped, ComeInOrder, Notify
  PROVE  /\ ComeInOrder' /\ Waiting' = Waiting + 1
         /\ Len(channel') = Len(channel) + 1
         /\ \A i \in 1 .. Len(channel) : channel'[i] = channel[i]
<1>1. PICK ch \in fallback \cap listening :
        channel' = Append(channel, ch) /\ inbox' = Append(inbox, Len(channel) + 1)
  BY DEF Notify
<1>2. /\ inbox \in Seq(Notifs) /\ channel \in Seq(Channels) /\ ch \in Channels
      /\ queue' = queue
  BY DEF NotifyTyped, QueuesFit, ServerFits, Notify
<1>3. PICK a \in Nat, b \in Nat, c \in Nat :
        a = Len(queue) /\ b = Len(inbox) /\ c = Len(channel)
  BY WaitingIs
<1>4. /\ Len(channel') = c + 1
      /\ \A i \in 1 .. c : channel'[i] = channel[i]
  BY <1>1, <1>2, <1>3
<1>5. /\ Len(inbox') = b + 1 /\ inbox'[b + 1] = c + 1
      /\ \A i \in 1 .. b : inbox'[i] = inbox[i]
  <2>1. inbox \in Seq(Nat) /\ Len(channel) + 1 \in Nat
    BY <1>2, <1>3 DEF Notifs
  <2> QED
    BY <1>1, <1>3, <2>1
<1>6. Waiting = a + b /\ Waiting' = a + b + 1
  BY <1>2, <1>3, <1>5 DEF Waiting
<1>7. /\ a + b <= c
      /\ \A i \in 1 .. b : inbox[i] + b = c + i /\ inbox[i] \in Nat
      /\ \A i \in 1 .. a : queue[i] + (a + b) = c + i /\ queue[i] \in Nat
  <2>1. /\ \A i \in 1 .. b : inbox[i] \in Notifs
        /\ \A i \in 1 .. a : queue[i] \in Notifs
    BY <1>2, <1>3 DEF NotifyTyped, QueuesFit
  <2> QED
    BY <1>3, <1>6, <2>1, SMTT(30) DEF ComeInOrder, Notifs
<1>8. ASSUME NEW i \in 1 .. b + 1
      PROVE  inbox'[i] + (b + 1) = (c + 1) + i
  <2>1. CASE i = b + 1
    BY <1>5, <2>1
  <2>2. CASE i # b + 1
    <3>1. i \in 1 .. b
      BY <2>2
    <3>2. PICK x \in Nat : x = inbox[i]
      BY <1>7, <3>1
    <3>3. x + b = c + i
      BY <1>7, <3>1, <3>2, Zenon
    <3>4. x + (b + 1) = (c + 1) + i
      BY <3>3
    <3> QED
      BY <1>5, <3>1, <3>2, <3>4, Zenon
  <2> QED
    BY <2>1, <2>2
<1>9. ASSUME NEW i \in 1 .. a
      PROVE  queue'[i] + (a + b + 1) = (c + 1) + i
  <2>1. PICK x \in Nat : x = queue[i]
    BY <1>7
  <2>2. x + (a + b) = c + i
    BY <1>7, <2>1, Zenon
  <2>3. x + (a + b + 1) = (c + 1) + i
    BY <2>2
  <2> QED
    BY <1>2, <2>1, <2>3, Zenon
<1>10. ComeInOrder'
  <2>1. Len(queue') = a /\ a + b + 1 <= c + 1
    BY <1>2, <1>3, <1>7
  <2> QED
    BY <1>4, <1>5, <1>6, <1>8, <1>9, <2>1 DEF ComeInOrder
<1> QED
  BY <1>3, <1>4, <1>6, <1>10

(* The innermost loop goes on, and the others are as they were. *)
LEMMA TopFits ==
  ASSUME NotifyTyped, LoopsFit, InCallback, NEW l \in Loop, SetTop(l),
         receivers' = receivers, channel' = channel,
         Fits(l, receivers, channel, Waiting', calls'),
         \A i \in DOMAIN loops :
           loops[i].n # 0 /\ loops[i].n + Waiting <= Len(channel)
             /\ i # Len(loops) =>
               /\ loops[i].n + Waiting' <= Len(channel)
               /\ calls'[loops[i].n] = calls[loops[i].n]
  PROVE  LoopsFit'
<1>1. /\ Len(loops') = Len(loops) /\ loops'[Len(loops)] = l
      /\ \A i \in 1 .. Len(loops) : i # Len(loops) => loops'[i] = loops[i]
      /\ DOMAIN loops' = 1 .. Len(loops) /\ DOMAIN loops = 1 .. Len(loops)
  <2>1. /\ Len(loops') = Len(loops) /\ loops'[Len(loops)] = l
        /\ \A i \in 1 .. Len(loops) : i # Len(loops) => loops'[i] = loops[i]
        /\ loops \in Seq(Loop) /\ loops' \in Seq(Loop)
    BY SetTopTyped DEF NotifyTyped, LoopsTyped
  <2> QED
    BY <2>1, LenProperties, Zenon
<1>2. ASSUME NEW i \in DOMAIN loops'
      PROVE  Fits(loops'[i], receivers, channel, Waiting', calls')
  <2>1. CASE i = Len(loops)
    BY <1>1, <2>1, Zenon
  <2>2. CASE i # Len(loops)
    <3>1. loops'[i] = loops[i] /\ i \in DOMAIN loops
      BY <1>1, <2>2, Zenon
    <3>2. Fits(loops[i], receivers, channel, Waiting, calls)
      BY <3>1, Zenon DEF LoopsFit
    <3>3. Fits(loops[i], receivers, channel, Waiting', calls')
      BY <2>2, <3>1, <3>2, FitsStill, Zenon
    <3> QED
      BY <3>1, <3>3, Zenon
  <2> QED
    BY <2>1, <2>2
<1> QED
  BY <1>2, Zenon DEF LoopsFit

(* The loops stay, with a new one perhaps. *)
LEMMA BegunFits ==
  ASSUME NotifyTyped, LoopsFit, LoopsDiffer,
         NEW await \in {"no", "forever", "timeout"}, GetNotifs(await),
         loops = << >> \/ receivers' = receivers,
         Waiting' = Waiting, channel' = channel, calls' = calls
  PROVE  LoopsFit' /\ LoopsDiffer'
<1>0. LoopsTyped /\ DOMAIN loops = 1 .. Len(loops) /\ Len(loops) \in Nat
  BY LenProperties, Zenon DEF NotifyTyped, LoopsTyped
<1>1. \A i \in DOMAIN loops : Fits(loops[i], receivers', channel, Waiting, calls)
  <2>1. CASE loops = << >>
    BY <2>1, EmptyIs, Zenon
  <2>2. CASE receivers' = receivers
    BY <2>2, Zenon DEF LoopsFit
  <2> QED
    BY <2>1, <2>2
<1>2. CASE loops' = loops
  BY <1>1, <1>2, Zenon DEF LoopsFit, LoopsDiffer
<1>3. CASE loops' # loops
  <2>1. PICK l \in Loop :
          /\ l.n = 0 /\ l.at = Stop /\ l.stop = Stop /\ ~l.inside /\ l.due = {}
          /\ Len(loops') = Len(loops) + 1 /\ loops'[Len(loops) + 1] = l
          /\ loops' \in Seq(Loop)
          /\ \A i \in 1 .. Len(loops) : loops'[i] = loops[i]
    BY <1>0, <1>3, GetNotifsIs
  <2>2. ASSUME NEW i \in DOMAIN loops'
        PROVE  i = Len(loops) + 1 \/ (i \in DOMAIN loops /\ i # Len(loops) + 1)
    <3>1. i \in 1 .. Len(loops) + 1
      BY <2>1
    <3> QED
      BY <1>0, <3>1
  <2>3. Fits(l, receivers', channel, Waiting, calls)
    BY <2>1, Zenon DEF Fits
  <2>4. \A i \in DOMAIN loops' : Fits(loops'[i], receivers', channel, Waiting, calls)
    BY <1>0, <1>1, <2>1, <2>2, <2>3, Zenon
  <2>5. ASSUME NEW i \in DOMAIN loops', NEW j \in DOMAIN loops', i # j,
               loops'[i].n # 0
        PROVE  loops'[i].n # loops'[j].n
    <3>1. i \in DOMAIN loops /\ loops'[i] = loops[i]
      BY <1>0, <2>1, <2>2, <2>5, Zenon
    <3>2. CASE j = Len(loops) + 1
      <4>1. loops'[j].n = 0
        BY <2>1, <3>2, Zenon
      <4>2. loops'[i].n # 0
        BY <2>5
      <4> QED
        BY <4>1, <4>2, Zenon
    <3>3. CASE j # Len(loops) + 1
      <4>1. j \in DOMAIN loops /\ loops'[j] = loops[j]
        BY <1>0, <2>1, <2>2, <3>3, Zenon
      <4> QED
        BY <2>5, <3>1, <4>1, Zenon DEF LoopsDiffer
    <3> QED
      BY <3>2, <3>3
  <2> QED
    BY <2>4, <2>5, Zenon DEF LoopsFit, LoopsDiffer
<1> QED
  BY <1>2, <1>3

(* The innermost loop keeps its notification, or takes a new one. *)
LEMMA TopDiffers ==
  ASSUME NotifyTyped, LoopsDiffer, InCallback, NEW l \in Loop, SetTop(l),
         \/ l.n = Top.n
         \/ l.n # 0 /\ \A i \in DOMAIN loops : loops[i].n # l.n
  PROVE  LoopsDiffer'
<1>1. /\ loops'[Len(loops)] = l
      /\ \A i \in 1 .. Len(loops) : i # Len(loops) => loops'[i] = loops[i]
      /\ DOMAIN loops' = 1 .. Len(loops) /\ DOMAIN loops = 1 .. Len(loops)
  <2>1. /\ Len(loops') = Len(loops) /\ loops'[Len(loops)] = l
        /\ \A i \in 1 .. Len(loops) : i # Len(loops) => loops'[i] = loops[i]
        /\ loops \in Seq(Loop) /\ loops' \in Seq(Loop)
    BY SetTopTyped DEF NotifyTyped, LoopsTyped
  <2> QED
    BY <2>1, LenProperties, Zenon
<1>2. CASE l.n = Top.n
  <2>1. \A i \in DOMAIN loops' : i \in DOMAIN loops /\ loops'[i].n = loops[i].n
    BY <1>1, <1>2, Zenon DEF Top
  <2> QED
    BY <2>1, Zenon DEF LoopsDiffer
<1>3. CASE l.n # 0 /\ \A i \in DOMAIN loops : loops[i].n # l.n
  <2>1. ASSUME NEW i \in DOMAIN loops', NEW j \in DOMAIN loops', i # j,
               loops'[i].n # 0
        PROVE  loops'[i].n # loops'[j].n
    <3>1. CASE i = Len(loops)
      BY <1>1, <1>3, <2>1, <3>1, Zenon
    <3>2. CASE j = Len(loops)
      BY <1>1, <1>3, <2>1, <3>2, Zenon
    <3>3. CASE i # Len(loops) /\ j # Len(loops)
      <4>1. /\ i \in DOMAIN loops /\ loops'[i] = loops[i]
            /\ j \in DOMAIN loops /\ loops'[j] = loops[j]
        BY <1>1, <2>1, <3>3, Zenon
      <4>2. loops[i].n # 0
        BY <2>1, <4>1, Zenon
      <4>3. loops[i].n # loops[j].n
        BY <2>1, <4>1, <4>2, Zenon DEF LoopsDiffer
      <4> QED
        BY <4>1, <4>3, Zenon
    <3> QED
      BY <3>1, <3>2, <3>3
  <2> QED
    BY <2>1, Zenon DEF LoopsDiffer
<1> QED
  BY <1>2, <1>3

LEMMA Numbers ==
  \A n, w, m \in Nat :
    /\ n + w <= m => ~(n + w > m)
    /\ n + w <= m => n + (w - 1) <= m
    /\ n + (w - 1) > m => n + w > m
    /\ n + w <= m => n + (w + 1) <= m + 1
    /\ n + (w + 1) > m + 1 => n + w > m
    /\ n # 0 /\ n + w <= m => n \in 1 .. m
OBVIOUS

LEMMA MayNumber == \A n \in 1 .. MaxNotifs : n \in Nat
BY BoundsAre

LEMMA LoopNumbers ==
  ASSUME LoopsTyped, NEW i \in DOMAIN loops
  PROVE  /\ loops[i].n \in Nat
         /\ loops[i].n # 0 => loops[i].n \in 1 .. MaxNotifs
<1>1. loops[i] \in Loop
  BY DEF LoopsTyped
<1>2. loops[i].n \in 0 .. MaxNotifs
  BY <1>1, Zenon DEF Loop
<1>3. PICK n \in 0 .. MaxNotifs : n = loops[i].n
  BY <1>2
<1>4. n \in Nat /\ (n # 0 => n \in 1 .. MaxNotifs)
  BY BoundsAre
<1> QED
  BY <1>3, <1>4, Zenon

LEMMA CallsFitInit == NotifyInit => CallsFit
<1> SUFFICES ASSUME NotifyInit
             PROVE  CallsFit
  OBVIOUS
<1>1. /\ loops = << >> /\ channel = << >> /\ queue = << >> /\ inbox = << >>
      /\ calls = [n \in 1 .. MaxNotifs |-> [r \in Receiver |-> 0]]
  BY DEF NotifyInit
<1>2. Len(<< >>) = 0 /\ Waiting = 0
  BY <1>1 DEF Waiting
<1>3. ComeInOrder
  BY <1>1, <1>2 DEF ComeInOrder
<1>4. LoopsFit /\ LoopsDiffer
  BY <1>1, EmptyIs, Zenon DEF LoopsFit, LoopsDiffer
<1>5. \A n \in 1 .. MaxNotifs : \A r \in Receiver : calls[n][r] = 0
  BY <1>1, Zenon
<1>6. NotYetCalled
  BY <1>5, Zenon DEF NotYetCalled
<1>7. CalledOnce
  BY <1>5 DEF CalledOnce
<1> QED
  BY <1>3, <1>4, <1>6, <1>7 DEF CallsFit

LEMMA CallsFitNext ==
  ASSUME NotifyTyped, CallsFit, [NotifyNext]_notifyVars,
         "add in callback" \notin Liberties, "remove in callback" \notin Liberties
  PROVE  CallsFit'
<1>0. /\ LoopsTyped /\ DOMAIN loops = 1 .. Len(loops) /\ Len(loops) \in Nat
      /\ ComeInOrder /\ LoopsFit /\ LoopsDiffer /\ NotYetCalled /\ CalledOnce
  BY LenProperties, Zenon DEF NotifyTyped, LoopsTyped, CallsFit
(* Steps which no call and no new notification belongs to. *)
<1>1. ASSUME ComeInOrder', LoopsFit', LoopsDiffer', Waiting' = Waiting,
             channel' = channel, calls' = calls
      PROVE  CallsFit'
  BY <1>0, <1>1, Zenon DEF CallsFit, NotYetCalled, CalledOnce
<1>2. CASE Take
  <2>1. /\ InCallback /\ TakenLoop \in Loop /\ SetTop(TakenLoop)
        /\ receivers' = receivers /\ channel' = channel /\ calls' = calls
    BY <1>2, TakeIs
  <2>2. /\ Fits(TakenLoop, receivers, channel, Waiting - 1, calls)
        /\ TakenLoop.n # 0 /\ TakenLoop.n + Waiting > Len(channel)
    BY <1>2, TakenFits
  <2>3. ComeInOrder' /\ Waiting' = Waiting - 1
    BY <1>0, <1>2, TakenInOrder
  <2>4. PICK w \in Nat, m \in Nat : w = Waiting /\ m = Len(channel)
    BY WaitingIs
  <2>5. \A n \in Nat : n + w <= m => n + (w - 1) <= m /\ ~(n + w > m)
    BY Numbers, Zenon
  <2>6. \A i \in DOMAIN loops : loops[i].n \in Nat
    BY <1>0, LoopNumbers, Zenon
  <2>7. LoopsFit'
    <3>1. \A i \in DOMAIN loops :
            loops[i].n + Waiting <= Len(channel) => loops[i].n + Waiting' <= Len(channel)
      BY <2>3, <2>4, <2>5, <2>6, Zenon
    <3>2. Fits(TakenLoop, receivers, channel, Waiting', calls')
      BY <2>1, <2>2, <2>3, Zenon
    <3> QED
      BY <1>0, <2>1, <3>1, <3>2, TopFits, Zenon
  <2>8. LoopsDiffer'
    <3>1. ASSUME NEW i \in DOMAIN loops
          PROVE  loops[i].n # TakenLoop.n
      <4>1. CASE loops[i].n = 0
        BY <2>2, <4>1
      <4>2. CASE loops[i].n # 0
        <5>1. loops[i].n + Waiting <= Len(channel)
          BY <1>0, <4>2, Zenon DEF LoopsFit, Fits
        <5>2. ~(loops[i].n + Waiting > Len(channel))
          BY <2>4, <2>5, <2>6, <5>1, Zenon
        <5> QED
          BY <2>2, <5>2, Zenon
      <4> QED
        BY <4>1, <4>2
    <3> QED
      BY <1>0, <2>1, <2>2, <3>1, TopDiffers, Zenon
  <2>9. NotYetCalled'
    <3>1. \A n \in 1 .. MaxNotifs : n + (w - 1) > m => n + w > m
      BY MayNumber, Numbers, Zenon
    <3> QED
      BY <1>0, <2>1, <2>3, <2>4, <3>1, Zenon DEF NotYetCalled
  <2> QED
    BY <1>0, <2>1, <2>3, <2>7, <2>8, <2>9, Zenon DEF CallsFit, CalledOnce
<1>3. CASE CallReceiver
  <2> DEFINE l == [Top EXCEPT !.inside = TRUE]
  <2>1. /\ InCallback /\ l \in Loop /\ SetTop(l)
        /\ UNCHANGED <<receivers, channel, inbox, queue>>
    BY <1>3, CallIs
  <2>2. /\ Fits(l, receivers, channel, Waiting, calls')
        /\ Top.n # 0 /\ Top.n \in 1 .. MaxNotifs
        /\ Top.n + Waiting <= Len(channel)
        /\ \A n \in 1 .. MaxNotifs : n # Top.n => calls'[n] = calls[n]
        /\ \A r \in Receiver : calls'[Top.n][r] <= 1
    BY <1>3, CalledFits
  <2>3. l.n = Top.n
    BY <1>0, <2>1, TopTyped DEF Loop
  <2>4. Waiting' = Waiting /\ ComeInOrder'
    BY <1>0, <2>1 DEF Waiting, ComeInOrder
  <2> HIDE DEF l
  <2>5. LoopsFit'
    <3>1. ASSUME NEW i \in DOMAIN loops, i # Len(loops), loops[i].n # 0
          PROVE  calls'[loops[i].n] = calls[loops[i].n]
      <4>1. Len(loops) \in DOMAIN loops
        BY <1>0, <2>1, TopTyped
      <4>2. loops[i].n # Top.n
        BY <1>0, <3>1, <4>1, Zenon DEF LoopsDiffer, Top
      <4>3. loops[i].n \in 1 .. MaxNotifs
        BY <1>0, <3>1, LoopNumbers, Zenon
      <4> QED
        BY <2>2, <4>2, <4>3, Zenon
    <3> QED
      BY <1>0, <2>1, <2>2, <2>4, <3>1, TopFits, Zenon
  <2>6. LoopsDiffer'
    BY <1>0, <2>1, <2>3, TopDiffers, Zenon
  <2>7. NotYetCalled'
    <3>1. ASSUME NEW n \in 1 .. MaxNotifs, n + Waiting > Len(channel)
          PROVE  n # Top.n
      <4>1. PICK w \in Nat, m \in Nat : w = Waiting /\ m = Len(channel)
        BY WaitingIs
      <4>2. n \in Nat /\ n + w > m /\ (n = Top.n => n + w <= m)
        BY <2>2, <3>1, <4>1, MayNumber, Zenon
      <4>3. ~(n + w <= m)
        BY <4>2, Numbers, Zenon
      <4> QED
        BY <4>2, <4>3, Zenon
    <3> QED
      BY <1>0, <2>1, <2>2, <2>4, <3>1, Zenon DEF NotYetCalled
  <2>8. CalledOnce'
    BY <1>0, <2>2, Zenon DEF CalledOnce
  <2> QED
    BY <2>4, <2>5, <2>6, <2>7, <2>8, Zenon DEF CallsFit
<1>4. CASE ReturnFromCallback
  <2> DEFINE l == [Top EXCEPT !.inside = FALSE, !.at = Successor(Top.at)]
  <2>1. /\ InCallback /\ l \in Loop /\ SetTop(l)
        /\ UNCHANGED <<receivers, channel, inbox, queue, calls>>
    BY <1>4, ReturnIs
  <2>2. Fits(l, receivers, channel, Waiting, calls) /\ l.n = Top.n
    BY <1>4, ReturnedFits
  <2>3. Waiting' = Waiting /\ ComeInOrder'
    BY <1>0, <2>1 DEF Waiting, ComeInOrder
  <2> HIDE DEF l
  <2>4. LoopsFit'
    <3>1. Fits(l, receivers, channel, Waiting', calls') /\ calls' = calls
      BY <2>1, <2>2, <2>3, Zenon
    <3> QED
      BY <1>0, <2>1, <2>3, <3>1, TopFits, Zenon
  <2>5. LoopsDiffer'
    BY <1>0, <2>1, <2>2, TopDiffers, Zenon
  <2> QED
    BY <1>1, <2>1, <2>3, <2>4, <2>5, Zenon
<1>5. CASE LoopEnd
  <2>1. /\ loops' = Front(loops) /\ loops # << >> /\ loops \in Seq(Loop)
        /\ UNCHANGED <<receivers, channel, inbox, queue, calls>>
    BY <1>0, <1>5 DEF LoopEnd, LoopStep, InCallback, LoopsTyped
  <2>2. \A i \in DOMAIN loops' : i \in DOMAIN loops /\ loops'[i] = loops[i]
    <3>1. /\ loops' \in Seq(Loop) /\ Len(loops') = Len(loops) - 1
          /\ \A i \in 1 .. Len(loops) - 1 : loops'[i] = loops[i]
      BY <2>1, FrontIs
    <3>2. DOMAIN loops' = 1 .. Len(loops) - 1
      BY <3>1, LenProperties, Zenon
    <3> QED
      BY <1>0, <3>1, <3>2, ShorterRange, Zenon
  <2>3. Waiting' = Waiting /\ ComeInOrder'
    BY <1>0, <2>1 DEF Waiting, ComeInOrder
  <2>4. LoopsFit'
    BY <1>0, <2>1, <2>2, <2>3, Zenon DEF LoopsFit
  <2>5. LoopsDiffer'
    <3>1. ASSUME NEW i \in DOMAIN loops', NEW j \in DOMAIN loops', i # j,
                 loops'[i].n # 0
          PROVE  loops'[i].n # loops'[j].n
      <4>1. /\ i \in DOMAIN loops /\ loops'[i] = loops[i]
            /\ j \in DOMAIN loops /\ loops'[j] = loops[j]
        BY <2>2, <3>1, Zenon
      <4>2. loops[i].n # 0
        BY <3>1, <4>1, Zenon
      <4>3. loops[i].n # loops[j].n
        BY <1>0, <3>1, <4>1, <4>2, Zenon DEF LoopsDiffer
      <4> QED
        BY <4>1, <4>3, Zenon
    <3> QED
      BY <3>1, Zenon DEF LoopsDiffer
  <2> QED
    BY <1>1, <2>1, <2>3, <2>4, <2>5, Zenon
<1>6. CASE Woken
  <2>1. Consume /\ UNCHANGED <<receivers, channel, calls>>
    BY <1>6 DEF Woken
  <2>2. Waiting' = Waiting /\ ComeInOrder'
    BY <1>0, <2>1, ConsumedInOrder
  <2>3. ASSUME NEW i \in DOMAIN loops', NEW j \in DOMAIN loops'
        PROVE  loops'[i] = Called /\ loops'[j] = Called
    <3>1. loops' = << Called >> \/ loops' = << >>
      BY <1>6 DEF Woken
    <3> QED
      BY <2>3, <3>1, OneIs, EmptyIs, Zenon
  <2>4. /\ Called.n = 0 /\ Called.at = Stop /\ Called.stop = Stop
        /\ ~Called.inside /\ Called.due = {}
    BY DEF Called
  <2>5. LoopsFit' /\ LoopsDiffer'
    <3>1. \A i \in DOMAIN loops' :
            Fits(loops'[i], receivers', channel', Waiting', calls')
      BY <2>3, <2>4, Zenon DEF Fits
    <3>2. \A i \in DOMAIN loops' : loops'[i].n = 0
      BY <2>3, <2>4, Zenon
    <3> QED
      BY <3>1, <3>2, Zenon DEF LoopsFit, LoopsDiffer
  <2> QED
    BY <1>1, <2>1, <2>2, <2>5, Zenon
<1>7. ASSUME NEW await \in {"no", "forever", "timeout"}, GetNotifs(await),
             loops = << >> \/ receivers' = receivers, UNCHANGED <<channel, calls>>
      PROVE  CallsFit'
  <2>1. Waiting' = Waiting /\ ComeInOrder'
    BY <1>0, <1>7, ConsumedInOrder DEF GetNotifs
  <2>2. LoopsFit' /\ LoopsDiffer'
    BY <1>0, <1>7, <2>1, BegunFits
  <2> QED
    BY <1>1, <1>7, <2>1, <2>2
<1>8. CASE Exec
  BY <1>7, <1>8 DEF Exec
<1>9. CASE Await
  <2>1. PICK t \in {"forever", "timeout"} : GetNotifs(t)
    BY <1>9 DEF Await
  <2> QED
    BY <1>7, <1>9, <2>1 DEF Await
(* Steps between the loops. *)
<1>10. ASSUME UNCHANGED <<channel, inbox, queue, loops, calls>>,
              loops = << >> \/ receivers' = receivers
       PROVE  CallsFit'
  <2>1. Waiting' = Waiting /\ ComeInOrder'
    BY <1>0, <1>10 DEF Waiting, ComeInOrder
  <2>2. LoopsFit'
    <3>1. CASE loops = << >>
      BY <1>10, <3>1, EmptyIs, Zenon DEF LoopsFit
    <3>2. CASE receivers' = receivers
      BY <1>0, <1>10, <2>1, <3>2, Zenon DEF LoopsFit
    <3> QED
      BY <1>10, <3>1, <3>2
  <2>3. LoopsDiffer'
    BY <1>0, <1>10, Zenon DEF LoopsDiffer
  <2> QED
    BY <1>1, <1>10, <2>1, <2>2, <2>3
<1>11. CASE AddReceiver
  <2>1. loops = << >>
    BY <1>11 DEF AddReceiver, InCallback
  <2> QED
    BY <1>10, <1>11, <2>1 DEF AddReceiver
<1>12. CASE RemoveReceiver
  <2>1. loops = << >> /\ UNCHANGED <<channel, calls>>
    BY <1>12 DEF RemoveReceiver, InCallback
  <2>2. CASE GetNotifs("no")
    BY <1>7, <2>1, <2>2
  <2>3. CASE ~GetNotifs("no")
    <3>1. UNCHANGED <<inbox, queue, loops>>
      BY <1>12, <2>3 DEF RemoveReceiver
    <3> QED
      BY <1>10, <2>1, <3>1
  <2> QED
    BY <2>2, <2>3
<1>13. CASE BeginTransaction \/ Fail \/ EndTransaction \/ UNCHANGED notifyVars
  <2>1. UNCHANGED <<receivers, channel, inbox, queue, loops, calls>>
    BY <1>13 DEF BeginTransaction, Fail, EndTransaction, notifyVars
  <2> QED
    BY <1>10, <2>1
<1>14. CASE Notify
  <2>1. /\ ComeInOrder' /\ Waiting' = Waiting + 1
        /\ Len(channel') = Len(channel) + 1
        /\ \A i \in 1 .. Len(channel) : channel'[i] = channel[i]
    BY <1>0, <1>14, SentInOrder
  <2>2. UNCHANGED <<receivers, loops, calls>>
    BY <1>14 DEF Notify
  <2>3. PICK w \in Nat, m \in Nat : w = Waiting /\ m = Len(channel)
    BY WaitingIs
  <2>4. LoopsFit'
    <3>1. ASSUME NEW i \in DOMAIN loops
          PROVE  Fits(loops[i], receivers, channel', Waiting', calls)
      <4>1. Fits(loops[i], receivers, channel, Waiting, calls)
        BY <1>0, Zenon DEF LoopsFit
      <4>2. loops[i].n \in Nat
        BY <1>0, LoopNumbers, Zenon
      <4>3. ASSUME loops[i].n # 0, loops[i].n + Waiting <= Len(channel)
            PROVE  /\ loops[i].n + Waiting' <= Len(channel')
                   /\ channel'[loops[i].n] = channel[loops[i].n]
        <5>1. PICK n \in Nat : n = loops[i].n
          BY <4>2
        <5>2. n # 0 /\ n + w <= m
          BY <2>3, <4>3, <5>1, Zenon
        <5>3. n + (w + 1) <= m + 1 /\ n \in 1 .. m
          BY <5>2, Numbers, Zenon
        <5> QED
          BY <2>1, <2>3, <5>1, <5>3, Zenon
      <4> QED
        BY <4>1, <4>3, FitsStill, Zenon
    <3> QED
      BY <2>2, <3>1, Zenon DEF LoopsFit
  <2>5. NotYetCalled'
    <3>1. \A n \in 1 .. MaxNotifs : n + (w + 1) > m + 1 => n + w > m
      BY MayNumber, Numbers, Zenon
    <3> QED
      BY <1>0, <2>1, <2>2, <2>3, <3>1, Zenon DEF NotYetCalled
  <2>6. LoopsDiffer' /\ CalledOnce'
    BY <1>0, <2>2, Zenon DEF LoopsDiffer, CalledOnce
  <2> QED
    BY <2>1, <2>4, <2>5, <2>6, Zenon DEF CallsFit
<1> QED
  BY <1>2, <1>3, <1>4, <1>5, <1>6, <1>8, <1>9, <1>11, <1>12, <1>13, <1>14
  DEF NotifyNext, Progress

(* A loop that has come to the end of its range has called all of it.        *)
LEMMA FitIsCalled ==
  ASSUME NotifyTyped, CallsFit
  PROVE  ReceiversAreCalled
<1>1. ASSUME NEW i \in DOMAIN loops, loops[i].at = loops[i].stop, ~loops[i].inside,
             NEW r \in loops[i].due \cap Registered
      PROVE  calls[loops[i].n][r] = 1
  <2> DEFINE l == loops[i]
  <2>1. Fits(l, receivers, channel, Waiting, calls)
    BY Zenon DEF CallsFit, LoopsFit
  <2>2. l.n # 0
    BY <2>1, Zenon DEF Fits
  <2>3. Standing(receivers, r) < Standing(receivers, l.at)
    BY <1>1, <2>1, <2>2, Zenon DEF Fits, Registered
  <2>4. HasCalled(l, receivers, r)
    BY <2>3, Zenon DEF HasCalled
  <2>5. r \in Receiver
    BY AtTyped DEF NotifyTyped, ReceiversFit
  <2> QED
    BY <2>1, <2>2, <2>4, <2>5, Zenon DEF Fits
<1>2. AllAreCalled
  BY <1>1, Zenon DEF AllAreCalled
<1>3. NoneIsCalledTwice
  <2>1. \A n \in Notifs : n \in 1 .. MaxNotifs
    BY WaitingIs, BoundsAre
  <2> QED
    BY <2>1, Zenon DEF NoneIsCalledTwice, CallsFit, CalledOnce
<1> QED
  BY <1>2, <1>3 DEF ReceiversAreCalled

(* If the receivers stay as they are while one of them runs, each of them    *)
(* that a notification is for is called for it, and once, whatever the       *)
(* others threw and however calls of get_notifs nest.                        *)
THEOREM ReceiversAlwaysCalled ==
  ASSUME "add in callback" \notin Liberties, "remove in callback" \notin Liberties
  PROVE  NotifySpec => []ReceiversAreCalled
<1>1. NotifyTyped /\ CallsFit /\ [NotifyNext]_notifyVars => (NotifyTyped /\ CallsFit)'
  BY NotifyTypedNext, CallsFitNext
<1>2. NotifySpec => [](NotifyTyped /\ CallsFit)
  BY NotifyTypedInit, CallsFitInit, <1>1, PTL DEF NotifySpec
<1> QED
  BY <1>2, FitIsCalled, PTL

-----------------------------------------------------------------------------
(* The parts together. *)
LEMMA CallsStart == CallsInit => RobustInv /\ PipelineInv /\ NotifyTyped /\ MovesInv
BY InvInit, PipelineStarts, NotifyTypedInit, MovesInit DEF CallsInit

LEMMA CallsKept ==
  ASSUME RobustInv, PipelineInv, NotifyTyped, MovesInv, [CallsNext]_callsVars
  PROVE  RobustInv' /\ PipelineInv' /\ NotifyTyped' /\ MovesInv'
<1>1. /\ [Next]_vars /\ [PipelineNext]_pipeVars /\ [NotifyNext]_notifyVars
      /\ [ConnectionNext]_connVars
  BY DEF CallsNext, callsVars
<1>2. RobustInv'
  BY <1>1, InvNext
<1>3. PipelineInv'
  BY <1>1, PipelineKept
<1>4. NotifyTyped'
  BY <1>1, NotifyTypedNext
<1>5. MovesInv'
  BY <1>1, MovesNext
<1> QED
  BY <1>2, <1>3, <1>4, <1>5

(* Whichever part calls: perform is where the server's state lets it be, the *)
(* pipeline fits its connection, and receivers and connections keep their    *)
(* types.                                                                    *)
THEOREM CallsAlwaysFit == CallsSpec => []CallsInv
<1> DEFINE Inv == RobustInv /\ PipelineInv /\ NotifyTyped /\ MovesInv
<1>1. CallsSpec => CallsInit /\ [][CallsNext]_callsVars
  BY PTL DEF CallsSpec
<1>2. CallsInit => Inv
  BY CallsStart
<1>3. Inv /\ [CallsNext]_callsVars => Inv'
  BY CallsKept
<1>4. Inv => CallsInv
  BY TypedIsTypeOK DEF CallsInv, MovesInv
<1> HIDE DEF Inv
<1> QED
  BY <1>1, <1>2, <1>3, <1>4, PTL

=============================================================================
