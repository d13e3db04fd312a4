----------------------------- MODULE PqTransaction -----------------------------
(***************************************************************************)
(* libpqxx's transaction objects on one connection: transaction_base with  *)
(* its status, its registration, its focus and its pending error;          *)
(* transaction (also called work); subtransaction; and stream_to as the    *)
(* focus.  A call runs to its end, and the program may make any call next. *)
(*                                                                         *)
(* A call that only throws, and one that only leaves a notice, change      *)
(* nothing and are no steps.  The program sends no BEGIN, COMMIT or the    *)
(* like as a statement of its own.                                         *)
(***************************************************************************)
EXTENDS PqSession, FiniteSets

CONSTANT
  Disciplined (* TRUE: the program nests things as the library tells it:   *)
              (* a subtransaction in an open transaction, which is then    *)
              (* left alone, and no stream is open when one is aborted.    *)

ASSUME DisciplineAssumption == Disciplined \in BOOLEAN

VARIABLES
  open,       (* connection::is_open().                                    *)
  slot,       (* connection::m_trans.                                      *)
  tx,         (* The transaction objects.                                  *)
  session,    (* The server's side.                                        *)
  done        (* History: the writes the program was told have succeeded,  *)
              (* but for late ones.                                        *)

vars == <<open, slot, tx, session, done>>

-----------------------------------------------------------------------------
(* Objects. *)

Status == {"active", "aborted", "committed", "in_doubt"}

Object == [life       : {"none", "alive", "gone"},
           parent     : Tx \cup {NoTx},   (* Of a subtransaction. *)
           root       : Tx \cup {NoTx},   (* The outermost transaction. *)
           status     : Status,           (* m_status *)
           registered : BOOLEAN,          (* m_registered *)
           focus      : BOOLEAN,          (* m_focus: an open stream_to. *)
           pending    : BOOLEAN,          (* m_pending_error *)
           writes     : 0 .. MaxWrites]   (* Writes sent. *)

(* Mutant: m_status has no initial value. *)
AbsentUninitialised ==
  [life |-> "none", parent |-> NoTx, root |-> NoTx, status |-> "garbage",
   registered |-> FALSE, focus |-> FALSE, pending |-> FALSE, writes |-> 0]

Absent ==
  [life |-> "none", parent |-> NoTx, root |-> NoTx, status |-> "active",
   registered |-> FALSE, focus |-> FALSE, pending |-> FALSE, writes |-> 0]

Alive(t) == tx[t].life = "alive"

IsSub(t) == tx[t].parent # NoTx

(* Its subtransactions that are still going on. *)
OpenSubs(t) ==
  {s \in Tx : Alive(s) /\ tx[s].parent = t /\ tx[s].status = "active"}

Usable(t) == Alive(t) /\ (Disciplined => OpenSubs(t) = {})

(* The transaction and the block it belongs to are open. *)
Going(t) == tx[t].status = "active" /\ tx[tx[t].root].status = "active"

-----------------------------------------------------------------------------
(* connection::exec: what the program then knows of the connection. *)
Receive(answer) ==
  /\ session' = answer.session
  /\ open' = (open /\ answer.reply # "broken")

(* The answers to a command sent through PQexec. *)
Answers(cmd(_)) == Over(open, session, cmd(Ready(session)))

(* check_pending_error: the error is thrown once. *)
ThrowPending(t) ==
  /\ tx[t].pending
  /\ tx' = [tx EXCEPT ![t].pending = FALSE]
  /\ UNCHANGED <<open, slot, session, done>>

-----------------------------------------------------------------------------
(* Construction.  A constructor that throws leaves no object. *)

(* transaction: register_transaction, then BEGIN. *)
Construct(t) ==
  /\ tx[t].life = "none" /\ slot = NoTx
  /\ \E a \in Answers(BeginCmd) :
       /\ Receive(a)
       /\ \/ /\ a.reply = "ok"
             /\ tx' = [tx EXCEPT ![t].life = "alive", ![t].root = t,
                                 ![t].registered = TRUE]
             /\ slot' = t
          \/ a.reply # "ok" /\ UNCHANGED <<tx, slot>>
  /\ UNCHANGED done

(* subtransaction: SAVEPOINT.  It registers with nobody, neither with the    *)
(* connection nor as its parent's focus.                                     *)
ConstructSub(t, parent) ==
  /\ tx[t].life = "none"
  /\ Usable(parent) /\ (Disciplined => tx[parent].status = "active")
  /\ \E a \in Answers(LAMBDA s : SavepointCmd(s, t)) :
       /\ Receive(a)
       /\ \/ /\ a.reply = "ok"
             /\ tx' = [tx EXCEPT ![t].life = "alive", ![t].parent = parent,
                                 ![t].root = tx[parent].root]
          \/ a.reply # "ok" /\ UNCHANGED tx
  /\ UNCHANGED <<slot, done>>

-----------------------------------------------------------------------------
(* Statements. *)

NewWrite(t) == [by |-> t, n |-> tx[t].writes + 1, late |-> ~Going(t)]

(* An object that sent its write, with a note of what it was told. *)
Told(w, answer) ==
  done' = IF answer.reply = "ok" /\ ~w.late THEN done \cup {w} ELSE done

SendWrite(t) ==
  /\ tx[t].writes < MaxWrites
  /\ LET w == NewWrite(t)
     IN \E a \in Answers(LAMBDA s : WriteCmd(s, w)) :
          Receive(a) /\ Told(w, a)
  /\ tx' = [tx EXCEPT ![t].writes = @ + 1]
  /\ UNCHANGED slot

(* exec refuses to run on a closed transaction, or during a stream. *)
Exec(t) ==
  /\ Usable(t)
  /\ \/ ThrowPending(t)
     \/ /\ ~tx[t].pending /\ ~tx[t].focus /\ tx[t].status = "active"
        /\ SendWrite(t)

(* exec_params and exec_prepared look at the focus only. *)
ExecParams(t) ==
  /\ Usable(t)
  /\ ~tx[t].focus
  /\ SendWrite(t)

(* stream_to: COPY as a statement, then register_me. *)
OpenStream(t) ==
  /\ Usable(t)
  /\ ~tx[t].pending /\ ~tx[t].focus /\ tx[t].status = "active"
  /\ \E a \in Answers(CopyCmd) :
       /\ Receive(a)
       /\ tx' = [tx EXCEPT ![t].focus = (a.reply = "ok")]
  /\ UNCHANGED <<slot, done>>

(* stream_to::complete, called by the program, or by the destructor, which   *)
(* keeps an error for later.                                                 *)
CloseStream(t) ==
  /\ Alive(t) /\ tx[t].focus /\ tx[t].writes < MaxWrites
  /\ LET w == NewWrite(t)
     IN \E a \in Over(open, session, EndCopyCmd(session, w)),
           destructor \in BOOLEAN :
          /\ Receive(a) /\ Told(w, a)
          /\ tx' = [tx EXCEPT ![t].focus = FALSE, ![t].writes = @ + 1,
                              ![t].pending = @ \/ (destructor /\ a.reply # "ok")]
  /\ UNCHANGED slot

-----------------------------------------------------------------------------
(* The end of a transaction. *)

(* close() without its abort(): unregister_transaction resets the pointer    *)
(* whoever is registered.                                                    *)
Unregister(t) == slot' = IF tx[t].registered THEN NoTx ELSE slot

DoCommit(t) ==
  Answers(LAMBDA s : IF IsSub(t) THEN ReleaseCmd(s, t) ELSE CommitCmd(s))

(* Mutant: m_rollback_cmd is empty, as that of a nontransaction may be. *)
DoAbortNothing(t) == {Ok(session)}

(* Mutant: a subtransaction is rolled back like a transaction. *)
DoAbortAll(t) == Answers(RollbackCmd)

DoAbort(t) ==
  Answers(LAMBDA s : IF IsSub(t) THEN RollbackToCmd(s, t) ELSE RollbackCmd(s))

(* Mutant: the catch clauses are swapped. *)
StatusAfterCommitNeverInDoubt(t, reply) ==
  IF reply = "ok" THEN "committed" ELSE "aborted"

(* basic_transaction::do_commit turns a lost connection into in_doubt_error; *)
(* subtransaction::do_commit does not.                                       *)
StatusAfterCommit(t, reply) ==
  CASE reply = "ok"                   -> "committed"
    [] reply = "broken" /\ ~IsSub(t)  -> "in_doubt"
    [] OTHER                          -> "aborted"

(* commit: it runs on an active transaction without focus, over a connection *)
(* that is open as far as one knows.  Only success closes the transaction.   *)
Commit(t) ==
  /\ Usable(t)
  /\ \/ ThrowPending(t)
     \/ /\ ~tx[t].pending
        /\ tx[t].status = "active" /\ ~tx[t].focus /\ open
        /\ \E a \in DoCommit(t) :
             /\ Receive(a)
             /\ tx' = [tx EXCEPT ![t].status = StatusAfterCommit(t, a.reply),
                                 ![t].registered = (@ /\ a.reply # "ok")]
             /\ \/ a.reply = "ok" /\ Unregister(t)
                \/ a.reply # "ok" /\ UNCHANGED slot
        /\ UNCHANGED done

(* abort: do_abort's errors are swallowed.  One of them is the pending error *)
(* that direct_exec throws instead of sending the command.                   *)
Abort(t) ==
  /\ Usable(t) /\ tx[t].status = "active"
  /\ Disciplined => ~tx[t].focus
  /\ \/ tx[t].pending /\ UNCHANGED <<open, session>>
     \/ ~tx[t].pending /\ \E a \in DoAbort(t) : Receive(a)
  /\ tx' = [tx EXCEPT ![t].status = "aborted", ![t].pending = FALSE,
                      ![t].registered = FALSE]
  /\ Unregister(t)
  /\ UNCHANGED done

(* Mutant: a destructor that relies on close() having run. *)
StillRegisteredAfterFailure(t) == tx[t].registered /\ tx[t].status # "active"

StillRegistered(t) == FALSE

(* The destructor: close() reports a pending error, unregisters, and aborts  *)
(* a transaction that is still active.  C++ lets no stream or subtransaction *)
(* outlive its transaction.                                                  *)
Destroy(t) ==
  /\ Alive(t) /\ ~tx[t].focus
  /\ \A s \in Tx : tx[s].parent = t => ~Alive(s)
  /\ \/ /\ tx[t].status = "active"
        /\ \E a \in DoAbort(t) : Receive(a)
     \/ tx[t].status # "active" /\ UNCHANGED <<open, session>>
  /\ tx' = [tx EXCEPT ![t].life = "gone", ![t].pending = FALSE,
                      ![t].registered = StillRegistered(t),
                      ![t].status = IF @ = "active" THEN "aborted" ELSE @]
  /\ \/ StillRegistered(t) /\ UNCHANGED slot
     \/ ~StillRegistered(t) /\ Unregister(t)
  /\ UNCHANGED done

(* connection::close.  It forgets handlers, and not the transaction. *)
CloseConnection ==
  /\ open
  /\ open' = FALSE /\ session' = RolledBack(session)
  /\ UNCHANGED <<slot, tx, done>>

-----------------------------------------------------------------------------
Init ==
  /\ open = TRUE /\ slot = NoTx
  /\ tx = [t \in Tx |-> Absent]
  /\ session = NewSession /\ done = {}

Next ==
  \/ \E t \in Tx :
       \/ Construct(t)
       \/ \E parent \in Tx : ConstructSub(t, parent)
       \/ Exec(t) \/ ExecParams(t)
       \/ OpenStream(t) \/ CloseStream(t)
       \/ Commit(t) \/ Abort(t) \/ Destroy(t)
  \/ CloseConnection

Spec == Init /\ [][Next]_vars

-----------------------------------------------------------------------------
(* Properties that hold. *)

(* Every variable has its type. *)
TypeOK ==
  /\ open \in BOOLEAN /\ slot \in Tx \cup {NoTx}
  /\ tx \in [Tx -> Object]
  /\ session \in Session /\ done \subseteq Write

(* The connection's pointer never dangles, however a transaction ended: it   *)
(* is null or a living object that knows it is registered.                   *)
SlotIsAlive ==
  \A t \in Tx : /\ slot = t <=> tx[t].registered
                /\ tx[t].registered => Alive(t)

(* A block at the server that could still commit belongs to the active       *)
(* transaction that the connection knows, and so do the writes in it: no     *)
(* transaction inherits the work of an earlier one.                          *)
OpenBlockIsOwned ==
  session.block = "open" =>
    /\ slot # NoTx /\ tx[slot].status = "active"
    /\ \A w \in InBlock(session) : ~w.late => tx[w.by].root = slot

(* What is durable was committed as far as the program was told, or is in    *)
(* doubt: libpqxx never reports an abort, or nothing, of work that stayed.   *)
DurableWasCommitted ==
  \A w \in session.durable : ~w.late =>
    /\ tx[tx[w.by].root].status \in {"committed", "in_doubt"}
    /\ IsSub(w.by) => tx[w.by].status = "committed"

(* dbtransaction: "the whole series of operations either succeeds as a whole *)
(* or fails completely".                                                     *)
AllOrNothing ==
  \A t \in Tx :
    LET series == {w \in done : w.by = t}
    IN series \cap session.durable \in {{}, series}

-----------------------------------------------------------------------------
(* What the comments say, and the code does not. *)

(* dbtransaction: "If something has gone wrong and the changes should be     *)
(* forgotten, call abort()": the server has no block left over.              *)
NoBlockLeft == slot = NoTx => session.block = "none"

(* subtransaction: "the upper-level transaction W is still fine", in         *)
(* whatever way the subtransaction is aborted.                               *)
SubAbortHeals ==
  [][\A t \in Tx :
       IsSub(t) /\ tx[t].status = "active" /\ tx'[t].status = "aborted" /\ open'
         => session'.block # "failed"]_vars

=============================================================================
