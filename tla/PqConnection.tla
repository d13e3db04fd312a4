----------------------------- MODULE PqConnection -----------------------------
(***************************************************************************)
(* Who belongs to whom around pqxx::connection: the libpq handle that a    *)
(* connection object owns and may hand on, the error handlers that point   *)
(* to it, the notice processor in the handle that points back, the         *)
(* transaction registered with it, and the numbers that make names unique. *)
(*                                                                         *)
(* A call that only throws changes nothing and is no step.                 *)
(***************************************************************************)
EXTENDS Naturals, Sequences, SequencesExt

CONSTANTS
  Conn,       (* The connection objects.                                   *)
  Handle,     (* libpq's PGconn objects.                                   *)
  Handler,    (* The error handlers.                                       *)
  Trans,      (* The transaction objects.                                  *)
  Null,       (* A null pointer; also the inert notice processor.          *)
  MaxNames    (* Bound: how many names are adorned.                        *)

ASSUME ConnectionAssumption ==
  /\ Null \notin Conn \cup Handle \cup Handler \cup Trans
  /\ MaxNames \in Nat

VARIABLES
  conns,      (* The connection objects.                                   *)
  handles,    (* libpq's objects, each an end of a session.                *)
  home,       (* errorhandler::m_home, for the handlers there are.         *)
  user,       (* The connection that a transaction is registered with.     *)
  named,      (* History: the numbers used in each session, in order.      *)
  lastExec    (* What the last statement ended in.                         *)

connVars == <<conns, handles, home, user, named, lastExec>>

-----------------------------------------------------------------------------
Connection == [life     : {"none", "alive", "gone"},
               handle   : Handle \cup {Null},      (* m_conn *)
               trans    : Trans \cup {Null},       (* m_trans *)
               handlers : Seq(Handler),            (* m_errorhandlers *)
               id       : 0 .. MaxNames]           (* m_unique_id *)

(* status: what PQstatus says; processor: who gets its notices.              *)
PGconn == [status : {"none", "ok", "bad", "finished"}, processor : Conn \cup {Null}]

ExecOutcome == {"none", "result", "sql_error", "failure", "broken_connection"}

NewConnection ==
  [life |-> "alive", handle |-> Null, trans |-> Null, handlers |-> << >>, id |-> 0]

Living == {c \in Conn : conns[c].life = "alive"}

(* is_open *)
IsOpen(c) == conns[c].handle # Null /\ handles[conns[c].handle].status = "ok"

(* PQsetNoticeProcessor, which does nothing without a handle. *)
Processing(hs, h, c) == IF h = Null THEN hs ELSE [hs EXCEPT ![h].processor = c]

(* PQfinish *)
Finished(hs, h) ==
  IF h = Null THEN hs ELSE [hs EXCEPT ![h] = [status |-> "finished", processor |-> Null]]

-----------------------------------------------------------------------------
(* Opening and closing. *)

(* The constructor: PQconnectdb, and complete_init.  If it throws, there is  *)
(* no object, and the handle is finished.                                    *)
Connect ==
  /\ \E c \in Conn, h \in Handle :
       /\ conns[c].life = "none" /\ handles[h].status = "none"
       /\ \/ /\ handles' = [handles EXCEPT ![h].status = "ok"]
             /\ conns' = [conns EXCEPT ![c] = [NewConnection EXCEPT !.handle = h]]
          \/ handles' = Finished(handles, h) /\ UNCHANGED conns
  /\ UNCHANGED <<home, user, named, lastExec>>

(* close unregisters every handler. *)
HomesAfterClose(c) ==
  [e \in Handler |-> IF e \in ToSet(conns[c].handlers) THEN Null ELSE home[e]]

(* What close leaves of the object.  m_trans stays. *)
ClosedConnection(c) == [conns[c] EXCEPT !.handlers = << >>, !.handle = Null]

(* close *)
Close ==
  /\ \E c \in Living :
       /\ conns[c].handle # Null \/ conns[c].handlers # << >>
       /\ conns' = [conns EXCEPT ![c] = ClosedConnection(c)]
       /\ handles' = Finished(handles, conns[c].handle)
       /\ home' = HomesAfterClose(c)
  /\ UNCHANGED <<user, named, lastExec>>

(* The destructor closes.  The program keeps no transaction that refers to   *)
(* the connection.                                                           *)
DestroyConnection ==
  /\ \E c \in Living :
       /\ \A t \in Trans : user[t] # c
       /\ conns' = [conns EXCEPT ![c] = [ClosedConnection(c) EXCEPT !.life = "gone"]]
       /\ handles' = Finished(handles, conns[c].handle)
       /\ home' = HomesAfterClose(c)
  /\ UNCHANGED <<user, named, lastExec>>

-----------------------------------------------------------------------------
(* Moving. *)

(* check_movable and check_overwritable.  Receivers are PqNotify's. *)
IsUnused(c) == conns[c].trans = Null /\ conns[c].handlers = << >>

(* What a new object takes from the one it is made of. *)
TakenFrom(rhs) ==
  [NewConnection EXCEPT !.handle = conns[rhs].handle, !.id = conns[rhs].id]

(* Mutant: both own the handle. *)
MovedFromShared(rhs) == conns[rhs]

(* rhs.m_conn = nullptr *)
MovedFrom(rhs) == [conns[rhs] EXCEPT !.handle = Null]

(* The move constructor. *)
MoveConstruct ==
  /\ \E c \in Conn, rhs \in Living :
       /\ conns[c].life = "none" /\ IsUnused(rhs)
       /\ conns' = [conns EXCEPT ![c] = TakenFrom(rhs), ![rhs] = MovedFrom(rhs)]
  /\ UNCHANGED <<handles, home, user, named, lastExec>>

(* Move assignment closes what the object had; onto itself, it closes it.    *)
MoveAssign ==
  /\ \E c, rhs \in Living :
       /\ IsUnused(c) /\ IsUnused(rhs)
       /\ conns' = [conns EXCEPT
                      ![c] = IF c = rhs THEN ClosedConnection(c) ELSE TakenFrom(rhs),
                      ![rhs] = MovedFrom(rhs)]
       /\ handles' = Finished(handles, conns[c].handle)
  /\ UNCHANGED <<home, user, named, lastExec>>

-----------------------------------------------------------------------------
(* Error handlers. *)

(* register_errorhandler *)
AddHandler ==
  /\ \E e \in Handler, c \in Living :
       /\ home[e] = Null
       /\ home' = [home EXCEPT ![e] = c]
       /\ conns' = [conns EXCEPT ![c].handlers = Append(@, e)]
       /\ handles' = IF conns[c].handlers = << >>
                       THEN Processing(handles, conns[c].handle, c) ELSE handles
  /\ UNCHANGED <<user, named, lastExec>>

(* Mutant: the processor stays when the last handler is gone. *)
ProcessorKept(c, handlers) == handles

(* "if (std::empty(m_errorhandlers))" the notices go nowhere. *)
ProcessorAfter(c, handlers) ==
  IF handlers = << >> THEN Processing(handles, conns[c].handle, Null) ELSE handles

(* Mutant: the handler stays in the chain. *)
ChainKept(c, e) == conns[c].handlers

(* m_errorhandlers.remove: a handler is there once, from its constructor on. *)
ChainWithout(c, e) ==
  LET chain == conns[c].handlers
  IN RemoveAt(chain, CHOOSE i \in DOMAIN chain : chain[i] = e)

(* ~errorhandler and unregister_errorhandler, if it still has a home. *)
RemoveHandler ==
  /\ \E e \in Handler :
       /\ home[e] # Null
       /\ home' = [home EXCEPT ![e] = Null]
       /\ conns' = [conns EXCEPT ![home[e]].handlers = ChainWithout(home[e], e)]
       /\ handles' = ProcessorAfter(home[e], ChainWithout(home[e], e))
  /\ UNCHANGED <<user, named, lastExec>>

-----------------------------------------------------------------------------
(* Transactions and statements. *)

(* check_unique_register *)
CanRegister(c) == conns[c].trans = Null

(* register_transaction *)
Register ==
  /\ \E t \in Trans, c \in Living :
       /\ user[t] = Null /\ CanRegister(c)
       /\ user' = [user EXCEPT ![t] = c]
       /\ conns' = [conns EXCEPT ![c].trans = t]
  /\ UNCHANGED <<handles, home, named, lastExec>>

(* unregister_transaction, which leaves none registered whoever asks. *)
Unregister ==
  /\ \E t \in Trans :
       /\ user[t] # Null
       /\ user' = [user EXCEPT ![t] = Null]
       /\ conns' = [conns EXCEPT ![user[t]].trans = Null]
  /\ UNCHANGED <<handles, home, named, lastExec>>

(* adorn_name, for a cursor or the like in the session. *)
AdornName ==
  /\ \E c \in Living :
       /\ IsOpen(c) /\ conns[c].id < MaxNames
       /\ conns' = [conns EXCEPT ![c].id = @ + 1]
       /\ named' = [named EXCEPT ![conns[c].handle] = Append(@, conns[c].id + 1)]
  /\ UNCHANGED <<handles, home, user, lastExec>>

(* Mutant: the status of the result is looked at before the encoding. *)
MakeResultStatusFirst(got, open, ok) ==
  CASE ~got -> IF open THEN "failure" ELSE "broken_connection"
    [] got /\ ~ok -> "sql_error"
    [] got /\ ok -> IF open THEN "result" ELSE "broken_connection"

(* make_result.  encoding_id is the first to see that the connection broke.  *)
MakeResult(got, open, ok) ==
  CASE ~got -> IF open THEN "failure" ELSE "broken_connection"
    [] got /\ ~open -> "broken_connection"
    [] got /\ open -> IF ok THEN "result" ELSE "sql_error"

(* exec, prepare, exec_prepared, exec_params, and the result of a COPY's     *)
(* end.  PQexec and the like give no result if memory fails or there is no   *)
(* connection, and a failed one if it breaks on the way.                     *)
ExecuteOn(c) ==
  /\ \E got, ok, breaks \in BOOLEAN :
       LET h == conns[c].handle
           open == IsOpen(c) /\ ~breaks
       IN /\ got => h # Null
          /\ ok => got /\ open
          /\ lastExec' = MakeResult(got, open, ok)
          /\ handles' = IF h # Null /\ breaks THEN [handles EXCEPT ![h].status = "bad"]
                        ELSE handles
  /\ UNCHANGED <<conns, home, user, named>>

Execute == \E c \in Living : ExecuteOn(c)

-----------------------------------------------------------------------------
ConnectionInit ==
  /\ conns = [c \in Conn |-> [NewConnection EXCEPT !.life = "none"]]
  /\ handles = [h \in Handle |-> [status |-> "none", processor |-> Null]]
  /\ home = [e \in Handler |-> Null] /\ user = [t \in Trans |-> Null]
  /\ named = [h \in Handle |-> << >>] /\ lastExec = "none"

ConnectionNext ==
  \/ Connect \/ Close \/ DestroyConnection \/ MoveConstruct \/ MoveAssign
  \/ AddHandler \/ RemoveHandler \/ Register \/ Unregister \/ AdornName \/ Execute

ConnectionSpec == ConnectionInit /\ [][ConnectionNext]_connVars

-----------------------------------------------------------------------------
(* Every variable has its type, and the chain of handlers no duplicates. *)
ConnectionTypeOK ==
  /\ conns \in [Conn -> Connection]
  /\ \A c \in Conn : IsInjective(conns[c].handlers)
  /\ handles \in [Handle -> PGconn]
  /\ home \in [Handler -> Conn \cup {Null}]
  /\ user \in [Trans -> Conn \cup {Null}]
  /\ named \in [Handle -> Seq(1 .. MaxNames)]
  /\ lastExec \in ExecOutcome

(* Through all moves, a handle that is not finished has exactly one owner,   *)
(* and no one has a finished one: neither a leak nor a second PQfinish.      *)
HandlesAreOwned ==
  /\ \A h \in Handle : handles[h].status \in {"ok", "bad"} =>
       \E c \in Living : /\ conns[c].handle = h
                         /\ \A d \in Living \ {c} : conns[d].handle # h
  /\ \A c \in Living : conns[c].handle # Null =>
       handles[conns[c].handle].status \in {"ok", "bad"}

(* A handler points to the connection in whose chain it is, and that lives.  *)
HandlersAreHome ==
  \A e \in Handler : \A c \in Conn :
    home[e] = c <=> c \in Living /\ e \in ToSet(conns[c].handlers)

(* libpq passes notices to a connection exactly if that owns the handle and  *)
(* has handlers: never to an object that was destroyed or moved from.        *)
NoticesComeHome ==
  \A h \in Handle : \A c \in Conn :
    handles[h].processor = c <=>
      c \in Living /\ conns[c].handle = h /\ conns[c].handlers # << >>

(* A transaction and its connection know each other: "Moving a connection is *)
(* not allowed if it has an open transaction".                               *)
TransactionsAgree ==
  \A t \in Trans : \A c \in Conn :
    user[t] = c <=> c \in Living /\ conns[c].trans = t

(* adorn_name makes a name "unique within session context", also when the    *)
(* session moved to another object.                                          *)
NamesAreUnique == \A h \in Handle : IsInjective(named[h])

(* What belongs to a session moves with it from object to object, and all of *)
(* it: handlers, the notice processor, the transaction, the number of names. *)
MovesAreWhole ==
  HandlersAreHome /\ NoticesComeHome /\ TransactionsAgree /\ NamesAreUnique

(* A statement that fails because the connection broke says so: that is what *)
(* transactors go by.                                                        *)
BreaksAreTold ==
  [][\A c \in Living : ExecuteOn(c) /\ ~IsOpen(c)' =>
                       lastExec' = "broken_connection"]_connVars

=============================================================================
