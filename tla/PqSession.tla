------------------------------- MODULE PqSession -------------------------------
(***************************************************************************)
(* The server's side of one libpqxx connection, as far as transactions go: *)
(* a transaction block with its savepoints, and a COPY that may be under   *)
(* way.  The server is external; these are the answers that libpqxx's      *)
(* transaction classes count on.                                           *)
(*                                                                         *)
(* A command is an operator from a session to the set of its answers.      *)
(***************************************************************************)
EXTENDS Naturals, Sequences, SequencesExt

CONSTANTS
  Tx,         (* The transaction objects a program makes on a connection.  *)
  NoTx,       (* A null pointer.                                           *)
  MaxWrites   (* Bound: how many writes an object sends.                   *)

ASSUME SessionAssumption ==
  /\ NoTx \notin Tx
  /\ MaxWrites \in Nat

(* A write: who sent it, his how manieth it is, and whether he or the block  *)
(* he belongs to was already closed when he sent it.                         *)
Write == [by : Tx, n : 1 .. MaxWrites, late : BOOLEAN]

(* A level of a block: what was written since its savepoint.  The block's    *)
(* own level has none.                                                       *)
Level == [savepoint : Tx \cup {NoTx}, writes : SUBSET Write]

Session == [block : {"none", "open", "failed"}, levels : Seq(Level),
            copy : BOOLEAN, durable : SUBSET Write]

NewSession ==
  [block |-> "none", levels |-> << >>, copy |-> FALSE, durable |-> {}]

InBlock(s) == UNION {s.levels[i].writes : i \in DOMAIN s.levels}

-----------------------------------------------------------------------------
(* What happens to a session. *)

RolledBack(s) ==
  [s EXCEPT !.block = "none", !.levels = << >>, !.copy = FALSE]

Committed(s) == [RolledBack(s) EXCEPT !.durable = @ \cup InBlock(s)]

Failed(s) ==
  [s EXCEPT !.copy = FALSE,
            !.block = IF s.block = "none" THEN "none" ELSE "failed"]

(* A command that arrives during a COPY ends it in an error first. *)
Ready(s) == IF s.copy THEN Failed(s) ELSE s

(* A write joins the innermost level, or is durable by itself. *)
Written(s, w) ==
  IF s.block = "none"
    THEN [s EXCEPT !.copy = FALSE, !.durable = @ \cup {w}]
    ELSE [s EXCEPT !.copy = FALSE,
                   !.levels[Len(s.levels)].writes = @ \cup {w}]

HasSavepoint(s, t) == \E i \in DOMAIN s.levels : s.levels[i].savepoint = t

LevelOf(s, t) == CHOOSE i \in DOMAIN s.levels : s.levels[i].savepoint = t

(* The level of savepoint t and those inside it become part of the one       *)
(* around it.                                                                *)
Released(s, t) ==
  LET i == LevelOf(s, t)
      inner == UNION {s.levels[j].writes : j \in i .. Len(s.levels)}
      outer == SubSeq(s.levels, 1, i - 1)
      joined == [outer EXCEPT ![i - 1].writes = @ \cup inner]
  IN [s EXCEPT !.levels = joined]

(* The savepoint itself stays. *)
RolledBackTo(s, t) ==
  [s EXCEPT !.block = "open",
            !.levels = Append(SubSeq(@, 1, LevelOf(s, t) - 1),
                              [savepoint |-> t, writes |-> {}])]

-----------------------------------------------------------------------------
(* Commands. *)

Ok(s)    == [reply |-> "ok",     session |-> s]
Error(s) == [reply |-> "error",  session |-> s]
Lost(s)  == [reply |-> "broken", session |-> RolledBack(s)]

(* BEGIN inside a block is but a warning. *)
BeginCmd(s) ==
  CASE s.block = "none" ->
         {Ok([s EXCEPT !.block = "open",
                       !.levels = <<[savepoint |-> NoTx, writes |-> {}]>>])}
    [] s.block = "open"   -> {Ok(s)}
    [] s.block = "failed" -> {Error(s)}

(* COMMIT may meet a deferred constraint; it rolls a failed block back, and  *)
(* that is no error.                                                         *)
CommitCmd(s) ==
  CASE s.block = "none"   -> {Ok(s)}
    [] s.block = "open"   -> {Ok(Committed(s)), Error(RolledBack(s))}
    [] s.block = "failed" -> {Ok(RolledBack(s))}

RollbackCmd(s) == {Ok(RolledBack(s))}

SavepointCmd(s, t) ==
  IF s.block = "open"
    THEN {Ok([s EXCEPT !.levels = Append(@, [savepoint |-> t, writes |-> {}])])}
    ELSE {Error(Failed(s))}

ReleaseCmd(s, t) ==
  IF s.block = "open" /\ HasSavepoint(s, t)
    THEN {Ok(Released(s, t))} ELSE {Error(Failed(s))}

RollbackToCmd(s, t) ==
  IF HasSavepoint(s, t) THEN {Ok(RolledBackTo(s, t))} ELSE {Error(Failed(s))}

(* A statement may always fail. *)
WriteCmd(s, w) ==
  {Error(Failed(s))} \cup (IF s.block = "failed" THEN {} ELSE {Ok(Written(s, w))})

CopyCmd(s) ==
  {Error(Failed(s))} \cup
    (IF s.block = "failed" THEN {} ELSE {Ok([s EXCEPT !.copy = TRUE])})

(* The end of the data.  libpq itself answers when no COPY is under way. *)
EndCopyCmd(s, w) ==
  IF s.copy THEN {Error(Failed(s)), Ok(Written(s, w))} ELSE {Error(s)}

(* The answers seen over a connection that may break, before the server did  *)
(* its work or after.  The server rolls a lost session back.                 *)
Over(open, s, answers) ==
  IF open
    THEN answers \cup {Lost(s)} \cup {Lost(a.session) : a \in answers}
    ELSE {Lost(s)}

=============================================================================
