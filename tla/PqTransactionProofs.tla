-------------------------- MODULE PqTransactionProofs --------------------------
(***************************************************************************)
(* Proofs about PqTransaction.  First the answers of the server have their *)
(* type; then every call keeps the types and the registration in step.     *)
(* The second half is about what is written, and when it is durable, under *)
(* the library's nesting rules.                                            *)
(***************************************************************************)
EXTENDS PqTransaction, SequenceTheorems, TLAPS

Answer == [reply : {"ok", "error", "broken"}, session : Session]

(* What may happen to a session leaves a session. *)
LEMMA RolledBackTyped ==
  ASSUME NEW s \in Session
  PROVE  RolledBack(s) \in Session
<1>1. << >> \in Seq(Level)
  OBVIOUS
<1> QED
  BY <1>1 DEF RolledBack, Session

LEMMA FailedTyped ==
  ASSUME NEW s \in Session
  PROVE  Failed(s) \in Session
  BY DEF Failed, Session

LEMMA ReadyTyped ==
  ASSUME NEW s \in Session
  PROVE  Ready(s) \in Session
  BY FailedTyped DEF Ready

LEMMA InBlockTyped ==
  ASSUME NEW s \in Session
  PROVE  InBlock(s) \subseteq Write
<1>1. ASSUME NEW i \in DOMAIN s.levels
      PROVE  s.levels[i].writes \subseteq Write
  <2>1. s.levels[i] \in Level
    BY <1>1 DEF Session
  <2> QED
    BY <2>1 DEF Level
<1> QED
  BY <1>1 DEF InBlock

LEMMA CommittedTyped ==
  ASSUME NEW s \in Session
  PROVE  Committed(s) \in Session
<1>1. s.durable \cup InBlock(s) \subseteq Write
  BY InBlockTyped DEF Session
<1> QED
  BY <1>1, RolledBackTyped DEF Committed, RolledBack, Session

LEMMA AppendLevelTyped ==
  ASSUME NEW levels \in Seq(Level), NEW t \in Tx \cup {NoTx}
  PROVE  Append(levels, [savepoint |-> t, writes |-> {}]) \in Seq(Level)
<1>1. [savepoint |-> t, writes |-> {}] \in Level
  BY DEF Level
<1> QED
  BY <1>1

(* More writes on one level. *)
LEMMA MoreWritesTyped ==
  ASSUME NEW levels \in Seq(Level), NEW i, NEW ws \in SUBSET Write
  PROVE  [levels EXCEPT ![i].writes = @ \cup ws] \in Seq(Level)
<1> DEFINE more == [levels EXCEPT ![i].writes = @ \cup ws]
<1>1. CASE i \notin DOMAIN levels
  <2>1. more = levels
    BY <1>1
  <2> QED
    BY <2>1
<1>2. CASE i \in DOMAIN levels
  <2>1. levels[i] \in Level
    BY <1>2
  <2>2. [levels[i] EXCEPT !.writes = @ \cup ws] \in Level
    BY <2>1 DEF Level
  <2>3. more = [levels EXCEPT ![i] = [levels[i] EXCEPT !.writes = @ \cup ws]]
    BY <1>2
  <2> QED
    BY <1>2, <2>2, <2>3
<1> QED
  BY <1>1, <1>2

LEMMA WrittenTyped ==
  ASSUME NEW s \in Session, NEW w \in Write
  PROVE  Written(s, w) \in Session
<1>1. [s.levels EXCEPT ![Len(s.levels)].writes = @ \cup {w}] \in Seq(Level)
  BY MoreWritesTyped DEF Session
<1> QED
  BY <1>1 DEF Written, Session

LEMMA LevelOfTyped ==
  ASSUME NEW s \in Session, NEW t, HasSavepoint(s, t)
  PROVE  LevelOf(s, t) \in 1 .. Len(s.levels)
  BY DEF LevelOf, HasSavepoint, Session

LEMMA ReleasedTyped ==
  ASSUME NEW s \in Session, NEW t \in Tx, HasSavepoint(s, t)
  PROVE  Released(s, t) \in Session
<1> DEFINE i == LevelOf(s, t)
           inner == UNION {s.levels[j].writes : j \in i .. Len(s.levels)}
           outer == SubSeq(s.levels, 1, i - 1)
<1>1. i \in 1 .. Len(s.levels) /\ s.levels \in Seq(Level)
  BY LevelOfTyped DEF Session
<1>2. inner \subseteq Write
  <2>1. ASSUME NEW j \in i .. Len(s.levels)
        PROVE  s.levels[j].writes \subseteq Write
    <3>1. j \in 1 .. Len(s.levels)
      BY <1>1
    <3>2. s.levels[j] \in Level
      BY <1>1, <3>1
    <3> QED
      BY <3>2 DEF Level
  <2> QED
    BY <2>1
<1>3. outer \in Seq(Level)
  BY <1>1
<1>4. [outer EXCEPT ![i - 1].writes = @ \cup inner] \in Seq(Level)
  BY <1>2, <1>3, MoreWritesTyped
<1>5. Released(s, t) =
        [s EXCEPT !.levels = [outer EXCEPT ![i - 1].writes = @ \cup inner]]
  BY DEF Released
<1> QED
  BY <1>4, <1>5 DEF Session

LEMMA RolledBackToTyped ==
  ASSUME NEW s \in Session, NEW t \in Tx, HasSavepoint(s, t)
  PROVE  RolledBackTo(s, t) \in Session
<1>1. LevelOf(s, t) \in 1 .. Len(s.levels) /\ s.levels \in Seq(Level)
  BY LevelOfTyped DEF Session
<1>2. SubSeq(s.levels, 1, LevelOf(s, t) - 1) \in Seq(Level)
  BY <1>1
<1>3. Append(SubSeq(s.levels, 1, LevelOf(s, t) - 1),
             [savepoint |-> t, writes |-> {}]) \in Seq(Level)
  BY <1>2, AppendLevelTyped
<1> QED
  BY <1>3 DEF RolledBackTo, Session

(* So do the commands. *)
LEMMA AnswerTyped ==
  ASSUME NEW s \in Session
  PROVE  Ok(s) \in Answer /\ Error(s) \in Answer
  BY DEF Ok, Error, Answer

LEMMA BeginTyped ==
  ASSUME NEW s \in Session
  PROVE  BeginCmd(s) \subseteq Answer
<1>1. <<[savepoint |-> NoTx, writes |-> {}]>> \in Seq(Level)
  BY DEF Level
<1>2. [s EXCEPT !.block = "open",
                !.levels = <<[savepoint |-> NoTx, writes |-> {}]>>] \in Session
  BY <1>1 DEF Session
<1>3. s.block \in {"none", "open", "failed"}
  BY DEF Session
<1> QED
  BY <1>2, <1>3, AnswerTyped DEF BeginCmd

LEMMA CommitTyped ==
  ASSUME NEW s \in Session
  PROVE  CommitCmd(s) \subseteq Answer
<1>1. s.block \in {"none", "open", "failed"}
  BY DEF Session
<1> QED
  BY <1>1, CommittedTyped, RolledBackTyped DEF CommitCmd, Ok, Error, Answer

LEMMA RollbackTyped ==
  ASSUME NEW s \in Session
  PROVE  RollbackCmd(s) \subseteq Answer
  BY RolledBackTyped DEF RollbackCmd, Ok, Answer

LEMMA SavepointTyped ==
  ASSUME NEW s \in Session, NEW t \in Tx
  PROVE  SavepointCmd(s, t) \subseteq Answer
<1>1. s.levels \in Seq(Level)
  BY DEF Session
<1>2. Append(s.levels, [savepoint |-> t, writes |-> {}]) \in Seq(Level)
  BY <1>1, AppendLevelTyped
<1>3. [s EXCEPT !.levels = Append(@, [savepoint |-> t, writes |-> {}])] \in Session
  BY <1>2 DEF Session
<1> QED
  BY <1>3, FailedTyped, AnswerTyped DEF SavepointCmd

LEMMA ReleaseTyped ==
  ASSUME NEW s \in Session, NEW t \in Tx
  PROVE  ReleaseCmd(s, t) \subseteq Answer
  BY ReleasedTyped, FailedTyped DEF ReleaseCmd, Ok, Error, Answer

LEMMA RollbackToTyped ==
  ASSUME NEW s \in Session, NEW t \in Tx
  PROVE  RollbackToCmd(s, t) \subseteq Answer
  BY RolledBackToTyped, FailedTyped DEF RollbackToCmd, Ok, Error, Answer

LEMMA WriteTyped ==
  ASSUME NEW s \in Session, NEW w \in Write
  PROVE  WriteCmd(s, w) \subseteq Answer
  BY WrittenTyped, FailedTyped DEF WriteCmd, Ok, Error, Answer

LEMMA CopyTyped ==
  ASSUME NEW s \in Session
  PROVE  CopyCmd(s) \subseteq Answer
<1>1. [s EXCEPT !.copy = TRUE] \in Session
  BY DEF Session
<1> QED
  BY <1>1, FailedTyped, AnswerTyped DEF CopyCmd

LEMMA EndCopyTyped ==
  ASSUME NEW s \in Session, NEW w \in Write
  PROVE  EndCopyCmd(s, w) \subseteq Answer
  BY WrittenTyped, FailedTyped DEF EndCopyCmd, Ok, Error, Answer

LEMMA OverTyped ==
  ASSUME NEW o \in BOOLEAN, NEW s \in Session, NEW answers \in SUBSET Answer
  PROVE  Over(o, s, answers) \subseteq Answer
<1>1. ASSUME NEW r \in Session
      PROVE  Lost(r) \in Answer
  BY <1>1, RolledBackTyped DEF Lost, Answer
<1>2. \A a \in answers : a.session \in Session
  BY DEF Answer
<1> QED
  BY <1>1, <1>2 DEF Over

-----------------------------------------------------------------------------
(* What a call receives. *)

LEMMA AnswersTyped ==
  ASSUME TypeOK, NEW t \in Tx
  PROVE  /\ Answers(BeginCmd) \subseteq Answer
         /\ Answers(LAMBDA s : SavepointCmd(s, t)) \subseteq Answer
         /\ Answers(CopyCmd) \subseteq Answer
         /\ DoCommit(t) \subseteq Answer
         /\ DoAbort(t) \subseteq Answer
<1> DEFINE s == Ready(session)
<1>1. open \in BOOLEAN /\ session \in Session /\ s \in Session
  BY ReadyTyped DEF TypeOK
<1>2. /\ BeginCmd(s) \subseteq Answer /\ CommitCmd(s) \subseteq Answer
      /\ RollbackCmd(s) \subseteq Answer /\ SavepointCmd(s, t) \subseteq Answer
      /\ ReleaseCmd(s, t) \subseteq Answer /\ RollbackToCmd(s, t) \subseteq Answer
      /\ CopyCmd(s) \subseteq Answer
  BY <1>1, BeginTyped, CommitTyped, RollbackTyped, SavepointTyped,
     ReleaseTyped, RollbackToTyped, CopyTyped
<1> HIDE DEF s
<1>3. \A as \in SUBSET Answer : Over(open, session, as) \subseteq Answer
  BY <1>1, OverTyped
<1>4. Answers(BeginCmd) \subseteq Answer
  BY <1>2, <1>3 DEF Answers, s
<1>5. Answers(LAMBDA r : SavepointCmd(r, t)) \subseteq Answer
  BY <1>2, <1>3 DEF Answers, s
<1>6. Answers(CopyCmd) \subseteq Answer
  BY <1>2, <1>3 DEF Answers, s
<1>7. DoCommit(t) \subseteq Answer
  BY <1>2, <1>3 DEF DoCommit, Answers, s
<1>8. DoAbort(t) \subseteq Answer
  BY <1>2, <1>3 DEF DoAbort, Answers, s
<1> QED
  BY <1>4, <1>5, <1>6, <1>7, <1>8

LEMMA ReceiveTyped ==
  ASSUME TypeOK, NEW a \in Answer, Receive(a)
  PROVE  open' \in BOOLEAN /\ session' \in Session
<1>1. session' \in Session
  BY DEF Receive, Answer
<1>2. open' \in BOOLEAN
  BY DEF Receive, TypeOK
<1> QED
  BY <1>1, <1>2

LEMMA NewWriteTyped ==
  ASSUME TypeOK, NEW t \in Tx, tx[t].writes < MaxWrites
  PROVE  NewWrite(t) \in Write
<1>1. tx[t] \in Object
  BY DEF TypeOK
<1>2. tx[t].writes \in 0 .. MaxWrites
  BY <1>1 DEF Object
<1>3. tx[t].writes + 1 \in 1 .. MaxWrites
  BY <1>2, SessionAssumption
<1>4. (~Going(t)) \in BOOLEAN
  BY DEF Going
<1> QED
  BY <1>3, <1>4 DEF NewWrite, Write

LEMMA ToldTyped ==
  ASSUME TypeOK, NEW w \in Write, NEW a \in Answer, Told(w, a)
  PROVE  done' \subseteq Write
  BY DEF Told, TypeOK

(* A call changes one object, and the slot with its registration. *)
LEMMA ObjectStep ==
  ASSUME TypeOK, SlotIsAlive, NEW t \in Tx, NEW o \in Object,
         tx' = [tx EXCEPT ![t] = o],
         open' \in BOOLEAN, session' \in Session, done' \subseteq Write,
         \/ /\ slot' = slot /\ o.registered = tx[t].registered
            /\ o.life = tx[t].life \/ ~tx[t].registered
         \/ Unregister(t) /\ ~o.registered
         \/ slot = NoTx /\ slot' = t /\ o.registered /\ o.life = "alive"
  PROVE  TypeOK' /\ SlotIsAlive'
<1>1. tx' \in [Tx -> Object] /\ tx'[t] = o
  BY DEF TypeOK
<1>2. \A u \in Tx \ {t} : tx'[u] = tx[u]
  BY DEF TypeOK
<1>3. slot' \in Tx \cup {NoTx}
  BY DEF TypeOK, Unregister
<1>4. TypeOK'
  BY <1>1, <1>3 DEF TypeOK
<1>5. slot' = t <=> o.registered
  BY SessionAssumption DEF SlotIsAlive, Unregister
<1>6. o.registered => o.life = "alive"
  BY DEF SlotIsAlive, Alive
<1>7. ASSUME NEW u \in Tx \ {t}
      PROVE  slot' = u <=> slot = u
  BY <1>7, SessionAssumption DEF SlotIsAlive, Unregister
<1>8. SlotIsAlive'
  BY <1>1, <1>2, <1>5, <1>6, <1>7 DEF SlotIsAlive, Alive
<1> QED
  BY <1>4, <1>8

-----------------------------------------------------------------------------
(* The calls, one by one. *)

LEMMA ThrowPendingKeeps ==
  ASSUME TypeOK, SlotIsAlive, NEW t \in Tx, ThrowPending(t)
  PROVE  TypeOK' /\ SlotIsAlive'
<1> DEFINE o == [tx[t] EXCEPT !.pending = FALSE]
<1>1. tx[t] \in Object /\ tx' = [tx EXCEPT ![t] = o]
  BY DEF TypeOK, ThrowPending
<1>2. /\ o \in Object
      /\ o.registered = tx[t].registered /\ o.life = tx[t].life
  BY <1>1 DEF Object
<1>3. open' \in BOOLEAN /\ session' \in Session /\ done' \subseteq Write
  BY DEF TypeOK, ThrowPending
<1>4. slot' = slot
  BY DEF ThrowPending
<1> HIDE DEF o
<1> QED
  BY <1>1, <1>2, <1>3, <1>4, ObjectStep

LEMMA UnchangedObjects ==
  ASSUME TypeOK, SlotIsAlive, UNCHANGED <<slot, tx, done>>,
         open' \in BOOLEAN, session' \in Session
  PROVE  TypeOK' /\ SlotIsAlive'
<1>1. TypeOK'
  BY DEF TypeOK
<1>2. SlotIsAlive'
  BY DEF SlotIsAlive, Alive
<1> QED
  BY <1>1, <1>2

LEMMA ConstructKeeps ==
  ASSUME TypeOK, SlotIsAlive, NEW t \in Tx, Construct(t)
  PROVE  TypeOK' /\ SlotIsAlive'
<1> DEFINE o == [tx[t] EXCEPT !.life = "alive", !.root = t, !.registered = TRUE]
<1>1. PICK a \in Answers(BeginCmd) :
         /\ Receive(a)
         /\ \/ a.reply = "ok" /\ tx' = [tx EXCEPT ![t] = o] /\ slot' = t
            \/ a.reply # "ok" /\ UNCHANGED <<tx, slot>>
  BY DEF Construct, TypeOK
<1>2. open' \in BOOLEAN /\ session' \in Session
  BY <1>1, AnswersTyped, ReceiveTyped
<1>3. slot = NoTx /\ done' = done /\ done' \subseteq Write
  BY DEF Construct, TypeOK
<1>4. o \in Object /\ o.registered /\ o.life = "alive"
  <2>1. tx[t] \in Object
    BY DEF TypeOK
  <2> QED
    BY <2>1 DEF Object
<1> HIDE DEF o
<1>5. CASE tx' = [tx EXCEPT ![t] = o] /\ slot' = t
  BY <1>2, <1>3, <1>4, <1>5, ObjectStep
<1>6. CASE UNCHANGED <<tx, slot>>
  BY <1>2, <1>3, <1>6, UnchangedObjects
<1> QED
  BY <1>1, <1>5, <1>6

LEMMA ConstructSubKeeps ==
  ASSUME TypeOK, SlotIsAlive, NEW t \in Tx, NEW parent \in Tx,
         ConstructSub(t, parent)
  PROVE  TypeOK' /\ SlotIsAlive'
<1> DEFINE o == [tx[t] EXCEPT !.life = "alive", !.parent = parent,
                              !.root = tx[parent].root]
<1>1. PICK a \in Answers(LAMBDA s : SavepointCmd(s, t)) :
         /\ Receive(a)
         /\ \/ a.reply = "ok" /\ tx' = [tx EXCEPT ![t] = o]
            \/ a.reply # "ok" /\ UNCHANGED tx
  BY DEF ConstructSub, TypeOK
<1>2. open' \in BOOLEAN /\ session' \in Session
  BY <1>1, AnswersTyped, ReceiveTyped
<1>3. slot' = slot /\ done' = done /\ done' \subseteq Write
  BY DEF ConstructSub, TypeOK
<1>4. /\ o \in Object
      /\ o.registered = tx[t].registered /\ ~tx[t].registered
  <2>1. tx[t] \in Object /\ tx[parent] \in Object
    BY DEF TypeOK
  <2>2. ~tx[t].registered
    BY DEF ConstructSub, SlotIsAlive, Alive
  <2> QED
    BY <2>1, <2>2 DEF Object
<1> HIDE DEF o
<1>5. CASE tx' = [tx EXCEPT ![t] = o]
  BY <1>2, <1>3, <1>4, <1>5, ObjectStep
<1>6. CASE UNCHANGED tx
  BY <1>2, <1>3, <1>6, UnchangedObjects
<1> QED
  BY <1>1, <1>5, <1>6

LEMMA SendWriteKeeps ==
  ASSUME TypeOK, SlotIsAlive, NEW t \in Tx, SendWrite(t)
  PROVE  TypeOK' /\ SlotIsAlive'
<1> DEFINE w == NewWrite(t)
           o == [tx[t] EXCEPT !.writes = @ + 1]
<1>1. w \in Write
  BY NewWriteTyped DEF SendWrite
<1>2. Answers(LAMBDA s : WriteCmd(s, w)) \subseteq Answer
  BY <1>1, ReadyTyped, WriteTyped, OverTyped DEF Answers, TypeOK
<1>3. PICK a \in Answers(LAMBDA s : WriteCmd(s, w)) : Receive(a) /\ Told(w, a)
  BY DEF SendWrite
<1>4. open' \in BOOLEAN /\ session' \in Session /\ done' \subseteq Write
  BY <1>1, <1>2, <1>3, ReceiveTyped, ToldTyped
<1>5. /\ o \in Object
      /\ o.registered = tx[t].registered /\ o.life = tx[t].life
  <2>1. tx[t] \in Object /\ tx[t].writes < MaxWrites
    BY DEF TypeOK, SendWrite
  <2>2. tx[t].writes + 1 \in 0 .. MaxWrites
    BY <2>1, SessionAssumption DEF Object
  <2> QED
    BY <2>1, <2>2 DEF Object
<1>6. tx' = [tx EXCEPT ![t] = o] /\ slot' = slot
  BY DEF SendWrite
<1> HIDE DEF o, w
<1> QED
  BY <1>4, <1>5, <1>6, ObjectStep

LEMMA ExecKeeps ==
  ASSUME TypeOK, SlotIsAlive, NEW t \in Tx, Exec(t)
  PROVE  TypeOK' /\ SlotIsAlive'
  BY ThrowPendingKeeps, SendWriteKeeps DEF Exec

LEMMA ExecParamsKeeps ==
  ASSUME TypeOK, SlotIsAlive, NEW t \in Tx, ExecParams(t)
  PROVE  TypeOK' /\ SlotIsAlive'
  BY SendWriteKeeps DEF ExecParams

LEMMA OpenStreamKeeps ==
  ASSUME TypeOK, SlotIsAlive, NEW t \in Tx, OpenStream(t)
  PROVE  TypeOK' /\ SlotIsAlive'
<1>1. PICK a \in Answers(CopyCmd) :
         Receive(a) /\ tx' = [tx EXCEPT ![t].focus = (a.reply = "ok")]
  BY DEF OpenStream
<1> DEFINE o == [tx[t] EXCEPT !.focus = (a.reply = "ok")]
<1>2. open' \in BOOLEAN /\ session' \in Session
  BY <1>1, AnswersTyped, ReceiveTyped
<1>3. /\ o \in Object
      /\ o.registered = tx[t].registered /\ o.life = tx[t].life
  <2>1. tx[t] \in Object
    BY DEF TypeOK
  <2>2. (a.reply = "ok") \in BOOLEAN
    OBVIOUS
  <2> QED
    BY <2>1, <2>2 DEF Object
<1>4. slot' = slot /\ done' \subseteq Write
  BY DEF OpenStream, TypeOK
<1>5. tx' = [tx EXCEPT ![t] = o]
  BY <1>1
<1> HIDE DEF o
<1> QED
  BY <1>2, <1>3, <1>4, <1>5, ObjectStep

LEMMA CloseStreamKeeps ==
  ASSUME TypeOK, SlotIsAlive, NEW t \in Tx, CloseStream(t)
  PROVE  TypeOK' /\ SlotIsAlive'
<1> DEFINE w == NewWrite(t)
<1>1. PICK a \in Over(open, session, EndCopyCmd(session, w)),
           destructor \in BOOLEAN :
         /\ Receive(a) /\ Told(w, a)
         /\ tx' = [tx EXCEPT ![t].focus = FALSE, ![t].writes = @ + 1,
                             ![t].pending = @ \/ (destructor /\ a.reply # "ok")]
  BY DEF CloseStream
<1> DEFINE pending == tx[t].pending \/ (destructor /\ a.reply # "ok")
           o == [tx[t] EXCEPT !.focus = FALSE, !.writes = @ + 1, !.pending = pending]
<1>2. w \in Write
  BY NewWriteTyped DEF CloseStream
<1>3. Over(open, session, EndCopyCmd(session, w)) \subseteq Answer
  BY <1>2, EndCopyTyped, OverTyped DEF TypeOK
<1>4. open' \in BOOLEAN /\ session' \in Session /\ done' \subseteq Write
  BY <1>1, <1>2, <1>3, ReceiveTyped, ToldTyped
<1>5. /\ o \in Object
      /\ o.registered = tx[t].registered /\ o.life = tx[t].life
  <2>1. tx[t] \in Object /\ tx[t].writes < MaxWrites
    BY DEF TypeOK, CloseStream
  <2>2. tx[t].writes + 1 \in 0 .. MaxWrites
    BY <2>1, SessionAssumption DEF Object
  <2>3. pending \in BOOLEAN
    OBVIOUS
  <2> HIDE DEF pending
  <2> QED
    BY <2>1, <2>2, <2>3 DEF Object
<1>6. tx' = [tx EXCEPT ![t] = o] /\ slot' = slot
  BY <1>1 DEF CloseStream, TypeOK
<1> HIDE DEF o, w, pending
<1> QED
  BY <1>4, <1>5, <1>6, ObjectStep

LEMMA CommitKeeps ==
  ASSUME TypeOK, SlotIsAlive, NEW t \in Tx, Commit(t)
  PROVE  TypeOK' /\ SlotIsAlive'
<1>1. CASE ThrowPending(t)
  BY <1>1, ThrowPendingKeeps
<1>2. CASE ~ThrowPending(t)
  <2>1. PICK a \in DoCommit(t) :
           /\ Receive(a)
           /\ tx' = [tx EXCEPT ![t].status = StatusAfterCommit(t, a.reply),
                               ![t].registered = (@ /\ a.reply # "ok")]
           /\ \/ a.reply = "ok" /\ Unregister(t)
              \/ a.reply # "ok" /\ UNCHANGED slot
    BY <1>2 DEF Commit
  <2> DEFINE registered == tx[t].registered /\ a.reply # "ok"
             o == [tx[t] EXCEPT !.status = StatusAfterCommit(t, a.reply),
                                !.registered = registered]
  <2>2. open' \in BOOLEAN /\ session' \in Session /\ done' \subseteq Write
    <3>1. done' \subseteq Write
      BY <1>2 DEF Commit, TypeOK
    <3> QED
      BY <2>1, <3>1, AnswersTyped, ReceiveTyped
  <2>3. /\ o \in Object /\ o.life = tx[t].life /\ o.registered = registered
    <3>1. tx[t] \in Object
      BY DEF TypeOK
    <3>2. StatusAfterCommit(t, a.reply) \in Status
      BY DEF StatusAfterCommit, Status
    <3>3. registered \in BOOLEAN
      OBVIOUS
    <3> HIDE DEF registered
    <3> QED
      BY <3>1, <3>2, <3>3 DEF Object
  <2>4. tx' = [tx EXCEPT ![t] = o]
    BY <2>1 DEF TypeOK
  <2>5. \/ Unregister(t) /\ ~registered
        \/ slot' = slot /\ registered = tx[t].registered
    <3>1. tx[t].registered \in BOOLEAN
      BY DEF TypeOK, Object
    <3> QED
      BY <2>1, <3>1
  <2> HIDE DEF o, registered
  <2> QED
    BY <2>2, <2>3, <2>4, <2>5, ObjectStep
<1> QED
  BY <1>1, <1>2

LEMMA AbortKeeps ==
  ASSUME TypeOK, SlotIsAlive, NEW t \in Tx, Abort(t)
  PROVE  TypeOK' /\ SlotIsAlive'
<1> DEFINE o == [tx[t] EXCEPT !.status = "aborted", !.pending = FALSE,
                              !.registered = FALSE]
<1>1. open' \in BOOLEAN /\ session' \in Session
  <2>1. CASE UNCHANGED <<open, session>>
    BY <2>1 DEF TypeOK
  <2>2. CASE \E a \in DoAbort(t) : Receive(a)
    BY <2>2, AnswersTyped, ReceiveTyped
  <2> QED
    BY <2>1, <2>2 DEF Abort
<1>2. /\ tx' = [tx EXCEPT ![t] = o] /\ Unregister(t)
      /\ done' \subseteq Write
  BY DEF Abort, TypeOK
<1>3. o \in Object /\ ~o.registered
  <2>1. tx[t] \in Object
    BY DEF TypeOK
  <2> QED
    BY <2>1 DEF Object, Status
<1> HIDE DEF o
<1> QED
  BY <1>1, <1>2, <1>3, ObjectStep

LEMMA DestroyKeeps ==
  ASSUME TypeOK, SlotIsAlive, NEW t \in Tx, Destroy(t)
  PROVE  TypeOK' /\ SlotIsAlive'
<1> DEFINE o == [tx[t] EXCEPT !.life = "gone", !.pending = FALSE,
                              !.registered = FALSE,
                              !.status = IF @ = "active" THEN "aborted" ELSE @]
<1>1. open' \in BOOLEAN /\ session' \in Session
  <2>1. CASE UNCHANGED <<open, session>>
    BY <2>1 DEF TypeOK
  <2>2. CASE \E a \in DoAbort(t) : Receive(a)
    BY <2>2, AnswersTyped, ReceiveTyped
  <2> QED
    BY <2>1, <2>2 DEF Destroy
<1>2. tx' = [tx EXCEPT ![t] = o]
  BY DEF Destroy, StillRegistered, TypeOK
<1>3. Unregister(t) /\ done' \subseteq Write
  BY DEF Destroy, StillRegistered, TypeOK
<1>4. o \in Object /\ ~o.registered
  <2>1. tx[t] \in Object
    BY DEF TypeOK
  <2> QED
    BY <2>1 DEF Object, Status
<1> HIDE DEF o
<1> QED
  BY <1>1, <1>2, <1>3, <1>4, ObjectStep

LEMMA CloseConnectionKeeps ==
  ASSUME TypeOK, SlotIsAlive, CloseConnection
  PROVE  TypeOK' /\ SlotIsAlive'
<1>1. open' \in BOOLEAN /\ session' \in Session
  BY RolledBackTyped DEF CloseConnection, TypeOK
<1>2. UNCHANGED <<slot, tx, done>>
  BY DEF CloseConnection
<1> QED
  BY <1>1, <1>2, UnchangedObjects

-----------------------------------------------------------------------------
LEMMA InitHolds ==
  ASSUME Init
  PROVE  TypeOK /\ SlotIsAlive
<1>1. Absent \in Object
  BY SessionAssumption DEF Absent, Object, Status
<1>2. NewSession \in Session
  <2>1. << >> \in Seq(Level)
    OBVIOUS
  <2> QED
    BY <2>1 DEF NewSession, Session
<1>3. TypeOK
  BY <1>1, <1>2 DEF Init, TypeOK
<1>4. SlotIsAlive
  BY SessionAssumption DEF Init, SlotIsAlive, Absent
<1> QED
  BY <1>3, <1>4

LEMMA StepKeeps ==
  ASSUME TypeOK, SlotIsAlive, [Next]_vars
  PROVE  TypeOK' /\ SlotIsAlive'
<1>1. CASE CloseConnection
  BY <1>1, CloseConnectionKeeps
<1>2. ASSUME NEW t \in Tx,
             \/ Construct(t)
             \/ \E parent \in Tx : ConstructSub(t, parent)
             \/ Exec(t) \/ ExecParams(t)
             \/ OpenStream(t) \/ CloseStream(t)
             \/ Commit(t) \/ Abort(t) \/ Destroy(t)
      PROVE  TypeOK' /\ SlotIsAlive'
  BY <1>2, ConstructKeeps, ConstructSubKeeps, ExecKeeps, ExecParamsKeeps,
     OpenStreamKeeps, CloseStreamKeeps, CommitKeeps, AbortKeeps, DestroyKeeps
<1>3. CASE UNCHANGED vars
  <2>1. UNCHANGED <<slot, tx, done>> /\ open' \in BOOLEAN /\ session' \in Session
    BY <1>3 DEF vars, TypeOK
  <2> QED
    BY <2>1, UnchangedObjects
<1> QED
  BY <1>1, <1>2, <1>3 DEF Next

(* The variables of the transaction objects keep their types, however the    *)
(* calls follow each other, the server answers and the connection breaks.    *)
THEOREM TypeCorrect == Spec => []TypeOK
<1>1. Init => TypeOK /\ SlotIsAlive
  BY InitHolds
<1>2. TypeOK /\ SlotIsAlive /\ [Next]_vars => TypeOK' /\ SlotIsAlive'
  BY StepKeeps
<1> QED
  BY <1>1, <1>2, PTL DEF Spec

(* connection::m_trans never dangles: whatever becomes of a transaction, and *)
(* whether or not the program nests things as documented, the connection     *)
(* points to nothing or to a living object that is registered.               *)
THEOREM SlotAlwaysAlive == Spec => []SlotIsAlive
<1>1. Init => TypeOK /\ SlotIsAlive
  BY InitHolds
<1>2. TypeOK /\ SlotIsAlive /\ [Next]_vars => TypeOK' /\ SlotIsAlive'
  BY StepKeeps
<1> QED
  BY <1>1, <1>2, PTL DEF Spec

-----------------------------------------------------------------------------
(***************************************************************************)
(* The order of transactions, under the library's nesting rules.           *)
(*                                                                         *)
(* The inductive invariant has the objects that go on nested in a chain c, *)
(* the outermost first, and in the block at the server the levels p that   *)
(* belong to them, with everything that each wrote between his level and   *)
(* the next.                                                               *)
(***************************************************************************)
Act(t) == Alive(t) /\ tx[t].status = "active"

(* What objects know of each other. *)
KinOf(t) ==
  /\ tx[t].life = "none" => tx[t] = Absent
  /\ tx[t].life = "gone" => tx[t].status # "active"
  /\ tx[t].life # "none" =>
       /\ tx[t].root \in Tx
       /\ tx[tx[t].root].life # "none" /\ ~IsSub(tx[t].root)
       /\ ~IsSub(t) => tx[t].root = t
  /\ IsSub(t) => ~tx[t].registered /\ tx[t].status # "in_doubt"

Kin == \A t \in Tx : KinOf(t)

(* Only the innermost of the active objects is used. *)
Nest(c) ==
  /\ \A i, j \in DOMAIN c : c[i] = c[j] => i = j
  /\ \A t \in Tx : Act(t) <=> \E i \in DOMAIN c : c[i] = t
  /\ c # << >> => c[1] = slot
  /\ \A i \in DOMAIN c : /\ tx[c[i]].root = slot
                         /\ i > 1 => tx[c[i]].parent = c[i - 1]
  /\ \A t \in Tx : tx[t].focus \/ tx[t].pending => c # << >> /\ t = c[Len(c)]

(* There is a block while a transaction is active and connected, and it is   *)
(* not open while there is none.  Savepoints differ.                         *)
Block(c) ==
  /\ ~open => session.block = "none"
  /\ session.block = "none" <=> session.levels = << >>
  /\ open /\ c # << >> => session.block # "none"
  /\ c = << >> => session.block # "open"
  /\ \A t \in Tx : /\ tx[t].focus => session.copy \/ session.block # "open"
                   /\ tx[t].pending => session.block # "open"
  /\ \A i, j \in DOMAIN session.levels :
       session.levels[i].savepoint = session.levels[j].savepoint => i = j
  /\ \A i \in DOMAIN session.levels :
       session.levels[i].savepoint # NoTx =>
         tx[session.levels[i].savepoint].life # "none"

(* The levels of the active objects. *)
Places(c, p) ==
  /\ Len(p) = Len(c) /\ p[1] = 1
  /\ \A i \in DOMAIN p : p[i] \in DOMAIN session.levels
  /\ \A i, j \in DOMAIN p : i < j => p[i] < p[j]
  /\ \A i \in DOMAIN p : i > 1 => session.levels[p[i]].savepoint = c[i]

(* Where in the block a write is.  The writes of an aborted subtransaction   *)
(* are above every active level of a block that failed.                      *)
Placed(c, p, j, w) ==
  /\ tx[w.by].root = slot
  /\ \A i \in DOMAIN c : w.by = c[i] => p[i] <= j /\ (i < Len(c) => j < p[i + 1])
  /\ IsSub(w.by) /\ tx[w.by].status = "aborted" =>
       session.block = "failed" /\ \A i \in DOMAIN c : p[i] <= j

(* What the program was told of an object's writes. *)
Series(t) == {w \in done : w.by = t}

(* What a committed subtransaction wrote is in one level, and is there as a  *)
(* whole or not at all; what an active object wrote is there.                *)
Levels(c, p) ==
  /\ Places(c, p)
  /\ \A j \in DOMAIN session.levels : \A w \in session.levels[j].writes :
       ~w.late => Placed(c, p, j, w)
  /\ \A i, j \in DOMAIN session.levels :
       \A v \in session.levels[i].writes, w \in session.levels[j].writes :
         ~v.late /\ ~w.late /\ v.by = w.by /\ tx[v.by].status = "committed" => i = j
  /\ \A i \in DOMAIN c : Series(c[i]) \subseteq InBlock(session)
  /\ \A t \in Tx : tx[t].root = slot /\ tx[t].status = "committed" =>
       \/ Series(t) \subseteq InBlock(session)
       \/ Series(t) \cap InBlock(session) = {}

Nested(c, p) ==
  Nest(c) /\ Block(c) /\ (c # << >> /\ session.block # "none" => Levels(c, p))

(* The history is of objects there are or were. *)
History ==
  /\ \A w \in done : ~w.late
  /\ \A w \in done \cup session.durable : ~w.late => tx[w.by].life # "none"

Past == Kin /\ History /\ DurableWasCommitted /\ AllOrNothing

OrderInv ==
  /\ TypeOK /\ SlotIsAlive /\ Past
  /\ \E c \in Seq(Tx), p \in Seq(Nat) : Nested(c, p)

-----------------------------------------------------------------------------
(* What becomes of a session, field by field. *)
LEMMA SessionIs ==
  ASSUME NEW s \in Session
  PROVE  /\ s.levels \in Seq(Level) /\ s.block \in {"none", "open", "failed"}
         /\ s.copy \in BOOLEAN /\ s.durable \subseteq Write
         /\ \A j \in DOMAIN s.levels : s.levels[j].writes \subseteq Write
         /\ \A j \in DOMAIN s.levels : s.levels[j].savepoint \in Tx \cup {NoTx}
<1>1. /\ s.levels \in Seq(Level) /\ s.block \in {"none", "open", "failed"}
      /\ s.copy \in BOOLEAN /\ s.durable \subseteq Write
  BY DEF Session
<1>2. \A j \in DOMAIN s.levels : s.levels[j] \in Level
  BY <1>1
<1>3. \A j \in DOMAIN s.levels : /\ s.levels[j].writes \subseteq Write
                                 /\ s.levels[j].savepoint \in Tx \cup {NoTx}
  BY <1>2 DEF Level
<1> QED
  BY <1>1, <1>3

LEMMA RolledBackIs ==
  ASSUME NEW s \in Session
  PROVE  /\ RolledBack(s).block = "none" /\ RolledBack(s).levels = << >>
         /\ RolledBack(s).durable = s.durable
  BY DEF RolledBack, Session

LEMMA CommittedIs ==
  ASSUME NEW s \in Session
  PROVE  /\ Committed(s).block = "none" /\ Committed(s).levels = << >>
         /\ Committed(s).durable = s.durable \cup InBlock(s)
<1>1. RolledBack(s) \in Session /\ RolledBack(s).durable = s.durable
  BY RolledBackTyped, RolledBackIs
<1>2. [RolledBack(s) EXCEPT !.durable = @ \cup InBlock(s)].durable =
        s.durable \cup InBlock(s)
  BY <1>1 DEF Session
<1> QED
  BY <1>1, <1>2, RolledBackIs DEF Committed, Session

LEMMA FailedIs ==
  ASSUME NEW s \in Session
  PROVE  /\ Failed(s).levels = s.levels /\ Failed(s).durable = s.durable
         /\ Failed(s).block = IF s.block = "none" THEN "none" ELSE "failed"
  BY DEF Failed, Session

LEMMA ReadyIs ==
  ASSUME NEW s \in Session
  PROVE  /\ Ready(s).levels = s.levels /\ Ready(s).durable = s.durable
         /\ Ready(s).block = "open" => s.block = "open" /\ ~s.copy
         /\ Ready(s).block = "none" <=> s.block = "none"
         /\ InBlock(Ready(s)) = InBlock(s)
<1>1. /\ Ready(s).levels = s.levels /\ Ready(s).durable = s.durable
      /\ Ready(s).block = "open" => s.block = "open" /\ ~s.copy
      /\ Ready(s).block = "none" <=> s.block = "none"
  BY FailedIs DEF Ready
<1> QED
  BY <1>1 DEF InBlock

LEMMA WrittenIs ==
  ASSUME NEW s \in Session, NEW w \in Write
  PROVE  /\ Written(s, w).block = s.block
         /\ s.block = "none" => /\ Written(s, w).levels = s.levels
                                /\ Written(s, w).durable = s.durable \cup {w}
         /\ s.block # "none" =>
              /\ Written(s, w).durable = s.durable
              /\ DOMAIN Written(s, w).levels = DOMAIN s.levels
              /\ \A j \in DOMAIN s.levels :
                   /\ Written(s, w).levels[j].savepoint = s.levels[j].savepoint
                   /\ Written(s, w).levels[j].writes =
                        IF j = Len(s.levels) THEN s.levels[j].writes \cup {w}
                        ELSE s.levels[j].writes
<1>1. CASE s.block = "none"
  BY <1>1 DEF Written, Session
<1>2. CASE s.block # "none"
  <2> DEFINE lv == [s.levels EXCEPT ![Len(s.levels)].writes = @ \cup {w}]
  <2>1. Written(s, w) = [s EXCEPT !.copy = FALSE, !.levels = lv]
    BY <1>2 DEF Written
  <2>2. /\ DOMAIN lv = DOMAIN s.levels
        /\ \A j \in DOMAIN s.levels :
             /\ lv[j].savepoint = s.levels[j].savepoint
             /\ lv[j].writes = IF j = Len(s.levels) THEN s.levels[j].writes \cup {w}
                               ELSE s.levels[j].writes
    <3>1. s.levels \in Seq(Level) /\ \A j \in DOMAIN s.levels : s.levels[j] \in Level
      BY SessionIs
    <3> QED
      BY <3>1 DEF Level
  <2> HIDE DEF lv
  <2>3. /\ Written(s, w).levels = lv /\ Written(s, w).block = s.block
        /\ Written(s, w).durable = s.durable
    BY <2>1 DEF Session
  <2> QED
    BY <1>2, <2>2, <2>3
<1> QED
  BY <1>1, <1>2

LEMMA ReleasedIs ==
  ASSUME NEW s \in Session, NEW t \in Tx, NEW i \in 2 .. Len(s.levels), LevelOf(s, t) = i
  PROVE  /\ Released(s, t).block = s.block /\ Released(s, t).durable = s.durable
         /\ Released(s, t).levels \in Seq(Level) /\ Len(Released(s, t).levels) = i - 1
         /\ \A j \in 1 .. i - 1 :
              Released(s, t).levels[j].savepoint = s.levels[j].savepoint
         /\ \A j \in 1 .. i - 2 : Released(s, t).levels[j].writes = s.levels[j].writes
         /\ \A w : w \in Released(s, t).levels[i - 1].writes <=>
                     \E j \in i - 1 .. Len(s.levels) : w \in s.levels[j].writes
<1> DEFINE inner == UNION {s.levels[j].writes : j \in i .. Len(s.levels)}
           outer == SubSeq(s.levels, 1, i - 1)
           last == [outer[i - 1] EXCEPT !.writes = @ \cup inner]
           lv == [outer EXCEPT ![i - 1] = last]
<1>1. Released(s, t) = [s EXCEPT !.levels = lv]
  BY DEF Released
<1>2. s.levels \in Seq(Level) /\ \A j \in DOMAIN s.levels : s.levels[j] \in Level
  BY SessionIs
<1>3. /\ outer \in Seq(Level) /\ Len(outer) = i - 1 /\ i - 1 \in DOMAIN outer
      /\ \A j \in 1 .. i - 1 : outer[j] = s.levels[j] /\ outer[j] \in Level
  BY <1>2
<1>4. inner \subseteq Write
  BY SessionIs
<1>5. \A w : w \in inner <=> \E j \in i .. Len(s.levels) : w \in s.levels[j].writes
  OBVIOUS
<1> HIDE DEF outer, inner
<1>6. /\ last \in Level /\ last.savepoint = s.levels[i - 1].savepoint
      /\ last.writes = s.levels[i - 1].writes \cup inner
  <2>1. outer[i - 1] \in Level /\ outer[i - 1] = s.levels[i - 1]
    BY <1>3
  <2> QED
    BY <1>4, <2>1 DEF Level
<1> HIDE DEF last
<1>7. /\ lv \in Seq(Level) /\ Len(lv) = i - 1 /\ lv[i - 1] = last
      /\ \A j \in 1 .. i - 2 : lv[j] = s.levels[j]
  BY <1>3, <1>6
<1> HIDE DEF lv
<1>8. /\ Released(s, t).levels = lv /\ Released(s, t).block = s.block
      /\ Released(s, t).durable = s.durable
  BY <1>1 DEF Session
<1>9. \A j \in 1 .. i - 1 : lv[j].savepoint = s.levels[j].savepoint
  BY <1>6, <1>7
<1>10. ASSUME NEW w
       PROVE  w \in lv[i - 1].writes <=>
                \E j \in i - 1 .. Len(s.levels) : w \in s.levels[j].writes
  <2>1. w \in lv[i - 1].writes <=> w \in s.levels[i - 1].writes \/ w \in inner
    BY <1>6, <1>7
  <2>2. (\E j \in i - 1 .. Len(s.levels) : w \in s.levels[j].writes) <=>
          \/ w \in s.levels[i - 1].writes
          \/ \E j \in i .. Len(s.levels) : w \in s.levels[j].writes
    BY <1>2
  <2> QED
    BY <1>5, <2>1, <2>2
<1> QED
  BY <1>7, <1>8, <1>9, <1>10

LEMMA RolledBackToIs ==
  ASSUME NEW s \in Session, NEW t \in Tx, NEW i \in 1 .. Len(s.levels), LevelOf(s, t) = i,
         NEW r, r = RolledBackTo(s, t)
  PROVE  /\ r.block = "open" /\ r.durable = s.durable
         /\ r.levels \in Seq(Level) /\ Len(r.levels) = i
         /\ r.levels[i].savepoint = t /\ r.levels[i].writes = {}
         /\ \A j \in 1 .. i - 1 : r.levels[j] = s.levels[j]
<1> DEFINE level == [savepoint |-> t, writes |-> {}]
           lv == Append(SubSeq(s.levels, 1, i - 1), level)
<1>1. RolledBackTo(s, t) = [s EXCEPT !.block = "open", !.levels = lv]
  BY DEF RolledBackTo
<1>2. s.levels \in Seq(Level) /\ level \in Level
  BY SessionIs DEF Level
<1>3. /\ lv \in Seq(Level) /\ Len(lv) = i /\ lv[i] = level
      /\ \A j \in 1 .. i - 1 : lv[j] = s.levels[j]
  <2> HIDE DEF level
  <2>1. /\ SubSeq(s.levels, 1, i - 1) \in Seq(Level)
        /\ Len(SubSeq(s.levels, 1, i - 1)) = i - 1
        /\ \A j \in 1 .. i - 1 : SubSeq(s.levels, 1, i - 1)[j] = s.levels[j]
    BY <1>2
  <2> QED
    BY <1>2, <2>1
<1>4. level.savepoint = t /\ level.writes = {}
  OBVIOUS
<1> HIDE DEF lv, level
<1>5. /\ RolledBackTo(s, t).levels = lv /\ RolledBackTo(s, t).block = "open"
      /\ RolledBackTo(s, t).durable = s.durable
  BY <1>1 DEF Session
<1> QED
  BY <1>3, <1>4, <1>5

-----------------------------------------------------------------------------
(* What a call can hear of the server. *)

(* The connection broke, and the server rolled back what it had left. *)
Dropped(d) ==
  /\ ~open' /\ session'.block = "none" /\ session'.levels = << >>
  /\ session'.durable = d

(* An answer over a connection that holds. *)
Heard(s) == open /\ open' /\ session' = s

LEMMA Hear ==
  ASSUME TypeOK, NEW as \in SUBSET Answer, \A b \in as : b.reply # "broken",
         NEW a \in Over(open, session, as), Receive(a)
  PROVE  \/ a \in as /\ Heard(a.session)
         \/ /\ a.reply = "broken"
            /\ \/ Dropped(session.durable)
               \/ open /\ \E b \in as : Dropped(b.session.durable)
<1>1. session \in Session /\ open \in BOOLEAN
  BY DEF TypeOK
<1>2. ASSUME NEW r \in Session, a = Lost(r)
      PROVE  a.reply = "broken" /\ Dropped(r.durable)
  <2>1. a.reply = "broken" /\ a.session = RolledBack(r)
    BY <1>2 DEF Lost
  <2> QED
    BY <1>2, <2>1, RolledBackIs DEF Receive, Dropped
<1>3. CASE a \in as /\ open
  <2>1. open' /\ session' = a.session
    BY <1>3 DEF Receive
  <2> QED
    BY <1>3, <2>1 DEF Heard
<1>4. CASE a = Lost(session)
  BY <1>1, <1>2, <1>4
<1>5. CASE open /\ \E b \in as : a = Lost(b.session)
  <2>1. PICK b \in as : a = Lost(b.session)
    BY <1>5
  <2>2. b.session \in Session
    BY DEF Answer
  <2> QED
    BY <1>2, <1>5, <2>1, <2>2
<1> QED
  BY <1>3, <1>4, <1>5 DEF Over

LEMMA HearBegin ==
  ASSUME TypeOK, NEW a \in Answers(BeginCmd), Receive(a)
  PROVE  \/ a.reply = "broken" /\ Dropped(session.durable)
         \/ a.reply = "error" /\ Heard(Ready(session))
         \/ a.reply = "ok" /\ session.block = "open" /\ Heard(Ready(session))
         \/ /\ a.reply = "ok" /\ open /\ open' /\ session.block = "none"
            /\ session'.block = "open" /\ session'.durable = session.durable
            /\ session'.levels = <<[savepoint |-> NoTx, writes |-> {}]>>
<1> DEFINE s == Ready(session)
           begun == [s EXCEPT !.block = "open",
                              !.levels = <<[savepoint |-> NoTx, writes |-> {}]>>]
<1>1. s \in Session /\ s.durable = session.durable
  BY ReadyTyped, ReadyIs DEF TypeOK
<1>2. /\ s.block = "open" => session.block = "open"
      /\ s.block = "none" => session.block = "none"
      /\ s.block \in {"none", "open", "failed"}
  BY <1>1, ReadyIs, SessionIs DEF TypeOK
<1>3. /\ BeginCmd(s) \subseteq Answer /\ a \in Over(open, session, BeginCmd(s))
  BY <1>1, BeginTyped DEF Answers
<1> HIDE DEF s
<1>4. /\ begun.block = "open" /\ begun.durable = s.durable
      /\ begun.levels = <<[savepoint |-> NoTx, writes |-> {}]>>
  BY <1>1 DEF Session
<1> HIDE DEF begun
<1>5. \/ s.block = "none" /\ BeginCmd(s) = {Ok(begun)}
      \/ s.block = "open" /\ BeginCmd(s) = {Ok(s)}
      \/ s.block = "failed" /\ BeginCmd(s) = {Error(s)}
  <2>1. CASE s.block = "none"
    BY <2>1 DEF BeginCmd, begun
  <2>2. CASE s.block = "open"
    BY <2>2 DEF BeginCmd
  <2>3. CASE s.block = "failed"
    BY <2>3 DEF BeginCmd
  <2> QED
    BY <1>2, <2>1, <2>2, <2>3
<1>6. \A b \in BeginCmd(s) : b.reply # "broken" /\ b.session.durable = session.durable
  BY <1>1, <1>4, <1>5 DEF Ok, Error
<1>7. \/ a \in BeginCmd(s) /\ Heard(a.session)
      \/ a.reply = "broken" /\ Dropped(session.durable)
  BY <1>3, <1>6, Hear
<1>8. ASSUME a \in BeginCmd(s), Heard(a.session)
      PROVE  \/ a.reply = "error" /\ Heard(s)
             \/ a.reply = "ok" /\ session.block = "open" /\ Heard(s)
             \/ /\ a.reply = "ok" /\ open /\ open' /\ session.block = "none"
                /\ session'.block = "open" /\ session'.durable = session.durable
                /\ session'.levels = <<[savepoint |-> NoTx, writes |-> {}]>>
  BY <1>1, <1>2, <1>4, <1>5, <1>8 DEF Ok, Error, Heard
<1> QED
  BY <1>7, <1>8 DEF s

LEMMA HearSavepoint ==
  ASSUME TypeOK, NEW t \in Tx, NEW a \in Answers(LAMBDA s : SavepointCmd(s, t)), Receive(a)
  PROVE  \/ a.reply = "broken" /\ Dropped(session.durable)
         \/ a.reply = "error" /\ Heard(Failed(Ready(session)))
         \/ /\ a.reply = "ok" /\ open /\ open' /\ Ready(session).block = "open"
            /\ session'.block = "open" /\ session'.durable = session.durable
            /\ session'.levels = Append(session.levels, [savepoint |-> t, writes |-> {}])
<1> DEFINE s == Ready(session)
           saved == [s EXCEPT !.levels = Append(@, [savepoint |-> t, writes |-> {}])]
<1>1. s \in Session /\ s.durable = session.durable /\ s.levels = session.levels
  BY ReadyTyped, ReadyIs DEF TypeOK
<1>2. SavepointCmd(s, t) \subseteq Answer /\ a \in Over(open, session, SavepointCmd(s, t))
  BY <1>1, SavepointTyped DEF Answers
<1> HIDE DEF s
<1>3. /\ saved.block = s.block /\ saved.durable = s.durable
      /\ saved.levels = Append(s.levels, [savepoint |-> t, writes |-> {}])
  BY <1>1 DEF Session
<1> HIDE DEF saved
<1>4. \/ s.block = "open" /\ SavepointCmd(s, t) = {Ok(saved)}
      \/ SavepointCmd(s, t) = {Error(Failed(s))}
  BY DEF SavepointCmd, saved
<1>5. \A b \in SavepointCmd(s, t) :
        b.reply # "broken" /\ b.session.durable = session.durable
  BY <1>1, <1>3, <1>4, FailedIs DEF Ok, Error
<1>6. \/ a \in SavepointCmd(s, t) /\ Heard(a.session)
      \/ a.reply = "broken" /\ Dropped(session.durable)
  BY <1>2, <1>5, Hear
<1>7. ASSUME a \in SavepointCmd(s, t), Heard(a.session)
      PROVE  \/ a.reply = "error" /\ Heard(Failed(s))
             \/ /\ a.reply = "ok" /\ open /\ open' /\ s.block = "open"
                /\ session'.block = "open" /\ session'.durable = session.durable
                /\ session'.levels = Append(session.levels, [savepoint |-> t, writes |-> {}])
  BY <1>1, <1>3, <1>4, <1>7 DEF Ok, Error, Heard
<1> QED
  BY <1>6, <1>7 DEF s

LEMMA HearWrite ==
  ASSUME TypeOK, NEW w \in Write, NEW a \in Answers(LAMBDA s : WriteCmd(s, w)), Receive(a)
  PROVE  \/ a.reply = "broken" /\ Dropped(session.durable)
         \/ /\ a.reply = "broken" /\ open /\ session.block = "none"
            /\ Dropped(session.durable \cup {w})
         \/ a.reply = "error" /\ Heard(Failed(Ready(session)))
         \/ /\ a.reply = "ok" /\ Heard(Written(Ready(session), w))
            /\ Ready(session).block # "failed"
<1> DEFINE s == Ready(session)
<1>1. s \in Session /\ s.durable = session.durable
  BY ReadyTyped, ReadyIs DEF TypeOK
<1>2. s.block = "none" <=> session.block = "none"
  BY ReadyIs DEF TypeOK
<1>3. WriteCmd(s, w) \subseteq Answer /\ a \in Over(open, session, WriteCmd(s, w))
  BY <1>1, WriteTyped DEF Answers
<1> HIDE DEF s
<1>4. \A b \in WriteCmd(s, w) :
        \/ b = Error(Failed(s))
        \/ b = Ok(Written(s, w)) /\ s.block # "failed"
  BY DEF WriteCmd
<1>5. \A b \in WriteCmd(s, w) :
        /\ b.reply # "broken"
        /\ \/ b.session.durable = session.durable
           \/ s.block = "none" /\ b.session.durable = session.durable \cup {w}
  BY <1>1, <1>4, FailedIs, WrittenIs DEF Ok, Error
<1>6. \/ a \in WriteCmd(s, w) /\ Heard(a.session)
      \/ /\ a.reply = "broken"
         /\ \/ Dropped(session.durable)
            \/ open /\ \E b \in WriteCmd(s, w) : Dropped(b.session.durable)
  BY <1>3, <1>5, Hear
<1>7. ASSUME a \in WriteCmd(s, w), Heard(a.session)
      PROVE  \/ a.reply = "error" /\ Heard(Failed(s))
             \/ a.reply = "ok" /\ Heard(Written(s, w)) /\ s.block # "failed"
  BY <1>4, <1>7 DEF Ok, Error
<1>8. ASSUME NEW b \in WriteCmd(s, w), Dropped(b.session.durable)
      PROVE  \/ Dropped(session.durable)
             \/ session.block = "none" /\ Dropped(session.durable \cup {w})
  BY <1>2, <1>5, <1>8
<1> QED
  BY <1>6, <1>7, <1>8 DEF s

LEMMA HearCopy ==
  ASSUME TypeOK, NEW a \in Answers(CopyCmd), Receive(a)
  PROVE  \/ a.reply = "broken" /\ Dropped(session.durable)
         \/ a.reply = "error" /\ Heard(Failed(Ready(session)))
         \/ /\ a.reply = "ok" /\ open /\ open' /\ session'.copy
            /\ session'.block = Ready(session).block
            /\ session'.levels = session.levels
            /\ session'.durable = session.durable
<1> DEFINE s == Ready(session)
           copying == [s EXCEPT !.copy = TRUE]
<1>1. s \in Session /\ s.durable = session.durable /\ s.levels = session.levels
  BY ReadyTyped, ReadyIs DEF TypeOK
<1>2. CopyCmd(s) \subseteq Answer /\ a \in Over(open, session, CopyCmd(s))
  BY <1>1, CopyTyped DEF Answers
<1> HIDE DEF s
<1>3. \A b \in CopyCmd(s) : b = Error(Failed(s)) \/ b = Ok(copying)
  BY DEF CopyCmd
<1>4. /\ copying.copy /\ copying.block = s.block
      /\ copying.levels = s.levels /\ copying.durable = s.durable
  BY <1>1 DEF Session
<1> HIDE DEF copying
<1>5. \A b \in CopyCmd(s) : b.reply # "broken" /\ b.session.durable = session.durable
  BY <1>1, <1>3, <1>4, FailedIs DEF Ok, Error
<1>6. \/ a \in CopyCmd(s) /\ Heard(a.session)
      \/ a.reply = "broken" /\ Dropped(session.durable)
  BY <1>2, <1>5, Hear
<1>7. ASSUME a \in CopyCmd(s), Heard(a.session)
      PROVE  \/ a.reply = "error" /\ Heard(Failed(s))
             \/ a.reply = "ok" /\ Heard(copying)
  BY <1>3, <1>7 DEF Ok, Error
<1>8. ASSUME Heard(copying)
      PROVE  /\ open /\ open' /\ session'.copy /\ session'.block = s.block
             /\ session'.levels = session.levels
             /\ session'.durable = session.durable
  BY <1>1, <1>4, <1>8 DEF Heard
<1> QED
  BY <1>6, <1>7, <1>8 DEF s

LEMMA HearEndCopy ==
  ASSUME TypeOK, NEW w \in Write,
         NEW a \in Over(open, session, EndCopyCmd(session, w)), Receive(a)
  PROVE  \/ a.reply = "broken" /\ Dropped(session.durable)
         \/ /\ a.reply = "broken" /\ open /\ session.block = "none"
            /\ Dropped(session.durable \cup {w})
         \/ a.reply = "error" /\ session.copy /\ Heard(Failed(session))
         \/ a.reply = "error" /\ ~session.copy /\ Heard(session)
         \/ a.reply = "ok" /\ session.copy /\ Heard(Written(session, w))
<1>1. session \in Session
  BY DEF TypeOK
<1>2. EndCopyCmd(session, w) \subseteq Answer
  BY <1>1, EndCopyTyped
<1>3. \A b \in EndCopyCmd(session, w) :
        \/ b = Error(Failed(session)) /\ session.copy
        \/ b = Error(session) /\ ~session.copy
        \/ b = Ok(Written(session, w)) /\ session.copy
  BY DEF EndCopyCmd
<1>4. \A b \in EndCopyCmd(session, w) :
        /\ b.reply # "broken"
        /\ \/ b.session.durable = session.durable
           \/ session.block = "none" /\ b.session.durable = session.durable \cup {w}
  BY <1>1, <1>3, FailedIs, WrittenIs DEF Ok, Error
<1>5. \/ a \in EndCopyCmd(session, w) /\ Heard(a.session)
      \/ /\ a.reply = "broken"
         /\ \/ Dropped(session.durable)
            \/ open /\ \E b \in EndCopyCmd(session, w) : Dropped(b.session.durable)
  BY <1>2, <1>4, Hear
<1>6. ASSUME a \in EndCopyCmd(session, w), Heard(a.session)
      PROVE  \/ a.reply = "error" /\ session.copy /\ Heard(Failed(session))
             \/ a.reply = "error" /\ ~session.copy /\ Heard(session)
             \/ a.reply = "ok" /\ session.copy /\ Heard(Written(session, w))
  BY <1>3, <1>6 DEF Ok, Error
<1>7. ASSUME NEW b \in EndCopyCmd(session, w), Dropped(b.session.durable)
      PROVE  \/ Dropped(session.durable)
             \/ session.block = "none" /\ Dropped(session.durable \cup {w})
  BY <1>4, <1>7
<1> QED
  BY <1>5, <1>6, <1>7

(* The end of a transaction that is no subtransaction. *)
LEMMA HearCommit ==
  ASSUME TypeOK, session.block = "none" => session.levels = << >>,
         NEW t \in Tx, ~IsSub(t), NEW a \in DoCommit(t), Receive(a)
  PROVE  /\ session'.block = "none" /\ session'.levels = << >>
         /\ \/ session'.durable = session.durable
            \/ /\ session.block = "open" /\ a.reply \in {"ok", "broken"}
               /\ session'.durable = session.durable \cup InBlock(session)
<1> DEFINE s == Ready(session)
           More(d, r) == /\ session.block = "open" /\ r = "ok"
                         /\ d = session.durable \cup InBlock(session)
<1>1. s \in Session /\ session \in Session
  BY ReadyTyped DEF TypeOK
<1>2. s.durable = session.durable /\ s.levels = session.levels
  BY <1>1, ReadyIs
<1>3. /\ InBlock(s) = InBlock(session)
      /\ s.block = "open" => session.block = "open"
      /\ s.block = "none" => session.block = "none"
  BY <1>1, ReadyIs
<1>4. s.block \in {"none", "open", "failed"}
  BY <1>1, SessionIs
<1>5. CommitCmd(s) \subseteq Answer /\ a \in Over(open, session, CommitCmd(s))
  BY <1>1, CommitTyped DEF DoCommit, Answers
<1> HIDE DEF s
<1>6. \A b \in CommitCmd(s) :
        \/ b = Ok(RolledBack(s)) \/ b = Error(RolledBack(s))
        \/ s.block = "open" /\ b = Ok(Committed(s))
        \/ s.block = "none" /\ b = Ok(s)
  <2>1. CASE s.block = "none"
    BY <2>1 DEF CommitCmd
  <2>2. CASE s.block = "open"
    BY <2>2 DEF CommitCmd
  <2>3. CASE s.block = "failed"
    BY <2>3 DEF CommitCmd
  <2> QED
    BY <1>4, <2>1, <2>2, <2>3
<1>7. /\ RolledBack(s).block = "none" /\ RolledBack(s).levels = << >>
      /\ RolledBack(s).durable = session.durable
      /\ Committed(s).block = "none" /\ Committed(s).levels = << >>
      /\ Committed(s).durable = session.durable \cup InBlock(session)
  BY <1>1, <1>2, <1>3, RolledBackIs, CommittedIs
<1>8. ASSUME NEW b \in CommitCmd(s)
      PROVE  /\ b.reply # "broken" /\ b.session.block = "none"
             /\ b.session.levels = << >>
             /\ b.session.durable = session.durable \/ More(b.session.durable, b.reply)
  <2>1. CASE b = Ok(RolledBack(s)) \/ b = Error(RolledBack(s))
    BY <1>7, <2>1 DEF Ok, Error
  <2>2. CASE s.block = "open" /\ b = Ok(Committed(s))
    BY <1>3, <1>7, <2>2 DEF Ok
  <2>3. CASE s.block = "none" /\ b = Ok(s)
    BY <1>2, <1>3, <2>3 DEF Ok
  <2> QED
    BY <1>6, <2>1, <2>2, <2>3
<1>9. \/ a \in CommitCmd(s) /\ Heard(a.session)
      \/ /\ a.reply = "broken"
         /\ \/ Dropped(session.durable)
            \/ open /\ \E b \in CommitCmd(s) : Dropped(b.session.durable)
  BY <1>5, <1>8, Hear
<1>10. CASE a \in CommitCmd(s) /\ Heard(a.session)
  BY <1>1, <1>8, <1>10 DEF Heard
<1>11. CASE a.reply = "broken" /\ Dropped(session.durable)
  BY <1>11 DEF Dropped
<1>12. ASSUME a.reply = "broken", NEW b \in CommitCmd(s), Dropped(b.session.durable)
       PROVE  /\ session'.block = "none" /\ session'.levels = << >>
              /\ \/ session'.durable = session.durable
                 \/ /\ session.block = "open"
                    /\ session'.durable = session.durable \cup InBlock(session)
  BY <1>8, <1>12 DEF Dropped
<1> QED
  BY <1>9, <1>10, <1>11, <1>12

(* Nothing outlives ROLLBACK. *)
LEMMA HearRollback ==
  ASSUME TypeOK, NEW t \in Tx, ~IsSub(t), NEW a \in DoAbort(t), Receive(a)
  PROVE  /\ session'.block = "none" /\ session'.levels = << >>
         /\ session'.durable = session.durable
<1> DEFINE s == Ready(session)
<1>1. s \in Session /\ s.durable = session.durable
  BY ReadyTyped, ReadyIs DEF TypeOK
<1>2. RollbackCmd(s) \subseteq Answer /\ a \in Over(open, session, RollbackCmd(s))
  BY <1>1, RollbackTyped DEF DoAbort, Answers
<1> HIDE DEF s
<1>3. \A b \in RollbackCmd(s) :
        /\ b.reply # "broken" /\ b.session.block = "none"
        /\ b.session.levels = << >> /\ b.session.durable = session.durable
  BY <1>1, RolledBackIs DEF RollbackCmd, Ok
<1>4. \/ a \in RollbackCmd(s) /\ Heard(a.session)
      \/ Dropped(session.durable)
  BY <1>2, <1>3, Hear
<1> QED
  BY <1>3, <1>4 DEF Heard, Dropped

(* The end of a subtransaction. *)
LEMMA HearRelease ==
  ASSUME TypeOK, NEW t \in Tx, IsSub(t), NEW a \in DoCommit(t), Receive(a)
  PROVE  \/ a.reply = "broken" /\ Dropped(session.durable)
         \/ a.reply = "error" /\ Heard(Failed(Ready(session)))
         \/ /\ a.reply = "ok" /\ Heard(Released(session, t))
            /\ session.block = "open" /\ HasSavepoint(session, t)
<1> DEFINE s == Ready(session)
<1>1. s \in Session /\ s.durable = session.durable
  BY ReadyTyped, ReadyIs DEF TypeOK
<1>2. s.block = "open" => s = session /\ session.block = "open"
  BY ReadyIs DEF Ready, TypeOK
<1>3. ReleaseCmd(s, t) \subseteq Answer /\ a \in Over(open, session, ReleaseCmd(s, t))
  BY <1>1, ReleaseTyped DEF DoCommit, Answers
<1> HIDE DEF s
<1>4. Released(s, t).durable = s.durable
  BY <1>1 DEF Released, Session
<1>5. \A b \in ReleaseCmd(s, t) :
        \/ b = Error(Failed(s))
        \/ b = Ok(Released(s, t)) /\ s.block = "open" /\ HasSavepoint(s, t)
  BY DEF ReleaseCmd
<1>6. \A b \in ReleaseCmd(s, t) :
        b.reply # "broken" /\ b.session.durable = session.durable
  BY <1>1, <1>4, <1>5, FailedIs DEF Ok, Error
<1>7. \/ a \in ReleaseCmd(s, t) /\ Heard(a.session)
      \/ a.reply = "broken" /\ Dropped(session.durable)
  BY <1>3, <1>6, Hear
<1>8. ASSUME a \in ReleaseCmd(s, t), Heard(a.session)
      PROVE  \/ a.reply = "error" /\ Heard(Failed(s))
             \/ /\ a.reply = "ok" /\ Heard(Released(session, t))
                /\ session.block = "open" /\ HasSavepoint(session, t)
  BY <1>2, <1>5, <1>8 DEF Ok, Error
<1> QED
  BY <1>7, <1>8 DEF s

LEMMA HearRollbackTo ==
  ASSUME TypeOK, NEW t \in Tx, IsSub(t), NEW a \in DoAbort(t), Receive(a)
  PROVE  \/ Dropped(session.durable)
         \/ Heard(Failed(Ready(session))) /\ ~HasSavepoint(session, t)
         \/ Heard(RolledBackTo(Ready(session), t)) /\ HasSavepoint(session, t)
<1> DEFINE s == Ready(session)
<1>1. s \in Session /\ s.durable = session.durable
  BY ReadyTyped, ReadyIs DEF TypeOK
<1>2. HasSavepoint(s, t) <=> HasSavepoint(session, t)
  BY ReadyIs DEF HasSavepoint, TypeOK
<1>3. /\ RollbackToCmd(s, t) \subseteq Answer
      /\ a \in Over(open, session, RollbackToCmd(s, t))
  BY <1>1, RollbackToTyped DEF DoAbort, Answers
<1> HIDE DEF s
<1>4. RolledBackTo(s, t).durable = s.durable
  BY <1>1 DEF RolledBackTo, Session
<1>5. \A b \in RollbackToCmd(s, t) :
        \/ b = Error(Failed(s)) /\ ~HasSavepoint(s, t)
        \/ b = Ok(RolledBackTo(s, t)) /\ HasSavepoint(s, t)
  BY DEF RollbackToCmd
<1>6. \A b \in RollbackToCmd(s, t) :
        b.reply # "broken" /\ b.session.durable = session.durable
  BY <1>1, <1>4, <1>5, FailedIs DEF Ok, Error
<1>7. \/ a \in RollbackToCmd(s, t) /\ Heard(a.session)
      \/ Dropped(session.durable)
  BY <1>3, <1>6, Hear
<1>8. ASSUME a \in RollbackToCmd(s, t), Heard(a.session)
      PROVE  \/ Heard(Failed(s)) /\ ~HasSavepoint(session, t)
             \/ Heard(RolledBackTo(s, t)) /\ HasSavepoint(session, t)
  BY <1>2, <1>5, <1>8 DEF Ok, Error
<1> QED
  BY <1>7, <1>8 DEF s
-----------------------------------------------------------------------------
(* Lemmas about the invariant. *)

LEMMA ObjectIs ==
  ASSUME TypeOK, NEW t \in Tx
  PROVE  /\ tx[t].life \in {"none", "alive", "gone"}
         /\ tx[t].parent \in Tx \cup {NoTx} /\ tx[t].root \in Tx \cup {NoTx}
         /\ tx[t].status \in {"active", "aborted", "committed", "in_doubt"}
         /\ tx[t].registered \in BOOLEAN
<1>1. tx[t] \in Object
  BY DEF TypeOK
<1> QED
  BY <1>1 DEF Object, Status

LEMMA WriteIs ==
  ASSUME TypeOK
  PROVE  \A w \in done \cup session.durable \cup InBlock(session) : w.by \in Tx
<1>1. \A w \in Write : w.by \in Tx
  BY DEF Write
<1>2. session \in Session /\ done \subseteq Write
  BY DEF TypeOK
<1> QED
  BY <1>1, <1>2, InBlockTyped, SessionIs

LEMMA AllOrNothingIs ==
  ASSUME \A t \in Tx : \/ \A w \in done : w.by = t => w \in session.durable
                       \/ \A w \in done : w.by = t => w \notin session.durable
  PROVE  AllOrNothing
<1>1. ASSUME NEW t \in Tx
      PROVE  Series(t) \cap session.durable \in {{}, Series(t)}
  BY <1>1 DEF Series
<1> QED
  BY <1>1 DEF AllOrNothing, Series

LEMMA AllOrNothingWas ==
  ASSUME AllOrNothing, NEW t \in Tx
  PROVE  \/ \A w \in done : w.by = t => w \in session.durable
         \/ \A w \in done : w.by = t => w \notin session.durable
<1>1. Series(t) \cap session.durable \in {{}, Series(t)}
  BY DEF AllOrNothing, Series
<1> QED
  BY <1>1 DEF Series

(* No write of an active object, or of one in an active block, is durable. *)
LEMMA NoneIsDurable ==
  ASSUME TypeOK, Past, NEW w \in session.durable, ~w.late
  PROVE  /\ w.by \in Tx /\ tx[w.by].root \in Tx
         /\ tx[w.by].status \in {"committed", "in_doubt"}
         /\ tx[tx[w.by].root].status \in {"committed", "in_doubt"}
         /\ IsSub(w.by) => tx[w.by].status = "committed"
<1>1. w.by \in Tx /\ tx[w.by].life # "none"
  BY WriteIs DEF Past, History
<1>2. KinOf(w.by)
  BY <1>1 DEF Past, Kin
<1>3. /\ tx[tx[w.by].root].status \in {"committed", "in_doubt"}
      /\ IsSub(w.by) => tx[w.by].status = "committed"
  BY DEF Past, DurableWasCommitted
<1> QED
  BY <1>1, <1>2, <1>3 DEF KinOf

LEMMA Innermost ==
  ASSUME Disciplined, TypeOK, NEW c \in Seq(Tx), Nest(c), NEW t \in Tx, Act(t),
         \/ Usable(t)
         \/ \A s \in Tx : tx[s].parent = t => ~Alive(s)
  PROVE  c # << >> /\ t = c[Len(c)]
<1>1. PICK i \in DOMAIN c : c[i] = t
  BY DEF Nest
<1>2. ASSUME i # Len(c)
      PROVE  FALSE
  <2>1. i + 1 \in DOMAIN c /\ i + 1 > 1 /\ c[i + 1] \in Tx
    BY <1>2
  <2>2. tx[c[i + 1]].parent = t
    BY <1>1, <2>1 DEF Nest
  <2>3. Act(c[i + 1])
    BY <2>1 DEF Nest
  <2> QED
    BY <2>1, <2>2, <2>3 DEF Usable, OpenSubs, Act
<1> QED
  BY <1>1, <1>2

LEMMA SlotActive ==
  ASSUME NEW c \in Seq(Tx), Nest(c), c # << >>
  PROVE  /\ slot = c[1] /\ slot \in Tx /\ 1 \in DOMAIN c /\ Act(slot)
         /\ tx[slot].root = slot
         /\ Len(c) \in DOMAIN c /\ c[Len(c)] \in Tx /\ Act(c[Len(c)])
         /\ tx[c[Len(c)]].root = slot
<1>1. 1 \in DOMAIN c /\ Len(c) \in DOMAIN c /\ c[1] \in Tx /\ c[Len(c)] \in Tx
  OBVIOUS
<1> QED
  BY <1>1 DEF Nest

(* The root of the chain, and it alone, is no subtransaction. *)
LEMMA RootIsFirst ==
  ASSUME TypeOK, SlotIsAlive, Past, NEW c \in Seq(Tx), Nest(c), NEW i \in DOMAIN c
  PROVE  /\ IsSub(c[i]) <=> i > 1
         /\ c[i] = slot <=> i = 1
<1>1. c[i] \in Tx /\ c # << >> /\ i \in 1 .. Len(c)
  OBVIOUS
<1>2. slot = c[1] /\ slot \in Tx /\ 1 \in DOMAIN c
  BY <1>1, SlotActive
<1>3. c[i] = slot <=> i = 1
  BY <1>2 DEF Nest
<1>4. ~IsSub(slot)
  BY <1>2 DEF Past, Kin, KinOf, SlotIsAlive
<1>5. ASSUME i > 1
      PROVE  IsSub(c[i])
  <2>1. tx[c[i]].parent = c[i - 1] /\ i - 1 \in DOMAIN c
    BY <1>1, <1>5 DEF Nest
  <2>2. c[i - 1] \in Tx
    BY <2>1
  <2> QED
    BY <2>1, <2>2, SessionAssumption DEF IsSub
<1> QED
  BY <1>1, <1>3, <1>4, <1>5

(* The levels of an active subtransaction. *)
LEMMA LevelIsPlace ==
  ASSUME TypeOK, NEW c \in Seq(Tx), NEW p \in Seq(Nat), Block(c), Places(c, p),
         NEW i \in DOMAIN c, i > 1
  PROVE  /\ HasSavepoint(session, c[i]) /\ LevelOf(session, c[i]) = p[i]
         /\ p[i] \in 2 .. Len(session.levels)
<1>1. i \in DOMAIN p /\ 1 \in DOMAIN p /\ p[1] < p[i] /\ p[1] = 1
  BY DEF Places
<1>2. p[i] \in DOMAIN session.levels /\ session.levels[p[i]].savepoint = c[i]
  BY <1>1 DEF Places
<1>3. session.levels \in Seq(Level)
  BY SessionIs DEF TypeOK
<1>4. ASSUME NEW j \in DOMAIN session.levels, session.levels[j].savepoint = c[i]
      PROVE  j = p[i]
  BY <1>2, <1>4 DEF Block
<1>5. LevelOf(session, c[i]) = p[i]
  BY <1>2, <1>4 DEF LevelOf
<1> QED
  BY <1>1, <1>2, <1>3, <1>5 DEF HasSavepoint
-----------------------------------------------------------------------------
(* Calls that neither begin nor end a transaction. *)

(* What they leave of the objects. *)
Calm ==
  \A u \in Tx :
    /\ tx'[u].parent = tx[u].parent /\ tx'[u].root = tx[u].root
    /\ tx'[u].status = tx[u].status
    /\ tx'[u] = tx[u] \/ tx[u].life # "none"
    /\ \/ tx'[u].life = tx[u].life
       \/ tx[u].life = "alive" /\ tx'[u].life = "gone" /\ tx[u].status # "active"
    /\ tx'[u].registered => tx[u].registered

LEMMA CalmKin ==
  ASSUME TypeOK, TypeOK', Kin, Calm
  PROVE  /\ Kin'
         /\ \A u \in Tx : /\ Act(u)' <=> Act(u)
                          /\ tx'[u].life # "none" <=> tx[u].life # "none"
<1>1. ASSUME NEW u \in Tx
      PROVE  /\ Act(u)' <=> Act(u)
             /\ tx'[u].life # "none" <=> tx[u].life # "none"
  BY DEF Calm, Act, Alive
<1>2. ASSUME NEW u \in Tx
      PROVE  KinOf(u)'
  <2>1. KinOf(u)
    BY DEF Kin
  <2>2. tx'[u].life = "none" => tx'[u] = Absent
    BY <2>1 DEF Calm, KinOf
  <2>3. tx'[u].life = "gone" => tx'[u].status # "active"
    BY <2>1 DEF Calm, KinOf
  <2>4. ASSUME tx'[u].life # "none"
        PROVE  /\ tx'[u].root \in Tx /\ tx'[tx'[u].root].life # "none"
               /\ tx'[tx'[u].root].parent = NoTx
               /\ tx'[u].parent = NoTx => tx'[u].root = u
    <3>1. tx'[u].root = tx[u].root /\ tx[u].root \in Tx /\ tx[u].life # "none"
      BY <1>1, <2>1, <2>4 DEF Calm, KinOf
    <3>2. tx[tx[u].root].life # "none" /\ ~IsSub(tx[u].root)
      BY <2>1, <3>1 DEF KinOf
    <3>3. tx[u].parent = NoTx => tx[u].root = u
      BY <2>1, <3>1 DEF KinOf, IsSub
    <3> QED
      BY <1>1, <3>1, <3>2, <3>3 DEF Calm, IsSub
  <2>5. tx'[u].parent # NoTx => ~tx'[u].registered /\ tx'[u].status # "in_doubt"
    BY <2>1 DEF Calm, KinOf, IsSub
  <2> QED
    BY <2>2, <2>3, <2>4, <2>5 DEF KinOf, IsSub
<1> QED
  BY <1>1, <1>2 DEF Kin

(* No write of an active object was durable, so that a series goes on as     *)
(* none of it; a late write counts for nothing.                              *)
LEMMA CalmPast ==
  ASSUME TypeOK, TypeOK', Past, Calm,
         session.durable \subseteq session'.durable,
         \A w \in session'.durable : w \in session.durable \/ w.late,
         \/ done' = done
         \/ \E w \in Write : ~w.late /\ Act(w.by) /\ done' = done \cup {w}
  PROVE  Past'
<1>1. Kin' /\ \A u \in Tx : tx'[u].life # "none" <=> tx[u].life # "none"
  BY CalmKin DEF Past
<1>2. ASSUME NEW w \in done' \cup session'.durable
      PROVE  w.by \in Tx /\ (w \in done' => ~w.late)
             /\ (~w.late => tx[w.by].life # "none")
  <2>1. w \in done' => w \in done \/ (~w.late /\ Act(w.by))
    OBVIOUS
  <2>2. w.by \in Tx
    BY WriteIs, <2>1, <1>2 DEF TypeOK, Write, Session
  <2> QED
    BY <1>2, <2>1, <2>2 DEF Past, History, Act, Alive
<1>3. History'
  BY <1>1, <1>2 DEF History
<1>4. ASSUME NEW w \in session'.durable, ~w.late
      PROVE  /\ tx'[tx'[w.by].root].status \in {"committed", "in_doubt"}
             /\ IsSub(w.by)' => tx'[w.by].status = "committed"
  <2>1. w \in session.durable
    BY <1>4
  <2> QED
    BY <1>4, <2>1, NoneIsDurable DEF Calm, IsSub
<1>5. DurableWasCommitted'
  BY <1>4 DEF DurableWasCommitted
<1>6. ASSUME NEW t \in Tx
      PROVE  \/ \A w \in done' : w.by = t => w \in session'.durable
             \/ \A w \in done' : w.by = t => w \notin session'.durable
  <2>1. \A w \in done' : w \in session'.durable <=> w \in session.durable
    BY <1>2
  <2>2. \/ \A w \in done : w.by = t => w \in session.durable
        \/ \A w \in done : w.by = t => w \notin session.durable
    BY AllOrNothingWas DEF Past
  <2>3. CASE done' = done
    BY <2>1, <2>2, <2>3
  <2>4. ASSUME NEW v \in Write, ~v.late, Act(v.by), done' = done \cup {v}
        PROVE  \/ \A w \in done' : w.by = t => w \in session.durable
               \/ \A w \in done' : w.by = t => w \notin session.durable
    <3>1. CASE v.by = t
      <4>1. \A w \in done' : w.by = t => w \notin session.durable
        BY <1>2, <2>4, <3>1, NoneIsDurable DEF Act
      <4> QED
        BY <4>1
    <3>2. CASE v.by # t
      BY <2>2, <2>4, <3>2
    <3> QED
      BY <3>1, <3>2
  <2> QED
    BY <2>1, <2>3, <2>4
<1>7. AllOrNothing'
  <2>1. \A t \in Tx : Series(t)' \cap session'.durable \in {{}, Series(t)'}
    BY <1>6 DEF Series
  <2> QED
    BY <2>1 DEF AllOrNothing, Series
<1> QED
  BY <1>1, <1>3, <1>5, <1>7 DEF Past
LEMMA CalmNest ==
  ASSUME TypeOK, TypeOK', Kin, Calm, NEW c \in Seq(Tx), Nest(c),
         slot' = slot \/ c = << >>,
         \A u \in Tx : tx'[u].focus \/ tx'[u].pending => c # << >> /\ u = c[Len(c)]
  PROVE  Nest(c)'
<1>1. \A u \in Tx : /\ Act(u)' <=> Act(u)
                    /\ tx'[u].parent = tx[u].parent /\ tx'[u].root = tx[u].root
  BY CalmKin DEF Calm
<1>2. \A i \in DOMAIN c : c[i] \in Tx /\ slot' = slot
  OBVIOUS
<1>3. \A u \in Tx : Act(u)' <=> \E i \in DOMAIN c : c[i] = u
  BY <1>1 DEF Nest
<1>4. \A i \in DOMAIN c : /\ tx'[c[i]].root = slot'
                          /\ i > 1 => tx'[c[i]].parent = c[i - 1]
  BY <1>1, <1>2 DEF Nest
<1>5. /\ \A i, j \in DOMAIN c : c[i] = c[j] => i = j
      /\ c # << >> => c[1] = slot'
  BY DEF Nest
<1> QED
  BY <1>3, <1>4, <1>5 DEF Nest

LEMMA CalmBlock ==
  ASSUME TypeOK, TypeOK', Kin, Calm, NEW c \in Seq(Tx), Block(c),
         \A u \in Tx : /\ tx'[u].focus => session'.copy \/ session'.block # "open"
                       /\ tx'[u].pending => session'.block # "open",
         \/ ~open' /\ session'.block = "none" /\ session'.levels = << >>
         \/ /\ open' = open
            /\ DOMAIN session'.levels = DOMAIN session.levels
            /\ \A j \in DOMAIN session.levels :
                 session'.levels[j].savepoint = session.levels[j].savepoint
            /\ session'.block = "none" <=> session.block = "none"
            /\ session'.block = "open" => session.block = "open"
  PROVE  Block(c)'
<1>1. \A u \in Tx : tx'[u].life # "none" <=> tx[u].life # "none"
  BY CalmKin
<1>2. CASE ~open' /\ session'.block = "none" /\ session'.levels = << >>
  BY <1>2 DEF Block
<1>3. CASE /\ open' = open
           /\ DOMAIN session'.levels = DOMAIN session.levels
           /\ \A j \in DOMAIN session.levels :
                session'.levels[j].savepoint = session.levels[j].savepoint
           /\ session'.block = "none" <=> session.block = "none"
           /\ session'.block = "open" => session.block = "open"
  <2>1. session.levels \in Seq(Level) /\ session'.levels \in Seq(Level)
    BY DEF TypeOK, Session
  <2>2. session'.levels = << >> <=> session.levels = << >>
    BY <1>3, <2>1
  <2>3. \A j \in DOMAIN session.levels : session.levels[j].savepoint \in Tx \cup {NoTx}
    BY SessionIs DEF TypeOK
  <2>4. \A i, j \in DOMAIN session'.levels :
          session'.levels[i].savepoint = session'.levels[j].savepoint => i = j
    BY <1>3 DEF Block
  <2>5. \A i \in DOMAIN session'.levels :
          session'.levels[i].savepoint # NoTx =>
            tx'[session'.levels[i].savepoint].life # "none"
    BY <1>1, <1>3, <2>3 DEF Block
  <2>6. /\ ~open' => session'.block = "none"
        /\ session'.block = "none" <=> session'.levels = << >>
        /\ open' /\ c # << >> => session'.block # "none"
        /\ c = << >> => session'.block # "open"
    BY <1>3, <2>2 DEF Block
  <2> QED
    BY <2>4, <2>5, <2>6 DEF Block
<1> QED
  BY <1>2, <1>3

LEMMA CalmLevels ==
  ASSUME TypeOK, TypeOK', Past, Calm,
         NEW c \in Seq(Tx), Nest(c), c # << >>, slot' = slot,
         NEW p \in Seq(Nat), Levels(c, p),
         session'.block \in {"open", "failed"},
         session'.block = "open" => session.block = "open",
         NEW W \in SUBSET Write, \A w \in W : w.late \/ w.by = c[Len(c)],
         DOMAIN session'.levels = DOMAIN session.levels,
         \A j \in DOMAIN session.levels :
           /\ session'.levels[j].savepoint = session.levels[j].savepoint
           /\ session'.levels[j].writes = IF j = Len(session.levels)
                THEN session.levels[j].writes \cup W ELSE session.levels[j].writes,
         done \subseteq done', \A w \in done' : w \in done \/ (w \in W /\ ~w.late)
  PROVE  Levels(c, p)'
<1>1. \A u \in Tx : /\ tx'[u].parent = tx[u].parent /\ tx'[u].root = tx[u].root
                    /\ tx'[u].status = tx[u].status
  BY DEF Calm
<1>2. Places(c, p)
  BY DEF Levels
<1>3. Places(c, p)'
  BY <1>2 DEF Places
<1>4. /\ Len(c) \in DOMAIN c /\ c[Len(c)] \in Tx /\ Act(c[Len(c)])
      /\ tx[c[Len(c)]].root = slot
  BY SlotActive
<1>5. Len(p) = Len(c) /\ p[Len(c)] \in DOMAIN session.levels
  BY <1>2, <1>4 DEF Places
<1>6. session.levels \in Seq(Level)
  BY SessionIs DEF TypeOK
<1>7. \A i \in DOMAIN p : p[i] \in Nat /\ p[i] <= Len(session.levels)
  BY <1>2, <1>6 DEF Places
<1>8. ASSUME NEW j \in DOMAIN session'.levels, NEW w \in session'.levels[j].writes, ~w.late
      PROVE  \/ w \in session.levels[j].writes
             \/ j = Len(session.levels) /\ w \in W /\ w.by = c[Len(c)]
  BY <1>8
<1>9. ASSUME NEW j \in DOMAIN session'.levels, NEW w \in session'.levels[j].writes, ~w.late
      PROVE  Placed(c, p, j, w)'
  <2>1. CASE w \in session.levels[j].writes
    <3>1. Placed(c, p, j, w)
      BY <1>9, <2>1 DEF Levels
    <3>2. w.by \in Tx
      BY <2>1, WriteIs DEF InBlock
    <3> QED
      BY <1>1, <3>1, <3>2 DEF Placed, IsSub
  <2>2. CASE j = Len(session.levels) /\ w.by = c[Len(c)]
    <3>1. tx'[w.by].root = slot' /\ tx'[w.by].status = "active"
      BY <1>1, <1>4, <2>2 DEF Act
    <3>2. ASSUME NEW i \in DOMAIN c, w.by = c[i]
          PROVE  p[i] <= j /\ ~(i < Len(c))
      <4>1. i = Len(c)
        BY <1>4, <2>2, <3>2, ZenonT(60) DEF Nest
      <4> QED
        BY <1>4, <1>5, <1>7, <2>2, <4>1
    <3> QED
      BY <3>1, <3>2 DEF Placed
  <2> QED
    BY <1>8, <1>9, <2>1, <2>2
<1>10. ASSUME NEW i \in DOMAIN session'.levels, NEW j \in DOMAIN session'.levels,
              NEW v \in session'.levels[i].writes, NEW w \in session'.levels[j].writes,
              ~v.late, ~w.late, v.by = w.by, tx'[v.by].status = "committed"
       PROVE  i = j
  <2>1. v.by # c[Len(c)]
    BY <1>1, <1>4, <1>10 DEF Act
  <2>2. v \in session.levels[i].writes /\ w \in session.levels[j].writes
    BY <1>8, <1>10, <2>1
  <2>3. v.by \in Tx
    BY <2>2, WriteIs DEF InBlock
  <2>4. tx[v.by].status = "committed"
    BY <1>1, <1>10, <2>3
  <2> QED
    BY <1>10, <2>2, <2>4 DEF Levels
<1>11. ASSUME NEW w
       PROVE  w \in InBlock(session)' <=> w \in InBlock(session) \/ w \in W
  <2>1. Len(session.levels) \in DOMAIN session.levels
    BY <1>5, <1>6
  <2>2. w \in InBlock(session)' <=>
          \E j \in DOMAIN session'.levels : w \in session'.levels[j].writes
    BY DEF InBlock
  <2>3. w \in InBlock(session) <=>
          \E j \in DOMAIN session.levels : w \in session.levels[j].writes
    BY DEF InBlock
  <2> QED
    BY <2>1, <2>2, <2>3
<1>12. \A i \in DOMAIN c : Series(c[i])' \subseteq InBlock(session)'
  BY <1>11 DEF Levels, Series
<1>13. ASSUME NEW t \in Tx, tx'[t].root = slot', tx'[t].status = "committed"
       PROVE  \/ Series(t)' \subseteq InBlock(session)'
              \/ Series(t)' \cap InBlock(session)' = {}
  <2>1. tx[t].root = slot /\ tx[t].status = "committed"
    BY <1>1, <1>13
  <2>2. t # c[Len(c)]
    BY <1>4, <2>1 DEF Act
  <2>3. Series(t)' = Series(t)
    BY <2>2 DEF Series
  <2>4. \A w \in Series(t) : ~w.late /\ w.by = t
    BY DEF Series, Past, History
  <2>5. Series(t) \subseteq InBlock(session) \/ Series(t) \cap InBlock(session) = {}
    BY <2>1 DEF Levels
  <2> QED
    BY <1>11, <2>2, <2>3, <2>4, <2>5
<1> QED
  BY <1>3, <1>9, <1>10, <1>12, <1>13 DEF Levels
(* What a calm call leaves of the block.  Either the connection broke, and   *)
(* at most a late write is durable; or all that was written is as it was; or *)
(* there is one write more.                                                  *)
Lone(w) ==
  /\ ~open' /\ session'.block = "none" /\ session'.levels = << >>
  /\ session.durable \subseteq session'.durable
  /\ \A v \in session'.durable : v \in session.durable \/ (v = w /\ w.late)
  /\ done' = done

Quiet ==
  /\ open' = open /\ done' = done
  /\ session'.levels = session.levels /\ session'.durable = session.durable
  /\ session'.block = "none" <=> session.block = "none"
  /\ session'.block = "open" => session.block = "open"

Wrote(w) ==
  /\ open /\ open'
  /\ done' = done \/ (~w.late /\ done' = done \cup {w})
  /\ session'.block = "none" <=> session.block = "none"
  /\ session'.block = "open" => session.block = "open"
  /\ session'.durable = IF session.block = "none"
       THEN session.durable \cup {w} ELSE session.durable
  /\ DOMAIN session'.levels = DOMAIN session.levels
  /\ \A j \in DOMAIN session.levels :
       /\ session'.levels[j].savepoint = session.levels[j].savepoint
       /\ session.block # "none" => session'.levels[j].writes =
            IF j = Len(session.levels) THEN session.levels[j].writes \cup {w}
                                       ELSE session.levels[j].writes

LEMMA CalmKeeps ==
  ASSUME TypeOK, TypeOK', SlotIsAlive', Past, Calm,
         NEW c \in Seq(Tx), NEW p \in Seq(Nat), Nested(c, p),
         slot' = slot \/ c = << >>,
         \A u \in Tx : /\ tx'[u].focus \/ tx'[u].pending => c # << >> /\ u = c[Len(c)]
                       /\ tx'[u].focus => session'.copy \/ session'.block # "open"
                       /\ tx'[u].pending => session'.block # "open",
         \/ Quiet
         \/ \E w \in Write : /\ w.late \/ (c # << >> /\ w.by = c[Len(c)])
                             /\ Lone(w) \/ Wrote(w)
  PROVE  OrderInv'
<1>1. Nest(c) /\ Block(c) /\ Kin
  BY DEF Nested, Past
<1>2. Nest(c)'
  BY <1>1, CalmNest
<1>3. session'.block \in {"none", "open", "failed"}
  BY DEF TypeOK, Session
<1>4. ASSUME NEW w \in Write, w.late \/ (c # << >> /\ w.by = c[Len(c)])
      PROVE  w.late \/ Act(w.by)
  BY <1>1, <1>4, SlotActive
<1>5. Block(c)'
  <2>1. CASE Quiet
    BY <1>1, <2>1, CalmBlock DEF Quiet
  <2>2. ASSUME NEW w \in Write, Lone(w)
        PROVE  Block(c)'
    BY <1>1, <2>2, CalmBlock DEF Lone
  <2>3. ASSUME NEW w \in Write, Wrote(w)
        PROVE  Block(c)'
    <3>1. /\ open' = open
          /\ DOMAIN session'.levels = DOMAIN session.levels
          /\ \A j \in DOMAIN session.levels :
               session'.levels[j].savepoint = session.levels[j].savepoint
          /\ session'.block = "none" <=> session.block = "none"
          /\ session'.block = "open" => session.block = "open"
      BY <2>3 DEF Wrote, TypeOK
    <3> QED
      BY <1>1, <3>1, CalmBlock
  <2> QED
    BY <2>1, <2>2, <2>3
<1>6. ASSUME c # << >>, session'.block # "none"
      PROVE  Levels(c, p)'
  <2>1. session.block # "none" /\ Levels(c, p) /\ slot' = slot
    BY <1>6 DEF Quiet, Lone, Wrote, Nested
  <2>2. CASE Quiet
    <3>1. \A j \in DOMAIN session.levels : session'.levels[j].writes =
            IF j = Len(session.levels) THEN session.levels[j].writes \cup {}
                                       ELSE session.levels[j].writes
      BY <2>2 DEF Quiet
    <3>2. {} \in SUBSET Write /\ \A w \in {} : w.late \/ w.by = c[Len(c)]
      OBVIOUS
    <3>3. /\ session'.block = "open" => session.block = "open"
          /\ session'.levels = session.levels
          /\ done \subseteq done' /\ \A w \in done' : w \in done \/ (w \in {} /\ ~w.late)
      BY <2>2 DEF Quiet
    <3> QED
      BY <1>1, <1>3, <1>6, <2>1, <3>1, <3>2, <3>3, CalmLevels
  <2>3. ASSUME NEW w \in Write, w.late \/ w.by = c[Len(c)], Wrote(w)
        PROVE  Levels(c, p)'
    <3>1. /\ session'.block = "open" => session.block = "open"
          /\ DOMAIN session'.levels = DOMAIN session.levels
          /\ \A j \in DOMAIN session.levels :
               /\ session'.levels[j].savepoint = session.levels[j].savepoint
               /\ session'.levels[j].writes =
                    IF j = Len(session.levels) THEN session.levels[j].writes \cup {w}
                                               ELSE session.levels[j].writes
      BY <2>1, <2>3 DEF Wrote
    <3>2. done \subseteq done' /\ \A v \in done' : v \in done \/ (v \in {w} /\ ~v.late)
      BY <2>3 DEF Wrote
    <3>3. {w} \in SUBSET Write /\ \A v \in {w} : v.late \/ v.by = c[Len(c)]
      BY <2>3
    <3> QED
      BY <1>1, <1>3, <1>6, <2>1, <3>1, <3>2, <3>3, CalmLevels
  <2> QED
    BY <1>6, <2>2, <2>3 DEF Lone
<1>7. Past'
  <2>1. CASE Quiet
    BY <2>1, CalmPast DEF Quiet
  <2>2. ASSUME NEW w \in Write, Lone(w)
        PROVE  Past'
    BY <2>2, CalmPast DEF Lone
  <2>3. ASSUME NEW w \in Write, Wrote(w), w.late \/ (c # << >> /\ w.by = c[Len(c)])
        PROVE  Past'
    <3>1. session.block = "none" => w.late
      BY <1>1, <2>3 DEF Wrote, Block
    <3>2. /\ session.durable \subseteq session'.durable
          /\ \A v \in session'.durable : v \in session.durable \/ v.late
      BY <2>3, <3>1 DEF Wrote
    <3>3. \/ done' = done
          \/ \E v \in Write : ~v.late /\ Act(v.by) /\ done' = done \cup {v}
      BY <1>4, <2>3 DEF Wrote
    <3> QED
      BY <3>2, <3>3, CalmPast
  <2> QED
    BY <2>1, <2>2, <2>3
<1>8. Nested(c, p)'
  BY <1>2, <1>5, <1>6 DEF Nested
<1> QED
  BY <1>7, <1>8 DEF OrderInv

LEMMA OneCalm ==
  ASSUME TypeOK, NEW t \in Tx, NEW o, tx' = [tx EXCEPT ![t] = o],
         tx[t].life # "none",
         o.parent = tx[t].parent, o.root = tx[t].root, o.status = tx[t].status,
         \/ o.life = tx[t].life
         \/ tx[t].life = "alive" /\ o.life = "gone" /\ tx[t].status # "active",
         o.registered => tx[t].registered
  PROVE  /\ Calm /\ tx'[t] = o
         /\ \A u \in Tx : u # t => tx'[u] = tx[u]
<1>1. tx'[t] = o /\ \A u \in Tx : u # t => tx'[u] = tx[u]
  BY DEF TypeOK
<1> QED
  BY <1>1 DEF Calm

(* A command that comes while a stream is open, or after it failed, finds    *)
(* no open block.                                                            *)
LEMMA ReadyStops ==
  ASSUME TypeOK, NEW c, Block(c), NEW t \in Tx, tx[t].focus \/ tx[t].pending
  PROVE  Ready(session).block # "open"
<1>1. /\ Ready(session).block = "open" => session.block = "open" /\ ~session.copy
  BY ReadyIs DEF TypeOK
<1> QED
  BY <1>1 DEF Block

(* An object that goes on, in a transaction that does.                       *)
LEMMA GoingIsAct ==
  ASSUME Disciplined, TypeOK, Past, NEW c \in Seq(Tx), Nest(c), NEW t \in Tx, Usable(t)
  PROVE  /\ NewWrite(t).late \/ (c # << >> /\ NewWrite(t).by = c[Len(c)])
         /\ Act(t) => ~NewWrite(t).late
<1>1. NewWrite(t).by = t /\ NewWrite(t).late = ~Going(t)
  BY DEF NewWrite
<1>2. ASSUME Act(t)
      PROVE  Going(t) /\ c # << >> /\ t = c[Len(c)]
  <2>1. c # << >> /\ t = c[Len(c)]
    BY <1>2, Innermost
  <2> QED
    BY <1>2, <2>1, SlotActive DEF Going, Act
<1>3. ~Act(t) => ~Going(t)
  BY DEF Act, Going, Usable
<1> QED
  BY <1>1, <1>2, <1>3
(* A write that the server joined to what there was, or had alone. *)
LEMMA WrittenWrote ==
  ASSUME TypeOK, NEW w \in Write, NEW a \in Answer, Told(w, a),
         NEW s \in Session, s.levels = session.levels, s.durable = session.durable,
         s.block = "none" <=> session.block = "none",
         s.block = "open" => session.block = "open",
         Heard(Written(s, w))
  PROVE  Wrote(w) /\ session'.block = s.block
<1>1. open /\ open' /\ session' = Written(s, w)
  BY DEF Heard
<1>2. done' = done \/ (~w.late /\ done' = done \cup {w})
  BY DEF Told
<1>3. session'.block = s.block
  BY <1>1, WrittenIs
<1>4. s.levels \in Seq(Level) /\ s.block \in {"none", "open", "failed"}
  BY SessionIs
<1>5. CASE s.block = "none"
  <2>1. session'.levels = session.levels /\ session'.durable = session.durable \cup {w}
    BY <1>1, <1>5, WrittenIs
  <2> QED
    BY <1>1, <1>2, <1>3, <1>5, <2>1 DEF Wrote
<1>6. CASE s.block # "none"
  <2>1. /\ session'.durable = session.durable
        /\ DOMAIN session'.levels = DOMAIN session.levels
        /\ \A j \in DOMAIN session.levels :
             /\ session'.levels[j].savepoint = session.levels[j].savepoint
             /\ session'.levels[j].writes =
                  IF j = Len(session.levels) THEN session.levels[j].writes \cup {w}
                                             ELSE session.levels[j].writes
    BY <1>1, <1>6, WrittenIs, SMTT(30)
  <2> QED
    BY <1>1, <1>2, <1>3, <1>6, <2>1 DEF Wrote
<1> QED
  BY <1>5, <1>6

LEMMA FailedQuiet ==
  ASSUME TypeOK, done' = done,
         NEW s \in Session, s.levels = session.levels, s.durable = session.durable,
         s.block = "none" <=> session.block = "none",
         Heard(Failed(s))
  PROVE  Quiet /\ session'.block # "open"
<1>1. open /\ open' /\ session' = Failed(s)
  BY DEF Heard
<1>2. /\ session'.levels = session.levels /\ session'.durable = session.durable
      /\ session'.block = IF s.block = "none" THEN "none" ELSE "failed"
  BY <1>1, FailedIs
<1> QED
  BY <1>1, <1>2 DEF Quiet

LEMMA DroppedLone ==
  ASSUME TypeOK, done' = done, NEW w \in Write,
         \/ Dropped(session.durable)
         \/ w.late /\ Dropped(session.durable \cup {w})
  PROVE  Lone(w)
  BY DEF Dropped, Lone

LEMMA ThrowPendingOrders ==
  ASSUME Disciplined, TypeOK, SlotIsAlive, TypeOK', SlotIsAlive', Past,
         NEW c \in Seq(Tx), NEW p \in Seq(Nat), Nested(c, p),
         NEW t \in Tx, ThrowPending(t)
  PROVE  OrderInv'
<1> DEFINE o == [tx[t] EXCEPT !.pending = FALSE]
<1>1. tx[t] \in Object /\ tx' = [tx EXCEPT ![t] = o]
  BY DEF TypeOK, ThrowPending
<1>2. /\ o.parent = tx[t].parent /\ o.root = tx[t].root /\ o.status = tx[t].status
      /\ o.life = tx[t].life /\ o.registered = tx[t].registered
      /\ o.focus = tx[t].focus /\ o.pending = FALSE
  BY <1>1 DEF Object
<1> HIDE DEF o
<1>3. Nest(c) /\ Block(c) /\ tx[t].pending
  BY DEF Nested, ThrowPending
<1>4. tx[t].life # "none"
  BY <1>3, SlotActive DEF Nest, Act, Alive
<1>5. Calm /\ tx'[t] = o /\ \A u \in Tx : u # t => tx'[u] = tx[u]
  BY <1>1, <1>2, <1>4, OneCalm
<1>6. UNCHANGED <<open, slot, session, done>>
  BY DEF ThrowPending
<1>7. \A u \in Tx : /\ tx'[u].focus \/ tx'[u].pending => c # << >> /\ u = c[Len(c)]
                    /\ tx'[u].focus => session'.copy \/ session'.block # "open"
                    /\ tx'[u].pending => session'.block # "open"
  BY <1>2, <1>3, <1>5, <1>6 DEF Nest, Block
<1>8. Quiet
  BY <1>6 DEF Quiet
<1> QED
  BY <1>5, <1>6, <1>7, <1>8, CalmKeeps

LEMMA SendWriteOrders ==
  ASSUME Disciplined, TypeOK, SlotIsAlive, TypeOK', SlotIsAlive', Past,
         NEW c \in Seq(Tx), NEW p \in Seq(Nat), Nested(c, p),
         NEW t \in Tx, Usable(t), SendWrite(t)
  PROVE  OrderInv'
<1> DEFINE w == NewWrite(t)
           o == [tx[t] EXCEPT !.writes = @ + 1]
           s == Ready(session)
<1>1. Nest(c) /\ Block(c)
  BY DEF Nested
<1>2. w \in Write /\ (w.late \/ (c # << >> /\ w.by = c[Len(c)]))
  BY <1>1, NewWriteTyped, GoingIsAct DEF SendWrite
<1>3. tx[t] \in Object /\ tx' = [tx EXCEPT ![t] = o] /\ slot' = slot
  BY DEF TypeOK, SendWrite
<1>4. /\ o.parent = tx[t].parent /\ o.root = tx[t].root /\ o.status = tx[t].status
      /\ o.life = tx[t].life /\ o.registered = tx[t].registered
      /\ o.focus = tx[t].focus /\ o.pending = tx[t].pending
  BY <1>3 DEF Object
<1>5. tx[t].life # "none"
  BY DEF Usable, Alive
<1> HIDE DEF o
<1>6. Calm /\ tx'[t] = o /\ \A u \in Tx : u # t => tx'[u] = tx[u]
  BY <1>3, <1>4, <1>5, OneCalm
<1>7. PICK a \in Answers(LAMBDA r : WriteCmd(r, w)) : Receive(a) /\ Told(w, a)
  BY DEF SendWrite
<1>8. a \in Answer
  BY <1>2, ReadyTyped, WriteTyped, OverTyped DEF Answers, TypeOK
<1>9. /\ s \in Session /\ s.levels = session.levels /\ s.durable = session.durable
      /\ s.block = "none" <=> session.block = "none"
      /\ s.block = "open" => session.block = "open"
  BY ReadyTyped, ReadyIs DEF TypeOK
<1>10. \A u \in Tx : tx[u].focus \/ tx[u].pending =>
         /\ c # << >> /\ u = c[Len(c)] /\ s.block # "open"
  BY <1>1, ReadyStops DEF Nest
<1>11. \A u \in Tx : tx'[u].focus \/ tx'[u].pending =>
         /\ c # << >> /\ u = c[Len(c)] /\ s.block # "open"
  BY <1>4, <1>6, <1>10
<1> HIDE DEF s, w
<1>12. \/ a.reply = "broken" /\ Dropped(session.durable)
       \/ /\ a.reply = "broken" /\ open /\ session.block = "none"
          /\ Dropped(session.durable \cup {w})
       \/ a.reply = "error" /\ Heard(Failed(s))
       \/ a.reply = "ok" /\ Heard(Written(s, w)) /\ s.block # "failed"
  BY <1>2, <1>7, HearWrite DEF s
<1>13. a.reply # "ok" => done' = done
  BY <1>7 DEF Told
<1>14. /\ Quiet \/ Lone(w) \/ Wrote(w)
       /\ session'.block = "open" => s.block = "open"
  <2>1. CASE a.reply = "broken" /\ Dropped(session.durable)
    BY <1>2, <1>13, <2>1, DroppedLone DEF Dropped
  <2>2. CASE /\ a.reply = "broken" /\ open /\ session.block = "none"
             /\ Dropped(session.durable \cup {w})
    <3>1. w.late
      BY <1>1, <1>2, <2>2 DEF Block
    <3> QED
      BY <1>2, <1>13, <2>2, <3>1, DroppedLone DEF Dropped
  <2>3. CASE a.reply = "error" /\ Heard(Failed(s))
    BY <1>9, <1>13, <2>3, FailedQuiet
  <2>4. CASE a.reply = "ok" /\ Heard(Written(s, w))
    BY <1>2, <1>7, <1>8, <1>9, <2>4, WrittenWrote
  <2> QED
    BY <1>12, <2>1, <2>2, <2>3, <2>4
<1> QED
  BY <1>2, <1>3, <1>6, <1>11, <1>14, CalmKeeps
(* A connection that broke, without a write, or a quiet call. *)
LEMMA DroppedKeeps ==
  ASSUME TypeOK, TypeOK', SlotIsAlive', Past, Calm,
         NEW c \in Seq(Tx), NEW p \in Seq(Nat), Nested(c, p),
         slot' = slot \/ c = << >>, done' = done,
         \A u \in Tx : /\ tx'[u].focus \/ tx'[u].pending => c # << >> /\ u = c[Len(c)]
                       /\ tx'[u].focus => session'.copy \/ session'.block # "open"
                       /\ tx'[u].pending => session'.block # "open",
         Quiet \/ Dropped(session.durable)
  PROVE  OrderInv'
<1>1. Nest(c) /\ Block(c) /\ Kin
  BY DEF Nested, Past
<1>2. CASE Quiet
  BY <1>2, CalmKeeps
<1>3. CASE Dropped(session.durable)
  <2>1. Nest(c)'
    BY <1>1, CalmNest
  <2>2. Block(c)'
    BY <1>1, <1>3, CalmBlock DEF Dropped
  <2>3. Past'
    BY <1>3, CalmPast DEF Dropped
  <2>4. Nested(c, p)'
    BY <1>3, <2>1, <2>2 DEF Nested, Dropped
  <2> QED
    BY <2>3, <2>4 DEF OrderInv
<1> QED
  BY <1>2, <1>3

LEMMA OpenStreamOrders ==
  ASSUME Disciplined, TypeOK, SlotIsAlive, TypeOK', SlotIsAlive', Past,
         NEW c \in Seq(Tx), NEW p \in Seq(Nat), Nested(c, p),
         NEW t \in Tx, OpenStream(t)
  PROVE  OrderInv'
<1>1. PICK a \in Answers(CopyCmd) :
         Receive(a) /\ tx' = [tx EXCEPT ![t].focus = (a.reply = "ok")]
  BY DEF OpenStream
<1> DEFINE o == [tx[t] EXCEPT !.focus = (a.reply = "ok")]
           s == Ready(session)
<1>2. Nest(c) /\ Block(c)
  BY DEF Nested
<1>3. /\ Usable(t) /\ Act(t) /\ ~tx[t].pending /\ ~tx[t].focus
      /\ slot' = slot /\ done' = done /\ tx[t].life # "none"
  BY DEF OpenStream, Usable, Act, Alive
<1>4. c # << >> /\ t = c[Len(c)]
  BY <1>2, <1>3, Innermost
<1>5. tx[t] \in Object /\ tx' = [tx EXCEPT ![t] = o]
  BY <1>1 DEF TypeOK
<1>6. /\ o.parent = tx[t].parent /\ o.root = tx[t].root /\ o.status = tx[t].status
      /\ o.life = tx[t].life /\ o.registered = tx[t].registered
      /\ o.focus <=> a.reply = "ok"
      /\ o.pending = tx[t].pending
  BY <1>5 DEF Object
<1> HIDE DEF o
<1>7. Calm /\ tx'[t] = o /\ \A u \in Tx : u # t => tx'[u] = tx[u]
  BY <1>3, <1>5, <1>6, OneCalm
<1>8. ASSUME NEW u \in Tx, tx'[u].focus \/ tx'[u].pending
      PROVE  u = t /\ tx'[u].focus /\ ~tx'[u].pending /\ a.reply = "ok"
  BY <1>2, <1>3, <1>4, <1>6, <1>7, <1>8 DEF Nest
<1>9. /\ s \in Session /\ s.levels = session.levels /\ s.durable = session.durable
      /\ s.block = "none" <=> session.block = "none"
      /\ s.block = "open" => session.block = "open"
  BY ReadyTyped, ReadyIs DEF TypeOK
<1> HIDE DEF s
<1>10. \/ a.reply = "broken" /\ Dropped(session.durable)
       \/ a.reply = "error" /\ Heard(Failed(s))
       \/ /\ a.reply = "ok" /\ open /\ open' /\ session'.copy
          /\ session'.block = s.block
          /\ session'.levels = session.levels
          /\ session'.durable = session.durable
  BY <1>1, HearCopy DEF s
<1>11. /\ Quiet \/ Dropped(session.durable)
       /\ a.reply = "ok" => session'.copy
  BY <1>3, <1>9, <1>10, FailedQuiet DEF Quiet
<1>12. \A u \in Tx : /\ tx'[u].focus \/ tx'[u].pending => c # << >> /\ u = c[Len(c)]
                     /\ tx'[u].focus => session'.copy \/ session'.block # "open"
                     /\ tx'[u].pending => session'.block # "open"
  BY <1>4, <1>8, <1>11
<1> QED
  BY <1>3, <1>7, <1>11, <1>12, DroppedKeeps

LEMMA CloseStreamOrders ==
  ASSUME Disciplined, TypeOK, SlotIsAlive, TypeOK', SlotIsAlive', Past,
         NEW c \in Seq(Tx), NEW p \in Seq(Nat), Nested(c, p),
         NEW t \in Tx, CloseStream(t)
  PROVE  OrderInv'
<1> DEFINE w == NewWrite(t)
<1>1. PICK a \in Over(open, session, EndCopyCmd(session, w)),
           destructor \in BOOLEAN :
         /\ Receive(a) /\ Told(w, a)
         /\ tx' = [tx EXCEPT ![t].focus = FALSE, ![t].writes = @ + 1,
                             ![t].pending = @ \/ (destructor /\ a.reply # "ok")]
  BY DEF CloseStream
<1> DEFINE pending == tx[t].pending \/ (destructor /\ a.reply # "ok")
           o == [tx[t] EXCEPT !.focus = FALSE, !.writes = @ + 1, !.pending = pending]
<1>2. Nest(c) /\ Block(c)
  BY DEF Nested
<1>3. /\ tx[t].focus /\ slot' = slot /\ tx[t].life # "none"
      /\ tx[t].writes < MaxWrites
  BY DEF CloseStream, Alive
<1>4. c # << >> /\ t = c[Len(c)] /\ \A u \in Tx : tx[u].focus \/ tx[u].pending => u = t
  BY <1>2, <1>3 DEF Nest
<1>5. w \in Write /\ w.by = t
  BY <1>3, NewWriteTyped DEF NewWrite
<1>6. a \in Answer
  BY <1>5, EndCopyTyped, OverTyped DEF TypeOK
<1>7. tx[t] \in Object /\ tx' = [tx EXCEPT ![t] = o]
  BY <1>1 DEF TypeOK
<1>8. /\ o.parent = tx[t].parent /\ o.root = tx[t].root /\ o.status = tx[t].status
      /\ o.life = tx[t].life /\ o.registered = tx[t].registered
      /\ o.focus = FALSE /\ o.pending = pending
  BY <1>7 DEF Object
<1> HIDE DEF o
<1>9. Calm /\ tx'[t] = o /\ \A u \in Tx : u # t => tx'[u] = tx[u]
  BY <1>3, <1>7, <1>8, OneCalm
<1>10. ASSUME NEW u \in Tx, tx'[u].focus \/ tx'[u].pending
       PROVE  u = t /\ ~tx'[u].focus /\ (tx[t].pending \/ a.reply # "ok")
  BY <1>4, <1>8, <1>9, <1>10
<1> HIDE DEF w, pending
<1>11. session \in Session
  BY DEF TypeOK
<1>12. \/ a.reply = "broken" /\ Dropped(session.durable)
       \/ /\ a.reply = "broken" /\ open /\ session.block = "none"
          /\ Dropped(session.durable \cup {w})
       \/ a.reply = "error" /\ session.copy /\ Heard(Failed(session))
       \/ a.reply = "error" /\ ~session.copy /\ Heard(session)
       \/ a.reply = "ok" /\ session.copy /\ Heard(Written(session, w))
  BY <1>1, <1>5, HearEndCopy
<1>13. a.reply # "ok" => done' = done
  BY <1>1 DEF Told
<1>14. tx[t].pending => session.block # "open"
  BY <1>2 DEF Block
<1>15. /\ Quiet \/ Lone(w) \/ Wrote(w)
       /\ tx[t].pending \/ a.reply # "ok" => session'.block # "open"
  <2>1. CASE a.reply = "broken" /\ Dropped(session.durable)
    BY <1>5, <1>13, <2>1, DroppedLone DEF Dropped
  <2>2. CASE open /\ session.block = "none"
    BY <1>2, <1>4, <2>2 DEF Block
  <2>3. CASE a.reply = "error" /\ Heard(Failed(session))
    BY <1>11, <1>13, <2>3, FailedQuiet
  <2>4. CASE a.reply = "error" /\ ~session.copy /\ Heard(session)
    <3>1. session.block # "open"
      BY <1>2, <1>3, <2>4 DEF Block
    <3> QED
      BY <1>13, <2>4, <3>1 DEF Heard, Quiet
  <2>5. CASE a.reply = "ok" /\ Heard(Written(session, w))
    BY <1>1, <1>5, <1>6, <1>11, <1>14, <2>5, WrittenWrote
  <2> QED
    BY <1>12, <2>1, <2>2, <2>3, <2>4, <2>5
<1>16. \A u \in Tx : /\ tx'[u].focus \/ tx'[u].pending => c # << >> /\ u = c[Len(c)]
                     /\ tx'[u].focus => session'.copy \/ session'.block # "open"
                     /\ tx'[u].pending => session'.block # "open"
  BY <1>4, <1>10, <1>15
<1> QED
  BY <1>3, <1>4, <1>5, <1>9, <1>15, <1>16, CalmKeeps

(* A constructor that threw, or connection::close. *)
LEMMA NothingOrders ==
  ASSUME TypeOK, SlotIsAlive, TypeOK', SlotIsAlive', Past,
         NEW c \in Seq(Tx), NEW p \in Seq(Nat), Nested(c, p),
         UNCHANGED <<tx, slot, done>>,
         \/ Dropped(session.durable)
         \/ /\ Quiet /\ session'.block # "open"
         \/ UNCHANGED <<open, session>>
  PROVE  OrderInv'
<1>1. Nest(c) /\ Block(c)
  BY DEF Nested
<1>2. \A u \in Tx : tx'[u] = tx[u]
  OBVIOUS
<1>3. Calm
  BY <1>2 DEF Calm
<1>4. \A u \in Tx : /\ tx'[u].focus \/ tx'[u].pending => c # << >> /\ u = c[Len(c)]
                    /\ tx'[u].focus => session'.copy \/ session'.block # "open"
                    /\ tx'[u].pending => session'.block # "open"
  BY <1>1, <1>2 DEF Nest, Block, Dropped
<1>5. UNCHANGED <<open, session>> => Quiet
  BY DEF Quiet
<1> QED
  BY <1>3, <1>4, <1>5, DroppedKeeps

LEMMA DestroyEndedOrders ==
  ASSUME TypeOK, SlotIsAlive, TypeOK', SlotIsAlive', Past,
         NEW c \in Seq(Tx), NEW p \in Seq(Nat), Nested(c, p),
         NEW t \in Tx, Destroy(t), tx[t].status # "active"
  PROVE  OrderInv'
<1> DEFINE o == [tx[t] EXCEPT !.life = "gone", !.pending = FALSE,
                              !.registered = FALSE,
                              !.status = IF @ = "active" THEN "aborted" ELSE @]
<1>1. Nest(c) /\ Block(c)
  BY DEF Nested
<1>2. /\ tx[t] \in Object /\ tx' = [tx EXCEPT ![t] = o]
      /\ Unregister(t) /\ tx[t].life = "alive"
      /\ UNCHANGED <<open, session, done>>
  BY DEF Destroy, StillRegistered, Alive, TypeOK
<1>3. /\ o.parent = tx[t].parent /\ o.root = tx[t].root /\ o.status = tx[t].status
      /\ o.life = "gone" /\ o.registered = FALSE
      /\ o.focus = tx[t].focus /\ o.pending = FALSE
  BY <1>2 DEF Object
<1> HIDE DEF o
<1>4. Calm /\ tx'[t] = o /\ \A u \in Tx : u # t => tx'[u] = tx[u]
  BY <1>2, <1>3, OneCalm
<1>5. slot' = slot \/ c = << >>
  <2>1. ASSUME c # << >>, tx[t].registered
        PROVE  FALSE
    <3>1. slot = t
      BY <2>1 DEF SlotIsAlive
    <3> QED
      BY <1>1, <2>1, <3>1, SlotActive DEF Act
  <2> QED
    BY <1>2, <2>1 DEF Unregister
<1>6. \A u \in Tx : /\ tx'[u].focus \/ tx'[u].pending => c # << >> /\ u = c[Len(c)]
                    /\ tx'[u].focus => session'.copy \/ session'.block # "open"
                    /\ tx'[u].pending => session'.block # "open"
  BY <1>1, <1>2, <1>3, <1>4 DEF Nest, Block
<1>7. Quiet
  BY <1>2 DEF Quiet
<1> QED
  BY <1>4, <1>5, <1>6, <1>7, CalmKeeps
-----------------------------------------------------------------------------
(* Calls that begin a transaction. *)

(* A new object: what there is of others stays, and nothing is his.          *)
LEMMA NewPast ==
  ASSUME TypeOK, Past, NEW t \in Tx, tx[t].life = "none", NEW o,
         tx' = [tx EXCEPT ![t] = o], done' = done,
         session'.durable = session.durable,
         o.life = "alive", o.status = "active", o.root \in Tx,
         \/ o.parent = NoTx /\ o.root = t
         \/ /\ o.parent # NoTx /\ ~o.registered
            /\ tx[o.root].life # "none" /\ ~IsSub(o.root)
  PROVE  /\ Past'
         /\ tx'[t] = o /\ \A u \in Tx \ {t} : tx'[u] = tx[u]
         /\ \A w \in done : w.by # t
         /\ \A u \in Tx : tx[u].life # "none" => tx[u].root \in Tx \ {t}
<1>1. tx'[t] = o /\ \A u \in Tx \ {t} : tx'[u] = tx[u]
  BY DEF TypeOK
<1>2. Kin
  BY DEF Past
<1>3. \A u \in Tx : tx[u].life # "none" =>
        /\ u # t /\ tx[u].root \in Tx \ {t} /\ tx[tx[u].root].life # "none"
        /\ tx[tx[u].root].parent = NoTx
        /\ tx[u].parent = NoTx => tx[u].root = u
  BY <1>2 DEF Kin, KinOf, IsSub
<1>4. \A w \in done \cup session.durable : ~w.late => w.by \in Tx \ {t}
  <2>1. \A w \in done \cup session.durable : ~w.late => tx[w.by].life # "none"
    BY DEF Past, History
  <2> QED
    BY <2>1, WriteIs
<1>5. \A w \in done : w.by # t
  BY <1>4 DEF Past, History
<1>6. ASSUME NEW u \in Tx
      PROVE  KinOf(u)'
  <2>1. CASE u = t
    <3>1. /\ tx'[u].life = "alive" /\ tx'[u].status = "active"
          /\ tx'[u].root \in Tx
          /\ tx'[tx'[u].root].life # "none" /\ tx'[tx'[u].root].parent = NoTx
          /\ tx'[u].parent = NoTx => tx'[u].root = u
          /\ tx'[u].parent # NoTx => ~tx'[u].registered
      BY <1>1, <2>1 DEF IsSub
    <3> QED
      BY <3>1 DEF KinOf, IsSub
  <2>2. CASE u # t
    <3>1. KinOf(u) /\ tx'[u] = tx[u]
      BY <1>1, <1>2, <2>2 DEF Kin
    <3>2. tx[u].life # "none" =>
            /\ tx'[u].root \in Tx
            /\ tx'[tx'[u].root].life # "none" /\ tx'[tx'[u].root].parent = NoTx
            /\ tx'[u].parent = NoTx => tx'[u].root = u
      BY <1>1, <1>3, <3>1
    <3> QED
      BY <3>1, <3>2 DEF KinOf, IsSub
  <2> QED
    BY <2>1, <2>2
<1>7. Kin'
  BY <1>6 DEF Kin
<1>8. History'
  BY <1>1, <1>4 DEF History, Past
<1>9. DurableWasCommitted'
  <2>1. ASSUME NEW w \in session.durable, ~w.late
        PROVE  /\ tx'[tx'[w.by].root].status \in {"committed", "in_doubt"}
               /\ tx'[w.by].parent # NoTx => tx'[w.by].status = "committed"
    <3>1. w.by \in Tx \ {t} /\ tx[w.by].life # "none"
      BY <1>4, <2>1 DEF Past, History
    <3>2. tx[w.by].root \in Tx \ {t}
      BY <1>3, <3>1
    <3> QED
      BY <1>1, <2>1, <3>1, <3>2, NoneIsDurable DEF IsSub
  <2> QED
    BY <2>1 DEF DurableWasCommitted, IsSub
<1>10. AllOrNothing'
  BY DEF AllOrNothing, Past
<1>11. Past'
  BY <1>7, <1>8, <1>9, <1>10 DEF Past
<1> QED
  BY <1>1, <1>3, <1>5, <1>11

LEMMA ConstructOrders ==
  ASSUME Disciplined, TypeOK, SlotIsAlive, TypeOK', SlotIsAlive', Past,
         NEW c \in Seq(Tx), NEW p \in Seq(Nat), Nested(c, p),
         NEW t \in Tx, Construct(t)
  PROVE  OrderInv'
<1> DEFINE o == [tx[t] EXCEPT !.life = "alive", !.root = t, !.registered = TRUE]
           s == Ready(session)
<1>1. PICK a \in Answers(BeginCmd) :
         /\ Receive(a)
         /\ \/ a.reply = "ok" /\ tx' = [tx EXCEPT ![t] = o] /\ slot' = t
            \/ a.reply # "ok" /\ UNCHANGED <<tx, slot>>
  BY DEF Construct, TypeOK
<1>2. Nest(c) /\ Block(c) /\ tx[t].life = "none" /\ done' = done
  BY DEF Nested, Construct
<1>3. c = << >>
  BY <1>2, SlotActive, SessionAssumption DEF Construct
<1>4. session.block # "open"
  BY <1>2, <1>3 DEF Block
<1>5. tx[t] = Absent /\ tx[t] \in Object
  BY <1>2 DEF Past, Kin, KinOf, TypeOK
<1>6. /\ o.life = "alive" /\ o.status = "active" /\ o.parent = NoTx
      /\ o.root = t /\ ~o.focus /\ ~o.pending
  BY <1>5 DEF Object, Absent
<1>7. \/ a.reply = "broken" /\ Dropped(session.durable)
      \/ a.reply = "error" /\ Heard(Ready(session))
      \/ /\ a.reply = "ok" /\ open /\ open' /\ session.block = "none"
         /\ session'.block = "open" /\ session'.durable = session.durable
         /\ session'.levels = <<[savepoint |-> NoTx, writes |-> {}]>>
  BY <1>1, <1>4, HearBegin
<1> HIDE DEF o
<1>8. CASE UNCHANGED <<tx, slot>> /\ Dropped(session.durable)
  BY <1>2, <1>8, NothingOrders
<1>9. CASE UNCHANGED <<tx, slot>> /\ Heard(Ready(session))
  <2>1. Quiet /\ session'.block # "open"
    BY <1>2, <1>4, <1>9, ReadyIs DEF Heard, Quiet, TypeOK
  <2> QED
    BY <1>2, <1>9, <2>1, NothingOrders
<1>10. ASSUME tx' = [tx EXCEPT ![t] = o], slot' = t, open', session'.block = "open",
              session'.durable = session.durable,
              session'.levels = <<[savepoint |-> NoTx, writes |-> {}]>>
       PROVE  OrderInv'
  <2>1. /\ Past'
        /\ tx'[t] = o /\ \A u \in Tx \ {t} : tx'[u] = tx[u]
        /\ \A w \in done : w.by # t
        /\ \A u \in Tx : tx[u].life # "none" => tx[u].root \in Tx \ {t}
    BY <1>2, <1>6, <1>10, NewPast
  <2> DEFINE cc == <<t>>
             pp == <<1>>
             level == [savepoint |-> NoTx, writes |-> {}]
  <2>2. /\ cc \in Seq(Tx) /\ DOMAIN cc = {1} /\ cc[1] = t /\ Len(cc) = 1
        /\ pp \in Seq(Nat) /\ DOMAIN pp = {1} /\ pp[1] = 1 /\ Len(pp) = 1
        /\ cc # << >>
    OBVIOUS
  <2>3. /\ DOMAIN session'.levels = {1} /\ session'.levels # << >>
        /\ session'.levels[1].savepoint = NoTx /\ session'.levels[1].writes = {}
    BY <1>10
  <2> HIDE DEF cc, pp
  <2>4. Nest(cc)'
    <3>1. \A u \in Tx : Act(u)' <=> u = t
      BY <1>2, <1>3, <1>6, <2>1 DEF Act, Alive, Nest
    <3>2. \A u \in Tx : ~tx'[u].focus /\ ~tx'[u].pending
      BY <1>2, <1>3, <1>6, <2>1 DEF Nest
    <3>3. tx'[t].root = slot' /\ slot' = t
      BY <1>6, <1>10, <2>1
    <3> QED
      BY <2>2, <3>1, <3>2, <3>3 DEF Nest
  <2>5. Block(cc)'
    <3>1. \A u \in Tx : ~tx'[u].focus /\ ~tx'[u].pending
      BY <1>2, <1>3, <1>6, <2>1 DEF Nest
    <3> QED
      BY <1>10, <2>2, <2>3, <3>1 DEF Block
  <2>6. Levels(cc, pp)'
    <3>1. Places(cc, pp)'
      BY <2>2, <2>3 DEF Places
    <3>2. \A j \in DOMAIN session'.levels : session'.levels[j].writes = {}
      BY <2>3
    <3>3. \A i \in DOMAIN cc : Series(cc[i])' = {}
      BY <1>2, <2>1, <2>2 DEF Series
    <3>4. ASSUME NEW u \in Tx, tx'[u].root = slot', tx'[u].status = "committed"
          PROVE  FALSE
      <4>1. CASE u = t
        BY <1>6, <2>1, <3>4, <4>1
      <4>2. CASE u # t
        <5>1. tx[u].root = t
          BY <1>10, <2>1, <3>4, <4>2
        <5>2. tx[u].life # "none"
          BY <1>5, <5>1, SessionAssumption DEF Past, Kin, KinOf, Absent
        <5> QED
          BY <2>1, <5>1, <5>2
      <4> QED
        BY <4>1, <4>2
    <3> QED
      BY <3>1, <3>2, <3>3, <3>4 DEF Levels
  <2>7. Nested(cc, pp)'
    BY <2>4, <2>5, <2>6 DEF Nested
  <2> QED
    BY <2>1, <2>2, <2>7 DEF OrderInv
<1> QED
  BY <1>1, <1>7, <1>8, <1>9, <1>10
LEMMA ConstructSubOrders ==
  ASSUME Disciplined, TypeOK, SlotIsAlive, TypeOK', SlotIsAlive', Past,
         NEW c \in Seq(Tx), NEW p \in Seq(Nat), Nested(c, p),
         NEW t \in Tx, NEW parent \in Tx, ConstructSub(t, parent)
  PROVE  OrderInv'
<1> DEFINE o == [tx[t] EXCEPT !.life = "alive", !.parent = parent,
                              !.root = tx[parent].root]
           s == Ready(session)
           level == [savepoint |-> t, writes |-> {}]
<1>1. PICK a \in Answers(LAMBDA r : SavepointCmd(r, t)) :
         /\ Receive(a)
         /\ \/ a.reply = "ok" /\ tx' = [tx EXCEPT ![t] = o]
            \/ a.reply # "ok" /\ UNCHANGED tx
  BY DEF ConstructSub, TypeOK
<1>2. /\ Nest(c) /\ Block(c) /\ tx[t].life = "none"
      /\ done' = done /\ slot' = slot
  BY DEF Nested, ConstructSub
<1>3. /\ Usable(parent) /\ Act(parent) /\ c # << >> /\ parent = c[Len(c)]
  BY <1>2, Innermost DEF ConstructSub, Usable, Act
<1>4. /\ slot = c[1] /\ slot \in Tx /\ 1 \in DOMAIN c /\ Act(slot)
      /\ Len(c) \in DOMAIN c /\ tx[parent].root = slot
  BY <1>2, <1>3, SlotActive
<1>5. /\ tx[t] = Absent /\ tx[t] \in Object /\ ~IsSub(slot)
  <2>1. KinOf(t) /\ KinOf(slot)
    BY <1>4 DEF Past, Kin
  <2> QED
    BY <1>2, <1>4, <2>1 DEF KinOf, TypeOK, SlotIsAlive
<1>6. /\ o.life = "alive" /\ o.status = "active" /\ o.parent = parent
      /\ o.root = slot /\ ~o.focus /\ ~o.pending /\ ~o.registered
  BY <1>4, <1>5 DEF Object, Absent
<1>7. /\ s \in Session /\ s.levels = session.levels /\ s.durable = session.durable
      /\ s.block = "none" <=> session.block = "none"
      /\ s.block = "open" => session.block = "open"
      /\ s.block = "open" => ~session.copy
  BY ReadyTyped, ReadyIs DEF TypeOK
<1>8. \/ a.reply = "broken" /\ Dropped(session.durable)
      \/ a.reply = "error" /\ Heard(Failed(s))
      \/ /\ a.reply = "ok" /\ open /\ open' /\ s.block = "open"
         /\ session'.block = "open" /\ session'.durable = session.durable
         /\ session'.levels = Append(session.levels, level)
  BY <1>1, HearSavepoint
<1> HIDE DEF o, s, level
<1>9. CASE UNCHANGED tx /\ Dropped(session.durable)
  BY <1>2, <1>9, NothingOrders
<1>10. CASE UNCHANGED tx /\ Heard(Failed(s))
  BY <1>2, <1>7, <1>10, FailedQuiet, NothingOrders
<1>11. ASSUME tx' = [tx EXCEPT ![t] = o], open', session.block = "open", ~session.copy,
              session'.block = "open", session'.durable = session.durable,
              session'.levels = Append(session.levels, level)
       PROVE  OrderInv'
  <2>1. o.parent # NoTx /\ tx[o.root].life # "none" /\ ~IsSub(o.root)
    BY <1>4, <1>5, <1>6, SessionAssumption DEF Act, Alive, IsSub
  <2>2. /\ Past'
        /\ tx'[t] = o /\ \A u \in Tx \ {t} : tx'[u] = tx[u]
        /\ \A w \in done : w.by # t
        /\ \A u \in Tx : tx[u].life # "none" => tx[u].root \in Tx \ {t}
    <3>1. o.root \in Tx
      BY <1>4, <1>6
    <3> QED
      BY <1>2, <1>6, <1>11, <2>1, <3>1, NewPast
  <2>3. Levels(c, p) /\ Places(c, p)
    BY <1>3, <1>11 DEF Nested, Levels
  <2>4. session.levels \in Seq(Level) /\ Len(session.levels) \in Nat
    BY SessionIs DEF TypeOK
  <2>5. PICK n \in Nat : n = Len(session.levels) + 1
    BY <2>4
  <2> DEFINE cc == Append(c, t)
             pp == Append(p, n)
  <2>6. Len(p) = Len(c) /\ Len(c) \in Nat /\ Len(c) >= 1 /\ DOMAIN p = DOMAIN c
    BY <1>4, <2>3 DEF Places
  <2>7. /\ \A i, j \in DOMAIN c : i < j => p[i] < p[j]
        /\ \A i \in DOMAIN c : i > 1 => session.levels[p[i]].savepoint = c[i]
    BY <2>3, <2>6 DEF Places
  <2>8. /\ cc \in Seq(Tx) /\ Len(cc) = Len(c) + 1 /\ cc # << >>
        /\ cc[Len(c) + 1] = t /\ \A i \in DOMAIN c : cc[i] = c[i]
        /\ DOMAIN cc = DOMAIN c \cup {Len(c) + 1}
        /\ Len(c) + 1 \notin DOMAIN c
    OBVIOUS
  <2>9. /\ pp \in Seq(Nat) /\ Len(pp) = Len(c) + 1
        /\ pp[Len(c) + 1] = n /\ \A i \in DOMAIN c : pp[i] = p[i]
        /\ DOMAIN pp = DOMAIN c \cup {Len(c) + 1}
    BY <2>5, <2>6
  <2>10. /\ DOMAIN session'.levels = DOMAIN session.levels \cup {n}
         /\ n \notin DOMAIN session.levels
         /\ \A j \in DOMAIN session.levels : session'.levels[j] = session.levels[j]
         /\ session'.levels[n].savepoint = t /\ session'.levels[n].writes = {}
         /\ session'.levels # << >>
    <3>1. level.savepoint = t /\ level.writes = {} /\ level \in Level
      BY DEF level, Level
    <3>2. /\ Len(session'.levels) = n
          /\ DOMAIN session'.levels = 1 .. n /\ session'.levels[n] = level
          /\ \A j \in DOMAIN session.levels : session'.levels[j] = session.levels[j]
      BY <1>11, <2>5, <2>4, <3>1
    <3>3. DOMAIN session.levels = 1 .. Len(session.levels) /\ Len(session.levels) \in Nat
      BY <2>4
    <3>4. 1 .. n = (1 .. Len(session.levels)) \cup {n} /\ n \notin 1 .. Len(session.levels)
      BY <2>5, <2>4
    <3>5. n \in DOMAIN session'.levels
      BY <3>2, <3>4
    <3> QED
      BY <3>1, <3>2, <3>3, <3>4, <3>5
  <2> HIDE DEF cc, pp
  <2>11. \A i \in DOMAIN c : c[i] # t /\ c[i] \in Tx /\ tx'[c[i]] = tx[c[i]]
    BY <1>2, <2>2 DEF Nest, Act, Alive
  <2>12. \A i \in DOMAIN c : /\ p[i] \in Nat /\ p[i] < n
                             /\ p[i] \in DOMAIN session.levels
    <3>1. \A i \in DOMAIN c : p[i] \in DOMAIN session.levels
      BY <2>3, <2>6 DEF Places
    <3> QED
      BY <2>5, <2>4, <3>1
  <2>13. \A u \in Tx : ~tx'[u].focus /\ ~tx'[u].pending
    <3>1. \A u \in Tx : ~tx[u].focus /\ ~tx[u].pending
      BY <1>2, <1>11 DEF Block
    <3> QED
      BY <1>6, <2>2, <3>1
  <2>14. Nest(cc)'
    <3>1. \A i, j \in DOMAIN cc : cc[i] = cc[j] => i = j
      <4>1. \A i, j \in DOMAIN c : c[i] = c[j] => i = j
        BY <1>2 DEF Nest
      <4> QED
        BY <2>8, <2>11, <4>1
    <3>2. \A u \in Tx : Act(u)' <=> \E i \in DOMAIN cc : cc[i] = u
      <4>1. Act(t)' /\ \A u \in Tx \ {t} : Act(u)' <=> Act(u)
        BY <1>6, <2>2 DEF Act, Alive
      <4>2. \A u \in Tx : Act(u) <=> \E i \in DOMAIN c : c[i] = u
        BY <1>2 DEF Nest
      <4> QED
        BY <2>8, <4>1, <4>2
    <3>3. cc[1] = slot'
      BY <1>2, <1>4, <2>8
    <3>4. ASSUME NEW i \in DOMAIN cc
          PROVE  tx'[cc[i]].root = slot' /\ (i > 1 => tx'[cc[i]].parent = cc[i - 1])
      <4>1. CASE i \in DOMAIN c
        <5>1. cc[i] = c[i] /\ tx'[c[i]] = tx[c[i]]
          BY <2>8, <2>11, <4>1
        <5>2. i > 1 => i - 1 \in DOMAIN c /\ cc[i - 1] = c[i - 1]
          BY <2>8, <4>1
        <5> QED
          BY <1>2, <4>1, <5>1, <5>2 DEF Nest
      <4>2. CASE i = Len(c) + 1
        <5>1. cc[i] = t /\ cc[i - 1] = parent
          BY <1>3, <1>4, <2>8, <4>2
        <5> QED
          BY <1>2, <1>6, <2>2, <5>1
      <4> QED
        BY <2>8, <4>1, <4>2
    <3> QED
      BY <2>13, <3>1, <3>2, <3>3, <3>4 DEF Nest
  <2>15. Block(cc)'
    <3>1. \A i \in DOMAIN session.levels :
            /\ session.levels[i].savepoint \in Tx \cup {NoTx}
            /\ session.levels[i].savepoint # NoTx =>
                 tx[session.levels[i].savepoint].life # "none"
      BY <1>2, SessionIs DEF Block, TypeOK
    <3>2. \A i \in DOMAIN session.levels : session.levels[i].savepoint # t
      BY <1>2, <3>1, SessionAssumption
    <3>3. \A i, j \in DOMAIN session.levels :
            session.levels[i].savepoint = session.levels[j].savepoint => i = j
      BY <1>2 DEF Block
    <3>4. \A i, j \in DOMAIN session'.levels :
            session'.levels[i].savepoint = session'.levels[j].savepoint => i = j
      BY <2>10, <3>2, <3>3
    <3>5. \A i \in DOMAIN session'.levels :
            session'.levels[i].savepoint # NoTx =>
              tx'[session'.levels[i].savepoint].life # "none"
      BY <1>6, <2>2, <2>10, <3>1, <3>2
    <3> QED
      BY <1>11, <2>8, <2>10, <2>13, <3>4, <3>5 DEF Block
  <2>16. Places(cc, pp)'
    <3>1. pp[1] = 1
      BY <1>4, <2>3, <2>9 DEF Places
    <3>2. \A i \in DOMAIN pp : pp[i] \in DOMAIN session'.levels
      BY <2>9, <2>10, <2>12
    <3>3. ASSUME NEW i \in DOMAIN pp, NEW j \in DOMAIN pp, i < j
          PROVE  pp[i] < pp[j]
      <4>1. i \in DOMAIN c
        BY <2>6, <2>9, <3>3
      <4>2. CASE j \in DOMAIN c
        BY <2>9, <2>7, <3>3, <4>1, <4>2
      <4>3. CASE j = Len(c) + 1
        BY <2>9, <2>12, <4>1, <4>3
      <4> QED
        BY <2>9, <4>2, <4>3
    <3>4. ASSUME NEW i \in DOMAIN pp, i > 1
          PROVE  session'.levels[pp[i]].savepoint = cc[i]
      <4>1. CASE i \in DOMAIN c
        BY <2>8, <2>9, <2>10, <2>12, <2>7, <3>4, <4>1, SMTT(30)
      <4>2. CASE i = Len(c) + 1
        BY <2>8, <2>9, <2>10, <4>2
      <4> QED
        BY <2>9, <4>1, <4>2
    <3>5. Len(pp) = Len(cc)
      BY <2>8, <2>9
    <3> QED
      BY <3>1, <3>2, <3>3, <3>4, <3>5 DEF Places
  <2>17. ASSUME NEW j \in DOMAIN session'.levels,
                NEW w \in session'.levels[j].writes, ~w.late
         PROVE  /\ j \in DOMAIN session.levels /\ w \in session.levels[j].writes
                /\ w.by \in Tx \ {t} /\ tx'[w.by] = tx[w.by]
                /\ Placed(c, p, j, w)
    <3>1. j \in DOMAIN session.levels /\ w \in session.levels[j].writes
      BY <2>10, <2>17
    <3>2. Placed(c, p, j, w) /\ w.by \in Tx
      BY <2>3, <2>17, <3>1, WriteIs DEF Levels, InBlock
    <3>3. w.by # t
      BY <1>4, <1>5, <3>2, SessionAssumption DEF Placed, Absent
    <3> QED
      BY <2>2, <3>1, <3>2, <3>3
  <2>18. ASSUME NEW j \in DOMAIN session'.levels,
                NEW w \in session'.levels[j].writes, ~w.late
         PROVE  Placed(cc, pp, j, w)'
    <3>1. /\ j \in DOMAIN session.levels /\ w.by \in Tx \ {t}
          /\ tx'[w.by] = tx[w.by] /\ Placed(c, p, j, w)
      BY <2>17, <2>18
    <3>2. ASSUME NEW i \in DOMAIN cc, w.by = cc[i]
          PROVE  pp[i] <= j /\ (i < Len(cc) => j < pp[i + 1])
      <4>1. i \in DOMAIN c /\ c[i] = w.by
        BY <2>8, <3>1, <3>2
      <4>2. p[i] <= j /\ (i < Len(c) => j < p[i + 1])
        BY <3>1, <4>1 DEF Placed
      <4>3. i < Len(c) => pp[i + 1] = p[i + 1]
        BY <2>9, <4>1
      <4>4. ~(i < Len(c)) => pp[i + 1] = n
        BY <2>9, <4>1
      <4>5. j < n /\ pp[i] = p[i]
        BY <2>5, <2>9, <2>4, <3>1, <4>1
      <4> QED
        BY <4>2, <4>3, <4>4, <4>5
    <3>3. ~(IsSub(w.by)' /\ tx'[w.by].status = "aborted")
      BY <1>11, <3>1 DEF Placed, IsSub
    <3>4. tx'[w.by].root = slot'
      BY <1>2, <3>1 DEF Placed
    <3> QED
      BY <3>2, <3>3, <3>4 DEF Placed, IsSub
  <2>19. ASSUME NEW i \in DOMAIN session'.levels, NEW j \in DOMAIN session'.levels,
                NEW v \in session'.levels[i].writes, NEW w \in session'.levels[j].writes,
                ~v.late, ~w.late, v.by = w.by, tx'[v.by].status = "committed"
         PROVE  i = j
    <3>1. /\ i \in DOMAIN session.levels /\ v \in session.levels[i].writes
          /\ j \in DOMAIN session.levels /\ w \in session.levels[j].writes
          /\ tx[v.by].status = "committed"
      BY <2>17, <2>19
    <3> QED
      BY <2>3, <2>19, <3>1 DEF Levels
  <2>20. InBlock(session)' = InBlock(session)
    <3>1. ASSUME NEW w
          PROVE  w \in InBlock(session)' <=> w \in InBlock(session)
      <4>1. w \in InBlock(session)' <=>
              \E j \in DOMAIN session'.levels : w \in session'.levels[j].writes
        BY DEF InBlock
      <4>2. w \in InBlock(session) <=>
              \E j \in DOMAIN session.levels : w \in session.levels[j].writes
        BY DEF InBlock
      <4> QED
        BY <2>10, <4>1, <4>2
    <3> QED
      BY <3>1
  <2>21. \A u \in Tx : Series(u)' = Series(u)
    BY <1>2 DEF Series
  <2>22. \A i \in DOMAIN cc : Series(cc[i])' \subseteq InBlock(session)'
    <3>1. Series(t) = {}
      BY <2>2 DEF Series
    <3>2. \A i \in DOMAIN c : Series(c[i]) \subseteq InBlock(session)
      BY <2>3 DEF Levels
    <3> QED
      BY <2>8, <2>11, <2>20, <2>21, <3>1, <3>2
  <2>23. ASSUME NEW u \in Tx, tx'[u].root = slot', tx'[u].status = "committed"
         PROVE  \/ Series(u)' \subseteq InBlock(session)'
                \/ Series(u)' \cap InBlock(session)' = {}
    <3>1. u # t
      BY <1>6, <2>2, <2>23
    <3>2. tx[u].root = slot /\ tx[u].status = "committed"
      BY <1>2, <2>2, <2>23, <3>1
    <3> QED
      BY <2>3, <2>20, <2>21, <3>2 DEF Levels
  <2>24. Levels(cc, pp)'
    BY <2>16, <2>18, <2>19, <2>22, <2>23 DEF Levels
  <2>25. Nested(cc, pp)'
    BY <2>14, <2>15, <2>24 DEF Nested
  <2> QED
    BY <2>2, <2>8, <2>9, <2>25 DEF OrderInv
<1> QED
  BY <1>1, <1>7, <1>8, <1>9, <1>10, <1>11
-----------------------------------------------------------------------------
(* Calls that end a transaction. *)

(* What becomes of the innermost object. *)
Ended(t, o) ==
  /\ tx' = [tx EXCEPT ![t] = o] /\ done' = done
  /\ o.parent = tx[t].parent /\ o.root = tx[t].root
  /\ o.life \in {"alive", "gone"}
  /\ o.status \in {"aborted", "committed", "in_doubt"}
  /\ IsSub(t) => o.status # "in_doubt"
  /\ o.registered => tx[t].registered
  /\ ~o.focus /\ ~o.pending

LEMMA EndedIs ==
  ASSUME TypeOK, Past, NEW t \in Tx, Act(t), NEW o, Ended(t, o)
  PROVE  /\ tx'[t] = o /\ \A u \in Tx \ {t} : tx'[u] = tx[u]
         /\ \A u \in Tx : /\ tx'[u].parent = tx[u].parent /\ tx'[u].root = tx[u].root
                          /\ tx'[u].life # "none" <=> tx[u].life # "none"
                          /\ Act(u)' <=> Act(u) /\ u # t
         /\ Kin'
<1>1. tx'[t] = o /\ \A u \in Tx \ {t} : tx'[u] = tx[u]
  BY DEF TypeOK, Ended
<1>2. \A u \in Tx : /\ tx'[u].parent = tx[u].parent /\ tx'[u].root = tx[u].root
                    /\ tx'[u].life # "none" <=> tx[u].life # "none"
                    /\ Act(u)' <=> Act(u) /\ u # t
  BY <1>1 DEF Ended, Act, Alive
<1>3. ASSUME NEW u \in Tx
      PROVE  KinOf(u)'
  <2>1. KinOf(u)
    BY DEF Past, Kin
  <2>2. tx'[u].life # "none" =>
          /\ tx'[u].root \in Tx
          /\ tx'[tx'[u].root].life # "none" /\ tx'[tx'[u].root].parent = NoTx
          /\ tx'[u].parent = NoTx => tx'[u].root = u
    BY <1>2, <2>1 DEF KinOf, IsSub
  <2>3. /\ tx'[u].life = "none" => tx'[u] = Absent
        /\ tx'[u].life = "gone" => tx'[u].status # "active"
        /\ tx'[u].parent # NoTx => ~tx'[u].registered /\ tx'[u].status # "in_doubt"
    BY <1>1, <2>1 DEF KinOf, IsSub, Ended
  <2> QED
    BY <2>2, <2>3 DEF KinOf, IsSub
<1> QED
  BY <1>1, <1>2, <1>3 DEF Kin

(* The object that ends had nothing durable.                                 *)
LEMMA EndedPast ==
  ASSUME TypeOK, Past, NEW t \in Tx, Act(t), NEW o, Ended(t, o),
         session'.durable = session.durable
  PROVE  Past'
<1>1. /\ tx'[t] = o /\ \A u \in Tx \ {t} : tx'[u] = tx[u]
      /\ \A u \in Tx : /\ tx'[u].parent = tx[u].parent /\ tx'[u].root = tx[u].root
                       /\ tx'[u].life # "none" <=> tx[u].life # "none"
      /\ Kin' /\ done' = done
  BY EndedIs, ZenonT(60) DEF Ended
<1>2. History'
  BY <1>1, WriteIs DEF History, Past
<1>3. ASSUME NEW w \in session.durable, ~w.late
      PROVE  /\ tx'[tx'[w.by].root].status \in {"committed", "in_doubt"}
             /\ tx'[w.by].parent # NoTx => tx'[w.by].status = "committed"
  BY <1>1, <1>3, NoneIsDurable DEF IsSub, Act
<1>4. DurableWasCommitted'
  BY <1>3 DEF DurableWasCommitted, IsSub
<1>5. AllOrNothing'
  BY <1>1 DEF AllOrNothing, Past
<1> QED
  BY <1>1, <1>2, <1>4, <1>5 DEF Past

(* A transaction that is innermost, and no subtransaction, is alone.         *)
LEMMA RootIsAlone ==
  ASSUME TypeOK, SlotIsAlive, Past, NEW c \in Seq(Tx), Nest(c), c # << >>
  PROVE  /\ Len(c) \in DOMAIN c
         /\ IsSub(c[Len(c)]) <=> Len(c) > 1
         /\ IsSub(c[Len(c)]) <=> Len(c) # 1
<1>1. Len(c) \in DOMAIN c /\ Len(c) >= 1 /\ Len(c) \in Nat
  OBVIOUS
<1>2. IsSub(c[Len(c)]) <=> Len(c) > 1
  BY <1>1, RootIsFirst
<1>3. Len(c) > 1 <=> Len(c) # 1
  BY <1>1
<1> QED
  BY <1>1, <1>2, <1>3

(* What was in an open block becomes durable with the object that ends.      *)
LEMMA EndedCommitted ==
  ASSUME TypeOK, SlotIsAlive, Past, NEW t \in Tx, Act(t), ~IsSub(t),
         NEW c \in Seq(Tx), NEW p \in Seq(Nat), Nest(c), Levels(c, p),
         c # << >>, t = c[Len(c)], NEW o, Ended(t, o),
         o.status \in {"committed", "in_doubt"}, session.block = "open",
         session'.durable = session.durable \cup InBlock(session)
  PROVE  Past'
<1>1. /\ tx'[t] = o /\ \A u \in Tx \ {t} : tx'[u] = tx[u]
      /\ \A u \in Tx : /\ tx'[u].parent = tx[u].parent /\ tx'[u].root = tx[u].root
                       /\ tx'[u].life # "none" <=> tx[u].life # "none"
      /\ Kin' /\ done' = done
  <2>1. done' = done
    BY DEF Ended
  <2> QED
    BY <2>1, EndedIs
<1>2. Len(c) \in DOMAIN c /\ Len(c) = 1 /\ t = slot /\ tx[t].root = t
  BY RootIsAlone, SlotActive
<1>3. \A u \in Tx : Act(u) => u = t
  BY <1>2 DEF Nest
<1>4. ASSUME NEW w \in InBlock(session), ~w.late
      PROVE  /\ w.by \in Tx /\ tx[w.by].root = t /\ tx[w.by].life # "none"
             /\ IsSub(w.by) => tx[w.by].status = "committed"
             /\ w.by # t => tx[w.by].status = "committed" /\ tx[w.by].root = slot
  <2>1. PICK j \in DOMAIN session.levels : w \in session.levels[j].writes
    BY <1>4 DEF InBlock
  <2>2. Placed(c, p, j, w) /\ w.by \in Tx
    BY <1>4, <2>1, WriteIs DEF Levels
  <2>3. tx[w.by].root = t /\ KinOf(w.by)
    BY <1>2, <2>2 DEF Placed, Past, Kin
  <2>4. tx[w.by].life # "none"
    BY <2>2, <2>3, SessionAssumption DEF KinOf, Absent
  <2>5. ~IsSub(w.by) => w.by = t
    BY <2>3, <2>4 DEF KinOf
  <2>6. ASSUME IsSub(w.by)
        PROVE  tx[w.by].status = "committed"
    <3>1. tx[w.by].status # "aborted"
      BY <2>2, <2>6 DEF Placed
    <3>2. tx[w.by].status # "in_doubt"
      BY <2>3, <2>6 DEF KinOf
    <3>3. tx[w.by].status # "active"
      <4>1. ~Act(w.by)
        BY <1>3, <2>2, <2>6
      <4> QED
        BY <2>2, <2>3, <2>4, <4>1, ObjectIs DEF KinOf, Act, Alive
    <3> QED
      BY <2>2, <3>1, <3>2, <3>3, ObjectIs
  <2> QED
    BY <1>2, <2>2, <2>3, <2>4, <2>5, <2>6
<1>5. History'
  BY <1>1, <1>4, WriteIs DEF History, Past
<1>6. ASSUME NEW w \in session'.durable, ~w.late
      PROVE  /\ tx'[tx'[w.by].root].status \in {"committed", "in_doubt"}
             /\ tx'[w.by].parent # NoTx => tx'[w.by].status = "committed"
  <2>1. CASE w \in session.durable
    BY <1>1, <1>6, <2>1, NoneIsDurable, SMTT(30) DEF IsSub, Act
  <2>2. CASE w \in InBlock(session)
    BY <1>1, <1>4, <1>6, <2>2 DEF IsSub
  <2> QED
    BY <1>6, <2>1, <2>2
<1>7. DurableWasCommitted'
  BY <1>6 DEF DurableWasCommitted, IsSub
<1>8. ASSUME NEW u \in Tx
      PROVE  \/ \A w \in done : w.by = u => w \in session'.durable
             \/ \A w \in done : w.by = u => w \notin session'.durable
  <2>1. \A w \in done : ~w.late
    BY DEF Past, History
  <2>2. CASE tx[u].root # t
    <3>1. \A w \in done : w.by = u => w \notin InBlock(session)
      BY <1>4, <2>1, <2>2
    <3>2. \/ \A w \in done : w.by = u => w \in session.durable
          \/ \A w \in done : w.by = u => w \notin session.durable
      BY AllOrNothingWas DEF Past
    <3> QED
      BY <3>1, <3>2
  <2>3. CASE tx[u].root = t
    <3>1. \A w \in done : w.by = u => w \notin session.durable
      BY <2>1, <2>3, NoneIsDurable DEF Act
    <3>2. CASE u = t
      <4>1. Series(t) \subseteq InBlock(session)
        BY <1>2 DEF Levels
      <4> QED
        BY <3>2, <4>1 DEF Series
    <3>3. CASE u # t /\ tx[u].status = "committed"
      <4>1. \/ Series(u) \subseteq InBlock(session)
            \/ Series(u) \cap InBlock(session) = {}
        BY <1>2, <2>3, <3>3 DEF Levels
      <4> QED
        BY <3>1, <4>1 DEF Series
    <3>4. CASE u # t /\ tx[u].status # "committed"
      <4>1. \A w \in done : w.by = u => w \notin InBlock(session)
        BY <1>4, <2>1, <3>4
      <4> QED
        BY <3>1, <4>1
    <3> QED
      BY <3>2, <3>3, <3>4
  <2> QED
    BY <2>2, <2>3
<1>9. AllOrNothing'
  <2>1. \A u \in Tx : Series(u)' \cap session'.durable \in {{}, Series(u)'}
    BY <1>1, <1>8 DEF Series
  <2> QED
    BY <2>1 DEF AllOrNothing, Series
<1> QED
  BY <1>1, <1>5, <1>7, <1>9 DEF Past

(* A sequence without its end.                                               *)
Popped(s, r) == Len(r) = Len(s) - 1 /\ \A i \in DOMAIN r : r[i] = s[i]

LEMMA PopNest ==
  ASSUME TypeOK, Past, NEW t \in Tx, Act(t), NEW o, Ended(t, o),
         NEW c \in Seq(Tx), Nest(c), c # << >>, t = c[Len(c)],
         slot' = slot \/ Len(c) = 1,
         NEW d \in Seq(Tx), Popped(c, d)
  PROVE  /\ Nest(d)'
         /\ \A u \in Tx : ~tx'[u].focus /\ ~tx'[u].pending
<1>1. /\ tx'[t] = o /\ \A u \in Tx \ {t} : tx'[u] = tx[u]
      /\ \A u \in Tx : /\ tx'[u].parent = tx[u].parent /\ tx'[u].root = tx[u].root
                       /\ Act(u)' <=> Act(u) /\ u # t
  BY EndedIs
<1>2. /\ DOMAIN c = DOMAIN d \cup {Len(c)} /\ Len(c) \notin DOMAIN d
      /\ \A i \in DOMAIN d : d[i] = c[i] /\ (i > 1 => i - 1 \in DOMAIN d)
      /\ d # << >> => 1 \in DOMAIN d
      /\ \A i \in DOMAIN c : c[i] \in Tx
  BY DEF Popped
<1>3. \A u \in Tx : ~tx'[u].focus /\ ~tx'[u].pending
  BY <1>1 DEF Nest, Ended
<1>4. \A i, j \in DOMAIN d : d[i] = d[j] => i = j
  BY <1>2 DEF Nest
<1>5. \A u \in Tx : Act(u)' <=> \E i \in DOMAIN d : d[i] = u
  <2>1. \A i \in DOMAIN d : d[i] # t
    BY <1>2 DEF Nest
  <2>2. \A u \in Tx : Act(u) <=> \E i \in DOMAIN c : c[i] = u
    BY DEF Nest
  <2>3. \A u \in Tx : (\E i \in DOMAIN c : c[i] = u) <=>
                       u = t \/ \E i \in DOMAIN d : d[i] = u
    BY <1>2
  <2>4. \A u \in Tx : (\E i \in DOMAIN d : d[i] = u) => u # t
    BY <2>1
  <2> QED
    BY <1>1, <2>2, <2>3, <2>4
<1>6. d # << >> => d[1] = slot'
  BY <1>2, SlotActive
<1>7. ASSUME NEW i \in DOMAIN d
      PROVE  tx'[d[i]].root = slot' /\ (i > 1 => tx'[d[i]].parent = d[i - 1])
  <2>1. slot' = slot /\ d[i] = c[i] /\ i \in DOMAIN c /\ c[i] \in Tx
    <3>1. Len(c) # 1
      BY DEF Popped
    <3> QED
      BY <1>2, <3>1
  <2>2. i > 1 => d[i - 1] = c[i - 1]
    BY <1>2
  <2> QED
    BY <1>1, <2>1, <2>2 DEF Nest
<1> QED
  BY <1>3, <1>4, <1>5, <1>6, <1>7 DEF Nest
LEMMA EndRootOrders ==
  ASSUME TypeOK, SlotIsAlive, TypeOK', SlotIsAlive', Past,
         NEW c \in Seq(Tx), NEW p \in Seq(Nat), Nested(c, p),
         NEW t \in Tx, Act(t), ~IsSub(t), c # << >>, t = c[Len(c)],
         NEW o, Ended(t, o),
         \/ /\ session'.block = "none" /\ session'.levels = << >>
            /\ \/ session'.durable = session.durable
               \/ /\ session.block = "open" /\ o.status \in {"committed", "in_doubt"}
                  /\ session'.durable = session.durable \cup InBlock(session)
         \/ UNCHANGED <<open, session>> /\ session.block # "open"
  PROVE  OrderInv'
<1>1. Nest(c) /\ Block(c)
  BY DEF Nested
<1>2. Len(c) = 1
  BY <1>1, RootIsAlone
<1>3. << >> \in Seq(Tx) /\ << >> \in Seq(Nat) /\ Popped(c, << >>)
  BY <1>2 DEF Popped
<1>4. Nest(<< >>)' /\ \A u \in Tx : ~tx'[u].focus /\ ~tx'[u].pending
  BY <1>1, <1>2, <1>3, PopNest, Zenon
<1>5. \A u \in Tx : tx'[u].life # "none" <=> tx[u].life # "none"
  BY EndedIs
<1>6. Block(<< >>)'
  <2>1. CASE session'.block = "none" /\ session'.levels = << >>
    BY <1>3, <1>4, <2>1 DEF Block
  <2>2. CASE UNCHANGED <<open, session>> /\ session.block # "open"
    <3>1. \A i \in DOMAIN session.levels : session.levels[i].savepoint \in Tx \cup {NoTx}
      BY SessionIs DEF TypeOK
    <3>2. \A i \in DOMAIN session'.levels :
            session'.levels[i].savepoint # NoTx =>
              tx'[session'.levels[i].savepoint].life # "none"
      BY <1>1, <1>5, <2>2, <3>1 DEF Block
    <3> QED
      BY <1>1, <1>4, <2>2, <3>2 DEF Block
  <2> QED
    BY <2>1, <2>2
<1>7. Past'
  <2>1. CASE session'.durable = session.durable
    BY <2>1, EndedPast
  <2>2. CASE /\ session.block = "open" /\ o.status \in {"committed", "in_doubt"}
             /\ session'.durable = session.durable \cup InBlock(session)
    <3>1. Levels(c, p)
      BY <2>2 DEF Nested
    <3> QED
      BY <1>1, <2>2, <3>1, EndedCommitted
  <2> QED
    BY <2>1, <2>2
<1>8. Nested(<< >>, << >>)'
  BY <1>4, <1>6 DEF Nested
<1> QED
  BY <1>3, <1>7, <1>8 DEF OrderInv

(* A subtransaction's end.  The chain and its places without it.             *)
LEMMA EndSubNested ==
  ASSUME TypeOK, SlotIsAlive, TypeOK', SlotIsAlive', Past,
         NEW c \in Seq(Tx), NEW p \in Seq(Nat), Nested(c, p),
         NEW t \in Tx, Act(t), IsSub(t), c # << >>, t = c[Len(c)],
         NEW o, Ended(t, o), slot' = slot,
         session'.durable = session.durable,
         ~open' => session'.block = "none",
         open' => open,
         session'.block = "none" <=> session'.levels = << >>,
         open' => session'.block # "none",
         \A i, j \in DOMAIN session'.levels :
           session'.levels[i].savepoint = session'.levels[j].savepoint => i = j,
         \A i \in DOMAIN session'.levels :
           session'.levels[i].savepoint # NoTx =>
             tx[session'.levels[i].savepoint].life # "none",
         NEW d \in Seq(Tx), Popped(c, d),
         NEW q \in Seq(Nat), session'.block # "none" => Levels(d, q)'
  PROVE  OrderInv'
<1>1. Nest(c) /\ Block(c) /\ Len(c) \in DOMAIN c /\ Len(c) > 1
  BY RootIsFirst DEF Nested
<1>2. Nest(d)' /\ \A u \in Tx : ~tx'[u].focus /\ ~tx'[u].pending
  <2>1. slot' = slot \/ Len(c) = 1
    OBVIOUS
  <2>2. Nest(c)
    BY <1>1
  <2> QED
    BY <2>1, <2>2, PopNest, Zenon
<1>3. \A u \in Tx : tx'[u].life # "none" <=> tx[u].life # "none"
  BY EndedIs
<1>4. \A i \in DOMAIN session'.levels : session'.levels[i].savepoint \in Tx \cup {NoTx}
  <2>1. session' \in Session
    BY DEF TypeOK
  <2>2. \A s \in Session : \A i \in DOMAIN s.levels : s.levels[i].savepoint \in Tx \cup {NoTx}
    BY SessionIs
  <2> QED
    BY <2>1, <2>2
<1>5. Block(d)'
  <2>1. d # << >>
    BY <1>1 DEF Popped
  <2>2. \A i \in DOMAIN session'.levels :
          session'.levels[i].savepoint # NoTx =>
            tx'[session'.levels[i].savepoint].life # "none"
    BY <1>3, <1>4
  <2> QED
    BY <1>2, <2>1, <2>2 DEF Block
<1>6. Past'
  BY EndedPast
<1>7. Nested(d, q)'
  BY <1>2, <1>5 DEF Nested
<1> QED
  BY <1>6, <1>7 DEF OrderInv
(* What is common to the three ways a subtransaction ends in a block that    *)
(* stays: places, and the writes that stay, with the levels they are then    *)
(* in.                                                                       *)
LEMMA PopLevels ==
  ASSUME TypeOK, SlotIsAlive, Past,
         NEW c \in Seq(Tx), NEW p \in Seq(Nat), Nest(c), Block(c), Levels(c, p),
         NEW t \in Tx, Act(t), IsSub(t), c # << >>, t = c[Len(c)],
         NEW d \in Seq(Tx), Popped(c, d), NEW q \in Seq(Nat), Popped(p, q)
  PROVE  /\ Places(c, p) /\ Len(c) \in DOMAIN c /\ Len(c) > 1
         /\ HasSavepoint(session, t) /\ LevelOf(session, t) = p[Len(c)]
         /\ p[Len(c)] \in 2 .. Len(session.levels)
         /\ Len(q) = Len(d) /\ DOMAIN q = DOMAIN d /\ 1 \in DOMAIN d /\ q[1] = 1
         /\ \A i \in DOMAIN d : /\ i \in DOMAIN c /\ d[i] = c[i] /\ d[i] # t
                                /\ q[i] = p[i] /\ q[i] \in 1 .. p[Len(c)] - 1
                                /\ i < Len(d) => p[i + 1] = q[i + 1]
                                /\ i < Len(c)
                                /\ ~(i < Len(d)) => p[i + 1] = p[Len(c)]
                                /\ i > 1 => session.levels[q[i]].savepoint = d[i]
         /\ \A i, j \in DOMAIN d : i < j => q[i] < q[j]
<1>1. Places(c, p) /\ Len(c) \in DOMAIN c /\ Len(c) > 1
  BY RootIsAlone DEF Levels
<1>2. /\ HasSavepoint(session, t) /\ LevelOf(session, t) = p[Len(c)]
      /\ p[Len(c)] \in 2 .. Len(session.levels)
  BY <1>1, LevelIsPlace
<1>3. Len(p) = Len(c) /\ DOMAIN p = DOMAIN c /\ p[1] = 1
  BY <1>1 DEF Places
<1>4. /\ \A i \in DOMAIN c : p[i] \in DOMAIN session.levels
      /\ \A i, j \in DOMAIN c : i < j => p[i] < p[j]
      /\ \A i \in DOMAIN c : i > 1 => session.levels[p[i]].savepoint = c[i]
  BY <1>1, <1>3 DEF Places
<1>5. DOMAIN session.levels = 1 .. Len(session.levels) /\ Len(session.levels) \in Nat
  BY SessionIs DEF TypeOK
<1>6. /\ Len(q) = Len(d) /\ DOMAIN q = DOMAIN d /\ Len(d) = Len(c) - 1
      /\ DOMAIN d = 1 .. Len(c) - 1 /\ DOMAIN c = 1 .. Len(c) /\ Len(c) \in Nat
      /\ \A i \in DOMAIN d : d[i] = c[i] /\ q[i] = p[i]
  BY <1>3 DEF Popped
<1>7. 1 \in DOMAIN d /\ q[1] = 1
  <2>1. 1 \in 1 .. Len(c) - 1
    BY <1>1, <1>6
  <2> QED
    BY <1>3, <1>6, <2>1
<1>8. ASSUME NEW i \in DOMAIN d
      PROVE  /\ i \in DOMAIN c /\ i < Len(c) /\ d[i] = c[i] /\ d[i] # t
             /\ q[i] = p[i] /\ q[i] \in 1 .. p[Len(c)] - 1
             /\ i < Len(d) => p[i + 1] = q[i + 1]
             /\ ~(i < Len(d)) => p[i + 1] = p[Len(c)]
             /\ i > 1 => session.levels[q[i]].savepoint = d[i]
  <2>1. i \in DOMAIN c /\ i < Len(c) /\ d[i] = c[i] /\ q[i] = p[i]
    BY <1>6
  <2>2. d[i] # t
    BY <1>1, <2>1 DEF Nest
  <2>3. q[i] \in 1 .. p[Len(c)] - 1
    BY <1>1, <1>4, <1>5, <2>1
  <2>4. i < Len(d) => i + 1 \in DOMAIN d
    BY <1>6
  <2>5. ~(i < Len(d)) => i + 1 = Len(c)
    BY <1>6
  <2> QED
    BY <1>4, <1>6, <2>1, <2>2, <2>3, <2>4, <2>5
<1>9. \A i, j \in DOMAIN d : i < j => q[i] < q[j]
  BY <1>4, <1>8
<1> QED
  BY <1>1, <1>2, <1>6, <1>7, <1>8, <1>9

LEMMA FailPops ==
  ASSUME TypeOK, TypeOK', SlotIsAlive, Past,
         NEW c \in Seq(Tx), NEW p \in Seq(Nat), Nest(c), Block(c), Levels(c, p),
         NEW t \in Tx, Act(t), IsSub(t), c # << >>, t = c[Len(c)],
         NEW o, Ended(t, o), o.status = "aborted", slot' = slot,
         session'.levels = session.levels, session'.block = "failed",
         NEW d \in Seq(Tx), Popped(c, d), NEW q \in Seq(Nat), Popped(p, q)
  PROVE  Levels(d, q)'
<1>1. /\ Len(q) = Len(d) /\ DOMAIN q = DOMAIN d /\ 1 \in DOMAIN d /\ q[1] = 1
      /\ Len(c) \in DOMAIN c /\ p[Len(c)] \in 2 .. Len(session.levels)
      /\ \A i \in DOMAIN d : /\ i \in DOMAIN c /\ d[i] = c[i] /\ d[i] # t
                             /\ q[i] = p[i] /\ q[i] \in 1 .. p[Len(c)] - 1
                             /\ i < Len(d) => p[i + 1] = q[i + 1]
                             /\ i < Len(c)
                             /\ i > 1 => session.levels[q[i]].savepoint = d[i]
      /\ \A i, j \in DOMAIN d : i < j => q[i] < q[j]
  BY PopLevels
<1>2. /\ tx'[t] = o /\ \A u \in Tx \ {t} : tx'[u] = tx[u]
      /\ \A u \in Tx : tx'[u].parent = tx[u].parent /\ tx'[u].root = tx[u].root
      /\ done' = done
  <2>1. done' = done
    BY DEF Ended
  <2> QED
    BY <2>1, EndedIs
<1>3. session.levels \in Seq(Level)
  BY SessionIs DEF TypeOK
<1>4. Places(d, q)'
  <2>1. \A i \in DOMAIN q : q[i] \in DOMAIN session'.levels
    BY <1>1, <1>3
  <2>2. \A i, j \in DOMAIN q : i < j => q[i] < q[j]
    BY <1>1
  <2>3. \A i \in DOMAIN q : i > 1 => session'.levels[q[i]].savepoint = d[i]
    BY <1>1
  <2> QED
    BY <1>1, <2>1, <2>2, <2>3 DEF Places
<1>5. ASSUME NEW j \in DOMAIN session'.levels,
             NEW w \in session'.levels[j].writes, ~w.late
      PROVE  Placed(d, q, j, w)'
  <2>1. Placed(c, p, j, w) /\ w.by \in Tx /\ j \in Nat
    BY <1>3, <1>5, WriteIs DEF Levels, InBlock
  <2>2. tx'[w.by].root = slot'
    BY <1>2, <2>1 DEF Placed
  <2>3. \A i \in DOMAIN d :
          w.by = d[i] => q[i] <= j /\ (i < Len(d) => j < q[i + 1])
    BY <1>1, <2>1 DEF Placed
  <2>4. ASSUME tx'[w.by].parent # NoTx, tx'[w.by].status = "aborted"
        PROVE  \A i \in DOMAIN d : q[i] <= j
    <3>1. CASE w.by = t
      <4>1. p[Len(c)] <= j
        BY <1>1, <2>1, <3>1 DEF Placed
      <4> QED
        BY <1>1, <1>3, <2>1, <4>1
    <3>2. CASE w.by # t
      BY <1>1, <1>2, <2>1, <2>4, <3>2 DEF Placed, IsSub
    <3> QED
      BY <3>1, <3>2
  <2> QED
    BY <2>2, <2>3, <2>4 DEF Placed, IsSub
<1>6. ASSUME NEW u \in Tx, tx'[u].status = "committed"
      PROVE  u # t /\ tx[u].status = "committed" /\ tx'[u].root = tx[u].root
  BY <1>2, <1>6
<1>7. ASSUME NEW i \in DOMAIN session'.levels, NEW j \in DOMAIN session'.levels,
             NEW v \in session'.levels[i].writes, NEW w \in session'.levels[j].writes,
             ~v.late, ~w.late, v.by = w.by, tx'[v.by].status = "committed"
      PROVE  i = j
  <2>1. v.by \in Tx
    BY <1>7, WriteIs DEF InBlock
  <2>2. tx[v.by].status = "committed"
    BY <1>6, <1>7, <2>1
  <2> QED
    BY <1>7, <2>2 DEF Levels
<1>8. InBlock(session)' = InBlock(session)
  BY DEF InBlock
<1>9. \A u \in Tx : Series(u)' = Series(u)
  BY <1>2 DEF Series
<1>10. \A i \in DOMAIN d : Series(d[i])' \subseteq InBlock(session)'
  BY <1>1, <1>8, <1>9 DEF Levels
<1>11. ASSUME NEW u \in Tx, tx'[u].root = slot', tx'[u].status = "committed"
       PROVE  \/ Series(u)' \subseteq InBlock(session)'
              \/ Series(u)' \cap InBlock(session)' = {}
  <2>1. tx[u].root = slot /\ tx[u].status = "committed"
    BY <1>6, <1>11
  <2>2. \/ Series(u) \subseteq InBlock(session)
        \/ Series(u) \cap InBlock(session) = {}
    BY <2>1 DEF Levels
  <2> QED
    BY <1>8, <1>9, <2>2
<1> QED
  BY <1>4, <1>5, <1>7, <1>10, <1>11 DEF Levels
(* RELEASE: the levels from the object's own on join the one before.         *)
LEMMA ReleasePops ==
  ASSUME TypeOK, TypeOK', SlotIsAlive, Past,
         NEW c \in Seq(Tx), NEW p \in Seq(Nat), Nest(c), Block(c), Levels(c, p),
         NEW t \in Tx, Act(t), IsSub(t), c # << >>, t = c[Len(c)],
         NEW o, Ended(t, o), o.status = "committed", slot' = slot,
         Heard(Released(session, t)), session.block = "open",
         NEW d \in Seq(Tx), Popped(c, d), NEW q \in Seq(Nat), Popped(p, q)
  PROVE  Levels(d, q)'
<1> DEFINE n == p[Len(c)]
<1>1. /\ Len(q) = Len(d) /\ DOMAIN q = DOMAIN d /\ 1 \in DOMAIN d /\ q[1] = 1
      /\ Len(c) \in DOMAIN c /\ n \in 2 .. Len(session.levels)
      /\ LevelOf(session, t) = n
      /\ \A i \in DOMAIN d : /\ i \in DOMAIN c /\ d[i] = c[i] /\ d[i] # t
                             /\ q[i] = p[i] /\ q[i] \in 1 .. n - 1
                             /\ i < Len(d) => p[i + 1] = q[i + 1]
                             /\ i < Len(c)
                             /\ ~(i < Len(d)) => p[i + 1] = n
                             /\ i > 1 => session.levels[q[i]].savepoint = d[i]
      /\ \A i, j \in DOMAIN d : i < j => q[i] < q[j]
  BY PopLevels
<1> HIDE DEF n
<1>2. /\ tx'[t] = o /\ \A u \in Tx \ {t} : tx'[u] = tx[u]
      /\ \A u \in Tx : tx'[u].parent = tx[u].parent /\ tx'[u].root = tx[u].root
      /\ done' = done
  <2>1. done' = done
    BY DEF Ended
  <2> QED
    BY <2>1, EndedIs
<1>3. session \in Session /\ session.levels \in Seq(Level)
      /\ DOMAIN session.levels = 1 .. Len(session.levels) /\ Len(session.levels) \in Nat
  BY SessionIs DEF TypeOK
<1>4. /\ session'.block = "open"
      /\ session'.levels \in Seq(Level) /\ Len(session'.levels) = n - 1
      /\ \A j \in 1 .. n - 1 :
           session'.levels[j].savepoint = session.levels[j].savepoint
      /\ \A j \in 1 .. n - 2 : session'.levels[j].writes = session.levels[j].writes
      /\ \A w : w \in session'.levels[n - 1].writes <=>
                  \E j \in n - 1 .. Len(session.levels) : w \in session.levels[j].writes
  <2> DEFINE r == Released(session, t)
  <2>1. /\ r.block = session.block
        /\ r.levels \in Seq(Level) /\ Len(r.levels) = n - 1
        /\ \A j \in 1 .. n - 1 : r.levels[j].savepoint = session.levels[j].savepoint
        /\ \A j \in 1 .. n - 2 : r.levels[j].writes = session.levels[j].writes
        /\ \A w : w \in r.levels[n - 1].writes <=>
                    \E j \in n - 1 .. Len(session.levels) : w \in session.levels[j].writes
    <3>1. session \in Session /\ n \in 2 .. Len(session.levels) /\ LevelOf(session, t) = n
      BY <1>1, <1>3
    <3> QED
      BY <3>1, ReleasedIs, Zenon
  <2>2. session' = r
    BY DEF Heard
  <2> HIDE DEF r
  <2> QED
    BY <2>1, <2>2
<1>5. DOMAIN session'.levels = 1 .. n - 1 /\ n \in Nat /\ n >= 2
  <2>1. n \in Nat /\ n >= 2
    BY <1>1
  <2>2. session'.levels \in Seq(Level) /\ Len(session'.levels) = n - 1
    BY <1>4
  <2>3. DOMAIN session'.levels = 1 .. Len(session'.levels)
    BY <2>2, LenProperties, Zenon
  <2> QED
    BY <2>1, <2>2, <2>3
<1>6. Places(d, q)'
  <2>1. \A i \in DOMAIN q : i > 1 => session'.levels[q[i]].savepoint = d[i]
    BY <1>1, <1>4
  <2> QED
    BY <1>1, <1>5, <2>1 DEF Places
(* Where a write was. *)
<1>7. ASSUME NEW j \in DOMAIN session'.levels, NEW w \in session'.levels[j].writes
      PROVE  \E i \in DOMAIN session.levels :
               /\ w \in session.levels[i].writes
               /\ i = j \/ (j = n - 1 /\ i >= n - 1)
  <2>1. CASE j \in 1 .. n - 2
    <3>1. session'.levels[j].writes = session.levels[j].writes
      BY <1>4, <2>1
    <3>2. j \in Nat /\ j >= 1 /\ j <= n - 2 /\ n \in Nat /\ n <= Len(session.levels)
      BY <1>1, <1>3, <2>1
    <3>3. j \in DOMAIN session.levels
      BY <1>3, <3>2
    <3> QED
      BY <1>7, <3>1, <3>3
  <2>2. CASE j = n - 1
    <3>1. PICK i \in n - 1 .. Len(session.levels) : w \in session.levels[i].writes
      BY <1>4, <1>7, <2>2
    <3>2. i \in DOMAIN session.levels /\ i >= n - 1
      BY <1>3, <1>5, <3>1
    <3> QED
      BY <2>2, <3>1, <3>2
  <2> QED
    BY <1>5, <2>1, <2>2
<1>8. ASSUME NEW w
      PROVE  w \in InBlock(session)' <=> w \in InBlock(session)
  <2>1. w \in InBlock(session)' <=>
          \E j \in DOMAIN session'.levels : w \in session'.levels[j].writes
    BY DEF InBlock
  <2>2. w \in InBlock(session) <=>
          \E j \in DOMAIN session.levels : w \in session.levels[j].writes
    BY DEF InBlock
  <2>3. ASSUME NEW j \in DOMAIN session.levels, w \in session.levels[j].writes
        PROVE  \E i \in DOMAIN session'.levels : w \in session'.levels[i].writes
    <3>1. CASE j \in 1 .. n - 2
      <4>1. j \in DOMAIN session'.levels
        BY <1>5, <3>1
      <4> QED
        BY <1>4, <2>3, <3>1, <4>1
    <3>2. CASE j \in n - 1 .. Len(session.levels)
      <4>1. w \in session'.levels[n - 1].writes
        BY <1>4, <2>3, <3>2
      <4>2. n - 1 \in DOMAIN session'.levels
        BY <1>5
      <4> QED
        BY <4>1, <4>2
    <3>3. j \in 1 .. n - 2 \/ j \in n - 1 .. Len(session.levels)
      BY <1>3, <1>5, <2>3
    <3> QED
      BY <3>1, <3>2, <3>3
  <2> QED
    BY <1>7, <2>1, <2>2, <2>3
<1>9. ASSUME NEW j \in DOMAIN session'.levels,
             NEW w \in session'.levels[j].writes, ~w.late
      PROVE  Placed(d, q, j, w)'
  <2>1. PICK i \in DOMAIN session.levels :
          /\ w \in session.levels[i].writes
          /\ i = j \/ (j = n - 1 /\ i >= n - 1)
    BY <1>7
  <2>2. Placed(c, p, i, w) /\ w.by \in Tx /\ i \in Nat /\ j \in Nat
    BY <1>3, <1>5, <1>9, <2>1, WriteIs DEF Levels, InBlock
  <2>3. tx'[w.by].root = slot'
    BY <1>2, <2>2 DEF Placed
  <2>4. ~(tx'[w.by].parent # NoTx /\ tx'[w.by].status = "aborted")
    BY <1>2, <2>2 DEF Placed, IsSub
  <2>5. ASSUME NEW k \in DOMAIN d, w.by = d[k]
        PROVE  q[k] <= j /\ (k < Len(d) => j < q[k + 1])
    <3>1. k \in DOMAIN c /\ w.by = c[k] /\ k < Len(c) /\ q[k] = p[k] /\ q[k] \in 1 .. n - 1
      BY <1>1, <2>5
    <3>2. p[k] <= i /\ i < p[k + 1]
      BY <2>2, <3>1 DEF Placed
    <3>3. q[k] <= j
      BY <1>5, <2>1, <2>2, <3>1, <3>2, SMTT(30)
    <3>4. ASSUME k < Len(d)
          PROVE  j < q[k + 1]
      <4>1. k + 1 \in DOMAIN d
        BY <3>4
      <4>2. p[k + 1] = q[k + 1] /\ k + 1 \in DOMAIN d
        BY <1>1, <3>4, <4>1
      <4>3. q[k + 1] \in 1 .. n - 1
        BY <1>1, <4>2
      <4>4. i < n - 1
        BY <1>5, <2>2, <3>2, <4>2, <4>3
      <4>5. i = j
        BY <1>5, <2>1, <2>2, <4>4
      <4> QED
        BY <3>2, <4>2, <4>5
    <3> QED
      BY <3>3, <3>4
  <2> QED
    BY <2>3, <2>4, <2>5 DEF Placed, IsSub
<1>10. ASSUME NEW i \in DOMAIN session'.levels, NEW j \in DOMAIN session'.levels,
              NEW v \in session'.levels[i].writes, NEW w \in session'.levels[j].writes,
              ~v.late, ~w.late, v.by = w.by, tx'[v.by].status = "committed"
       PROVE  i = j
  <2>1. PICK k \in DOMAIN session.levels :
          v \in session.levels[k].writes /\ (k = i \/ (i = n - 1 /\ k >= n - 1))
    BY <1>7
  <2>2. PICK l \in DOMAIN session.levels :
          w \in session.levels[l].writes /\ (l = j \/ (j = n - 1 /\ l >= n - 1))
    BY <1>7
  <2>3. v.by \in Tx
    BY <2>1, WriteIs DEF InBlock
  <2>4. i \in 1 .. n - 1 /\ j \in 1 .. n - 1 /\ k \in Nat /\ l \in Nat
    BY <1>3, <1>5
  <2>5. CASE v.by = t
    <3>1. Placed(c, p, k, v) /\ Placed(c, p, l, w)
      BY <1>10, <2>1, <2>2 DEF Levels
    <3>2. n <= k /\ n <= l
      BY <1>1, <1>10, <2>5, <3>1 DEF Placed, n
    <3> QED
      BY <1>5, <2>1, <2>2, <2>4, <3>2
  <2>6. CASE v.by # t
    <3>1. tx[v.by].status = "committed"
      BY <1>2, <1>10, <2>3, <2>6
    <3>2. k = l
      BY <1>10, <2>1, <2>2, <3>1 DEF Levels
    <3> QED
      BY <1>5, <2>1, <2>2, <2>4, <3>2
  <2> QED
    BY <2>5, <2>6
<1>11. \A u \in Tx : Series(u)' = Series(u)
  BY <1>2 DEF Series
<1>12. \A i \in DOMAIN c : Series(c[i]) \subseteq InBlock(session)
  BY DEF Levels
<1>13. \A i \in DOMAIN d : Series(d[i])' \subseteq InBlock(session)'
  BY <1>1, <1>8, <1>11, <1>12
<1>14. ASSUME NEW u \in Tx, tx'[u].root = slot', tx'[u].status = "committed"
       PROVE  \/ Series(u)' \subseteq InBlock(session)'
              \/ Series(u)' \cap InBlock(session)' = {}
  <2>1. CASE u = t
    <3>1. Series(t) \subseteq InBlock(session)
      BY <1>1, <1>12
    <3> QED
      BY <1>8, <1>11, <2>1, <3>1
  <2>2. CASE u # t
    <3>1. tx[u].root = slot /\ tx[u].status = "committed"
      BY <1>2, <1>14, <2>2
    <3>2. \/ Series(u) \subseteq InBlock(session)
          \/ Series(u) \cap InBlock(session) = {}
      BY <3>1 DEF Levels
    <3> QED
      BY <1>8, <1>11, <3>2
  <2> QED
    BY <2>1, <2>2
<1> QED
  BY <1>6, <1>9, <1>10, <1>13, <1>14 DEF Levels
(* ROLLBACK TO: the levels from the object's own on are gone, and those of   *)
(* subtransactions that had been aborted inside him with them.               *)
LEMMA RollbackPops ==
  ASSUME TypeOK, TypeOK', SlotIsAlive, Past,
         NEW c \in Seq(Tx), NEW p \in Seq(Nat), Nest(c), Block(c), Levels(c, p),
         NEW t \in Tx, Act(t), IsSub(t), c # << >>, t = c[Len(c)],
         NEW o, Ended(t, o), o.status = "aborted", slot' = slot,
         Heard(RolledBackTo(Ready(session), t)),
         NEW d \in Seq(Tx), Popped(c, d), NEW q \in Seq(Nat), Popped(p, q)
  PROVE  /\ Levels(d, q)' /\ session'.block = "open"
         /\ session'.durable = session.durable /\ session'.levels # << >>
         /\ \A i, j \in DOMAIN session'.levels :
              session'.levels[i].savepoint = session'.levels[j].savepoint => i = j
         /\ \A i \in DOMAIN session'.levels :
              session'.levels[i].savepoint # NoTx =>
                tx[session'.levels[i].savepoint].life # "none"
<1> DEFINE n == p[Len(c)]
<1>1. /\ Len(q) = Len(d) /\ DOMAIN q = DOMAIN d /\ 1 \in DOMAIN d /\ q[1] = 1
      /\ Len(c) \in DOMAIN c /\ n \in 2 .. Len(session.levels) /\ Places(c, p)
      /\ LevelOf(session, t) = n
      /\ \A i \in DOMAIN d : /\ i \in DOMAIN c /\ d[i] = c[i] /\ d[i] # t
                             /\ q[i] = p[i] /\ q[i] \in 1 .. n - 1
                             /\ i < Len(d) => p[i + 1] = q[i + 1]
                             /\ i < Len(c)
                             /\ ~(i < Len(d)) => p[i + 1] = n
                             /\ i > 1 => session.levels[q[i]].savepoint = d[i]
      /\ \A i, j \in DOMAIN d : i < j => q[i] < q[j]
  BY PopLevels
<1>2. session.levels[n].savepoint = t
  <2>1. Len(c) \in DOMAIN p /\ Len(c) > 1
    BY <1>1, RootIsAlone DEF Places
  <2> QED
    BY <1>1, <2>1 DEF Places
<1> HIDE DEF n
<1>3. /\ tx'[t] = o /\ \A u \in Tx \ {t} : tx'[u] = tx[u]
      /\ \A u \in Tx : tx'[u].parent = tx[u].parent /\ tx'[u].root = tx[u].root
      /\ done' = done
  <2>1. done' = done
    BY DEF Ended
  <2> QED
    BY <2>1, EndedIs
<1>4. session \in Session /\ session.levels \in Seq(Level)
      /\ DOMAIN session.levels = 1 .. Len(session.levels) /\ Len(session.levels) \in Nat
  BY SessionIs DEF TypeOK
<1>5. /\ session'.block = "open" /\ session'.durable = session.durable
      /\ session'.levels \in Seq(Level) /\ Len(session'.levels) = n
      /\ session'.levels[n].savepoint = t /\ session'.levels[n].writes = {}
      /\ \A j \in 1 .. n - 1 : session'.levels[j] = session.levels[j]
  <2> DEFINE s == Ready(session)
             r == RolledBackTo(s, t)
  <2>1. s \in Session /\ s.levels = session.levels /\ s.durable = session.durable
    BY <1>4, ReadyTyped, ReadyIs
  <2> HIDE DEF s
  <2>2. n \in 1 .. Len(s.levels) /\ LevelOf(s, t) = n
    <3>1. n \in DOMAIN s.levels /\ s.levels[n].savepoint = t
      BY <1>1, <1>2, <1>4, <2>1
    <3>2. ASSUME NEW j \in DOMAIN s.levels, s.levels[j].savepoint = t
          PROVE  j = n
      BY <2>1, <3>1, <3>2 DEF Block
    <3>3. LevelOf(s, t) = n
      BY <3>1, <3>2 DEF LevelOf
    <3> QED
      BY <1>1, <1>4, <2>1, <3>3
  <2>3. /\ r.block = "open" /\ r.durable = s.durable
        /\ r.levels \in Seq(Level) /\ Len(r.levels) = n
        /\ r.levels[n].savepoint = t /\ r.levels[n].writes = {}
        /\ \A j \in 1 .. n - 1 : r.levels[j] = s.levels[j]
    BY <2>1, <2>2, RolledBackToIs
  <2>4. session' = r
    BY DEF Heard, s
  <2> HIDE DEF r
  <2> QED
    BY <2>1, <2>3, <2>4
<1>6. /\ DOMAIN session'.levels = 1 .. n /\ n \in Nat /\ n >= 2
      /\ session'.levels # << >>
      /\ \A j \in 1 .. n - 1 : j \in DOMAIN session.levels
      /\ n \in DOMAIN session.levels
  BY <1>1, <1>4, <1>5
<1>7. \A j \in DOMAIN session'.levels :
        /\ j \in DOMAIN session.levels
        /\ session'.levels[j].savepoint = session.levels[j].savepoint
        /\ j # n => j \in 1 .. n - 1
  BY <1>2, <1>5, <1>6
<1>8. /\ \A i, j \in DOMAIN session'.levels :
           session'.levels[i].savepoint = session'.levels[j].savepoint => i = j
      /\ \A i \in DOMAIN session'.levels :
           session'.levels[i].savepoint # NoTx =>
             tx[session'.levels[i].savepoint].life # "none"
  BY <1>7 DEF Block
<1>9. Places(d, q)'
  <2>1. \A i \in DOMAIN q : q[i] \in DOMAIN session'.levels
    BY <1>1, <1>6
  <2>2. \A i \in DOMAIN q : i > 1 => session'.levels[q[i]].savepoint = d[i]
    BY <1>1, <1>7, <2>1
  <2>3. \A i, j \in DOMAIN q : i < j => q[i] < q[j]
    BY <1>1
  <2> QED
    BY <1>1, <2>1, <2>2, <2>3 DEF Places
<1>10. ASSUME NEW j \in DOMAIN session'.levels, NEW w \in session'.levels[j].writes
       PROVE  j \in 1 .. n - 1 /\ w \in session.levels[j].writes
  BY <1>5, <1>7, <1>10
<1>11. ASSUME NEW j \in DOMAIN session'.levels,
              NEW w \in session'.levels[j].writes, ~w.late
       PROVE  /\ Placed(c, p, j, w) /\ w.by \in Tx \ {t}
              /\ tx'[w.by] = tx[w.by] /\ j \in Nat /\ j < n
              /\ ~(IsSub(w.by) /\ tx[w.by].status = "aborted")
  <2>1. j \in 1 .. n - 1 /\ w \in session.levels[j].writes /\ j \in DOMAIN session.levels
    BY <1>7, <1>10
  <2>2. Placed(c, p, j, w) /\ w.by \in Tx
    BY <1>11, <2>1, WriteIs DEF Levels, InBlock
  <2>3. j \in Nat /\ j < n /\ ~(n <= j)
    BY <1>6, <2>1
  <2>4. w.by # t
    BY <1>1, <2>2, <2>3 DEF Placed, n
  <2>5. ~(IsSub(w.by) /\ tx[w.by].status = "aborted")
    BY <1>1, <2>2, <2>3 DEF Placed, n
  <2> QED
    BY <1>3, <2>2, <2>3, <2>4, <2>5
<1>12. ASSUME NEW j \in DOMAIN session'.levels,
              NEW w \in session'.levels[j].writes, ~w.late
       PROVE  Placed(d, q, j, w)'
  <2>1. /\ Placed(c, p, j, w) /\ w.by \in Tx
        /\ tx'[w.by] = tx[w.by] /\ j \in Nat /\ j < n
        /\ ~(tx'[w.by].parent # NoTx /\ tx'[w.by].status = "aborted")
    BY <1>11, <1>12 DEF IsSub
  <2>2. tx'[w.by].root = slot'
    BY <2>1 DEF Placed
  <2>3. \A i \in DOMAIN d :
          w.by = d[i] => q[i] <= j /\ (i < Len(d) => j < q[i + 1])
    BY <1>1, <2>1 DEF Placed
  <2> QED
    BY <2>1, <2>2, <2>3 DEF Placed, IsSub
<1>13. ASSUME NEW i \in DOMAIN session'.levels, NEW j \in DOMAIN session'.levels,
              NEW v \in session'.levels[i].writes, NEW w \in session'.levels[j].writes,
              ~v.late, ~w.late, v.by = w.by, tx'[v.by].status = "committed"
       PROVE  i = j
  <2>1. tx[v.by].status = "committed"
    BY <1>11, <1>13
  <2>2. /\ v \in session.levels[i].writes /\ i \in DOMAIN session.levels
        /\ w \in session.levels[j].writes /\ j \in DOMAIN session.levels
    BY <1>7, <1>10
  <2> QED
    BY <1>13, <2>1, <2>2 DEF Levels
<1>14. ASSUME NEW w
       PROVE  w \in InBlock(session)' <=>
                \E j \in 1 .. n - 1 : w \in session.levels[j].writes
  <2>1. w \in InBlock(session)' <=>
          \E j \in DOMAIN session'.levels : w \in session'.levels[j].writes
    BY DEF InBlock
  <2>2. ASSUME NEW j \in 1 .. n - 1
        PROVE  j \in DOMAIN session'.levels /\ session'.levels[j] = session.levels[j]
    BY <1>5, <1>6
  <2> QED
    BY <1>10, <2>1, <2>2
<1>15. \A u \in Tx : Series(u)' = Series(u)
  BY <1>3 DEF Series
<1>16. \A u \in Tx : \A w \in Series(u) : ~w.late /\ w.by = u
  BY DEF Series, Past, History
<1>17. ASSUME NEW w \in InBlock(session)
       PROVE  \E j \in DOMAIN session.levels : w \in session.levels[j].writes
  BY <1>17 DEF InBlock
<1>18. ASSUME NEW i \in DOMAIN d
       PROVE  Series(d[i])' \subseteq InBlock(session)'
  <2>1. /\ i \in DOMAIN c /\ d[i] = c[i] /\ i < Len(c) /\ d[i] \in Tx
        /\ i < Len(d) => p[i + 1] = q[i + 1] /\ i + 1 \in DOMAIN d
        /\ ~(i < Len(d)) => p[i + 1] = n
    <3>1. i < Len(d) => i + 1 \in DOMAIN d
      OBVIOUS
    <3> QED
      BY <1>1, <3>1
  <2>2. ASSUME NEW w \in Series(d[i])
        PROVE  \E j \in 1 .. n - 1 : w \in session.levels[j].writes
    <3>1. w \in InBlock(session) /\ ~w.late /\ w.by = c[i]
      BY <1>16, <2>1, <2>2 DEF Levels
    <3>2. PICK j \in DOMAIN session.levels : w \in session.levels[j].writes
      BY <1>17, <3>1
    <3>3. Placed(c, p, j, w)
      BY <3>1, <3>2 DEF Levels
    <3>4. j < p[i + 1]
      BY <2>1, <3>1, <3>3 DEF Placed
    <3>5. p[i + 1] <= n /\ p[i + 1] \in Nat
      <4>1. CASE i < Len(d)
        <5>1. q[i + 1] \in 1 .. n - 1
          BY <1>1, <2>1, <4>1
        <5>2. p[i + 1] = q[i + 1]
          BY <2>1, <4>1
        <5>3. q[i + 1] \in Nat /\ q[i + 1] <= n - 1 /\ n \in Nat
          BY <1>1, <5>1
        <5> QED
          BY <5>2, <5>3
      <4>2. CASE ~(i < Len(d))
        <5>1. p[i + 1] = n
          BY <2>1, <4>2
        <5> QED
          BY <1>6, <5>1
      <4> QED
        BY <4>1, <4>2
    <3>6. j \in 1 .. n - 1
      BY <1>4, <1>6, <3>4, <3>5
    <3> QED
      BY <3>2, <3>6
  <2> QED
    BY <1>14, <1>15, <2>1, <2>2
<1>19. ASSUME NEW u \in Tx, tx'[u].root = slot', tx'[u].status = "committed"
       PROVE  \/ Series(u)' \subseteq InBlock(session)'
              \/ Series(u)' \cap InBlock(session)' = {}
  <2>1. u # t /\ tx[u].root = slot /\ tx[u].status = "committed"
    BY <1>3, <1>19
  <2>2. CASE Series(u) \cap InBlock(session) = {}
    <3>1. ASSUME NEW w \in Series(u), w \in InBlock(session)'
          PROVE  FALSE
      <4>1. PICK j \in 1 .. n - 1 : w \in session.levels[j].writes
        BY <1>14, <3>1
      <4>2. w \in InBlock(session)
        BY <1>6, <4>1 DEF InBlock
      <4> QED
        BY <2>2, <3>1, <4>2
    <3> QED
      BY <1>15, <3>1
  <2>3. CASE Series(u) \subseteq InBlock(session)
    <3>1. ASSUME NEW v \in Series(u), v \in InBlock(session)', NEW w \in Series(u)
          PROVE  w \in InBlock(session)'
      <4>1. PICK j \in 1 .. n - 1 : v \in session.levels[j].writes
        BY <1>14, <3>1
      <4>2. PICK k \in DOMAIN session.levels : w \in session.levels[k].writes
        BY <1>17, <2>3, <3>1
      <4>3. ~v.late /\ ~w.late /\ v.by = u /\ w.by = u
        BY <1>16, <3>1
      <4>4. j = k
        BY <1>6, <2>1, <4>1, <4>2, <4>3 DEF Levels
      <4> QED
        BY <1>14, <4>1, <4>2, <4>4
    <3> QED
      BY <1>15, <3>1
  <2> QED
    BY <2>1, <2>2, <2>3 DEF Levels
<1>20. Levels(d, q)'
  BY <1>9, <1>12, <1>13, <1>18, <1>19 DEF Levels
<1> QED
  BY <1>5, <1>6, <1>8, <1>20
LEMMA PopExists ==
  ASSUME NEW S, NEW s \in Seq(S), Len(s) > 1
  PROVE  \E r \in Seq(S) : Popped(s, r)
<1> DEFINE r == SubSeq(s, 1, Len(s) - 1)
<1>1. Len(s) \in Nat
  OBVIOUS
<1>2. r \in Seq(S) /\ Len(r) = Len(s) - 1 /\ \A i \in 1 .. Len(s) - 1 : r[i] = s[i]
  BY <1>1
<1> HIDE DEF r
<1>3. \A i \in DOMAIN r : r[i] = s[i]
  BY <1>1, <1>2
<1> QED
  BY <1>2, <1>3 DEF Popped

LEMMA EndSubOrders ==
  ASSUME TypeOK, SlotIsAlive, TypeOK', SlotIsAlive', Past,
         NEW c \in Seq(Tx), NEW p \in Seq(Nat), Nested(c, p),
         NEW t \in Tx, Act(t), IsSub(t), c # << >>, t = c[Len(c)],
         NEW o, Ended(t, o), slot' = slot,
         \/ Dropped(session.durable)
         \/ o.status = "aborted" /\ Quiet /\ session'.block # "open"
         \/ /\ o.status = "committed" /\ session.block = "open"
            /\ Heard(Released(session, t))
         \/ /\ o.status = "aborted" /\ HasSavepoint(session, t)
            /\ Heard(RolledBackTo(Ready(session), t))
  PROVE  OrderInv'
<1>1. Nest(c) /\ Block(c) /\ Len(c) > 1
  BY RootIsAlone DEF Nested
<1>2. PICK d \in Seq(Tx) : Popped(c, d)
  BY <1>1, PopExists
<1>3. session' \in Session /\ session'.levels \in Seq(Level) /\ << >> \in Seq(Nat)
  BY DEF TypeOK, Session
<1>4. ASSUME session.block # "none"
      PROVE  Levels(c, p) /\ \E q \in Seq(Nat) : Popped(p, q)
  <2>1. Levels(c, p)
    BY <1>4 DEF Nested
  <2>2. Len(p) > 1
    BY <1>1, <2>1 DEF Levels, Places
  <2> QED
    BY <2>1, <2>2, PopExists
<1>5. CASE Dropped(session.durable)
  <2>1. /\ session'.durable = session.durable /\ ~open' /\ session'.block = "none"
        /\ session'.levels = << >>
    BY <1>5 DEF Dropped
  <2>2. DOMAIN session'.levels = {}
    BY <2>1
  <2> QED
    BY <1>2, <1>3, <2>1, <2>2, EndSubNested
<1>6. CASE o.status = "aborted" /\ Quiet /\ session'.block # "open"
  <2>1. /\ session'.durable = session.durable /\ open' = open
        /\ session'.levels = session.levels
        /\ session'.block = "none" <=> session.block = "none"
    BY <1>6 DEF Quiet
  <2>2. /\ ~open' => session'.block = "none"
        /\ session'.block = "none" <=> session'.levels = << >>
        /\ open' => session'.block # "none"
        /\ \A i, j \in DOMAIN session'.levels :
             session'.levels[i].savepoint = session'.levels[j].savepoint => i = j
        /\ \A i \in DOMAIN session'.levels :
             session'.levels[i].savepoint # NoTx =>
               tx[session'.levels[i].savepoint].life # "none"
    BY <1>1, <2>1 DEF Block
  <2>3. CASE session.block = "none"
    BY <1>2, <1>3, <2>1, <2>2, <2>3, EndSubNested
  <2>4. CASE session.block # "none"
    <3>1. session'.block = "failed"
      BY <1>3, <1>6, <2>1, <2>4 DEF Session
    <3>2. PICK q \in Seq(Nat) : Popped(p, q)
      BY <1>4, <2>4
    <3>3. Levels(d, q)'
      BY <1>1, <1>2, <1>4, <1>6, <2>1, <2>4, <3>1, <3>2, FailPops
    <3> QED
      BY <1>2, <2>1, <2>2, <3>2, <3>3, EndSubNested
  <2> QED
    BY <2>3, <2>4
<1>7. CASE /\ o.status = "committed" /\ session.block = "open"
           /\ Heard(Released(session, t))
  <2>1. PICK q \in Seq(Nat) : Popped(p, q)
    BY <1>4, <1>7
  <2>2. Levels(c, p)
    BY <1>4, <1>7
  <2>3. Levels(d, q)'
    BY <1>1, <1>2, <1>7, <2>1, <2>2, ReleasePops
  <2> DEFINE n == p[Len(c)]
             r == Released(session, t)
  <2>4. LevelOf(session, t) = n /\ n \in 2 .. Len(session.levels)
    BY <1>1, <1>2, <2>1, <2>2, PopLevels
  <2>5. session \in Session /\ DOMAIN session.levels = 1 .. Len(session.levels)
        /\ Len(session.levels) \in Nat
    BY SessionIs DEF TypeOK
  <2> HIDE DEF n
  <2>6. /\ r.block = session.block /\ r.durable = session.durable
        /\ r.levels \in Seq(Level) /\ Len(r.levels) = n - 1
        /\ \A j \in 1 .. n - 1 : r.levels[j].savepoint = session.levels[j].savepoint
    BY <2>4, <2>5, ReleasedIs, Zenon
  <2>7. session' = r /\ open /\ open'
    BY <1>7 DEF Heard
  <2> HIDE DEF r
  <2>8. /\ session'.block = "open" /\ session'.durable = session.durable
        /\ DOMAIN session'.levels = 1 .. n - 1 /\ session'.levels # << >>
        /\ \A j \in DOMAIN session'.levels :
             /\ j \in DOMAIN session.levels
             /\ session'.levels[j].savepoint = session.levels[j].savepoint
    <3>1. DOMAIN r.levels = 1 .. n - 1 /\ 1 \in 1 .. n - 1
      BY <2>4, <2>6
    <3>2. r.levels # << >>
      <4>1. Len(r.levels) # 0 /\ Len(<< >>) = 0
        BY <2>4, <2>6
      <4> QED
        BY <4>1
    <3>3. \A j \in 1 .. n - 1 : j \in DOMAIN session.levels
      BY <2>4, <2>5
    <3> QED
      BY <1>7, <2>6, <2>7, <3>1, <3>2, <3>3
  <2>9. /\ \A i, j \in DOMAIN session'.levels :
             session'.levels[i].savepoint = session'.levels[j].savepoint => i = j
        /\ \A i \in DOMAIN session'.levels :
             session'.levels[i].savepoint # NoTx =>
               tx[session'.levels[i].savepoint].life # "none"
    BY <1>1, <2>8 DEF Block
  <2>10. open /\ open' /\ session'.block # "none"
    BY <2>7, <2>8
  <2> QED
    BY <1>2, <2>1, <2>3, <2>8, <2>9, <2>10, EndSubNested
<1>8. CASE /\ o.status = "aborted" /\ HasSavepoint(session, t)
           /\ Heard(RolledBackTo(Ready(session), t))
  <2>1. session.block # "none"
    <3>1. session.levels # << >>
      BY <1>8 DEF HasSavepoint
    <3> QED
      BY <1>1, <3>1 DEF Block
  <2>2. PICK q \in Seq(Nat) : Popped(p, q)
    BY <1>4, <2>1
  <2>3. Levels(c, p) /\ open /\ open'
    BY <1>4, <1>8, <2>1 DEF Heard
  <2>4. /\ Levels(d, q)' /\ session'.block = "open"
        /\ session'.durable = session.durable /\ session'.levels # << >>
        /\ \A i, j \in DOMAIN session'.levels :
             session'.levels[i].savepoint = session'.levels[j].savepoint => i = j
        /\ \A i \in DOMAIN session'.levels :
             session'.levels[i].savepoint # NoTx =>
               tx[session'.levels[i].savepoint].life # "none"
    BY <1>1, <1>2, <1>8, <2>2, <2>3, RollbackPops
  <2> QED
    BY <1>2, <2>2, <2>3, <2>4, EndSubNested
<1> QED
  BY <1>5, <1>6, <1>7, <1>8
LEMMA UnregisterSub ==
  ASSUME TypeOK, SlotIsAlive, Past, NEW t \in Tx, IsSub(t), Unregister(t)
  PROVE  slot' = slot
  BY DEF Past, Kin, KinOf, Unregister

(* A failed block, or none, hears a failed command and stays one.            *)
LEMMA FailedReadyQuiet ==
  ASSUME TypeOK, done' = done, Heard(Failed(Ready(session)))
  PROVE  Quiet /\ session'.block # "open"
<1>1. /\ Ready(session) \in Session /\ Ready(session).levels = session.levels
      /\ Ready(session).durable = session.durable
      /\ Ready(session).block = "none" <=> session.block = "none"
  BY ReadyTyped, ReadyIs DEF TypeOK
<1> QED
  BY <1>1, FailedQuiet

LEMMA CommitOrders ==
  ASSUME Disciplined, TypeOK, SlotIsAlive, TypeOK', SlotIsAlive', Past,
         NEW c \in Seq(Tx), NEW p \in Seq(Nat), Nested(c, p),
         NEW t \in Tx, Commit(t)
  PROVE  OrderInv'
<1>1. CASE ThrowPending(t)
  BY <1>1, ThrowPendingOrders
<1>2. CASE ~ThrowPending(t)
  <2>1. PICK a \in DoCommit(t) :
           /\ Receive(a)
           /\ tx' = [tx EXCEPT ![t].status = StatusAfterCommit(t, a.reply),
                               ![t].registered = (@ /\ a.reply # "ok")]
           /\ \/ a.reply = "ok" /\ Unregister(t)
              \/ a.reply # "ok" /\ UNCHANGED slot
    BY <1>2 DEF Commit
  <2> DEFINE registered == tx[t].registered /\ a.reply # "ok"
             o == [tx[t] EXCEPT !.status = StatusAfterCommit(t, a.reply),
                                !.registered = registered]
  <2>2. /\ Nest(c) /\ Block(c) /\ Usable(t) /\ Act(t) /\ done' = done
        /\ ~tx[t].pending /\ ~tx[t].focus
    BY <1>2 DEF Nested, Commit, Usable, Act
  <2>3. c # << >> /\ t = c[Len(c)]
    BY <2>2, Innermost
  <2>4. tx[t] \in Object /\ tx' = [tx EXCEPT ![t] = o]
    BY <2>1 DEF TypeOK
  <2>5. /\ StatusAfterCommit(t, a.reply) \in {"aborted", "committed", "in_doubt"}
        /\ IsSub(t) => StatusAfterCommit(t, a.reply) # "in_doubt"
        /\ a.reply = "ok" => StatusAfterCommit(t, a.reply) = "committed"
        /\ a.reply = "error" => StatusAfterCommit(t, a.reply) = "aborted"
        /\ a.reply = "broken" /\ ~IsSub(t) => StatusAfterCommit(t, a.reply) = "in_doubt"
    BY DEF StatusAfterCommit
  <2>6. /\ o.parent = tx[t].parent /\ o.root = tx[t].root /\ o.life = tx[t].life
        /\ o.status = StatusAfterCommit(t, a.reply)
        /\ o.registered = registered
        /\ o.focus = tx[t].focus /\ o.pending = tx[t].pending
    BY <2>4 DEF Object
  <2> HIDE DEF o
  <2>7. Ended(t, o)
    BY <2>2, <2>4, <2>5, <2>6 DEF Ended, Usable, Alive
  <2> HIDE DEF registered
  <2>8. CASE IsSub(t)
    <3>1. slot' = slot
      BY <2>1, <2>8, UnregisterSub
    <3>2. \/ a.reply = "broken" /\ Dropped(session.durable)
          \/ a.reply = "error" /\ Heard(Failed(Ready(session)))
          \/ /\ a.reply = "ok" /\ Heard(Released(session, t))
             /\ session.block = "open" /\ HasSavepoint(session, t)
      BY <2>1, <2>8, HearRelease
    <3>3. CASE Dropped(session.durable)
      BY <2>2, <2>3, <2>7, <2>8, <3>1, <3>3, EndSubOrders
    <3>4. CASE a.reply = "error" /\ Heard(Failed(Ready(session)))
      <4>1. o.status = "aborted" /\ Quiet /\ session'.block # "open"
        BY <2>2, <2>5, <2>6, <3>4, FailedReadyQuiet
      <4> QED
        BY <2>2, <2>3, <2>7, <2>8, <3>1, <4>1, EndSubOrders
    <3>5. CASE /\ a.reply = "ok" /\ Heard(Released(session, t))
               /\ session.block = "open"
      <4>1. o.status = "committed"
        BY <2>5, <2>6, <3>5
      <4> QED
        BY <2>2, <2>3, <2>7, <2>8, <3>1, <3>5, <4>1, EndSubOrders
    <3> QED
      BY <3>2, <3>3, <3>4, <3>5
  <2>9. CASE ~IsSub(t)
    <3>1. session.block = "none" => session.levels = << >>
      BY <2>2 DEF Block
    <3>2. /\ session'.block = "none" /\ session'.levels = << >>
          /\ \/ session'.durable = session.durable
             \/ /\ session.block = "open" /\ a.reply \in {"ok", "broken"}
                /\ session'.durable = session.durable \cup InBlock(session)
      BY <2>1, <2>9, <3>1, HearCommit
    <3>3. a.reply \in {"ok", "broken"} => o.status \in {"committed", "in_doubt"}
      BY <2>5, <2>6, <2>9
    <3> QED
      BY <2>2, <2>3, <2>7, <2>9, <3>2, <3>3, EndRootOrders
  <2> QED
    BY <2>8, <2>9
<1> QED
  BY <1>1, <1>2

(* What abort() and the destructor of an object that goes on have in common. *)
LEMMA RolledBackOrders ==
  ASSUME Disciplined, TypeOK, SlotIsAlive, TypeOK', SlotIsAlive', Past,
         NEW c \in Seq(Tx), NEW p \in Seq(Nat), Nested(c, p),
         NEW t \in Tx, Act(t), c # << >>, t = c[Len(c)],
         NEW o, Ended(t, o), o.status = "aborted", Unregister(t),
         \/ tx[t].pending /\ UNCHANGED <<open, session>>
         \/ \E a \in DoAbort(t) : Receive(a)
  PROVE  OrderInv'
<1>1. Nest(c) /\ Block(c) /\ done' = done
  BY DEF Nested, Ended
<1>2. tx[t].pending => session.block # "open"
  BY <1>1 DEF Block
<1>3. CASE IsSub(t)
  <2>1. slot' = slot
    BY <1>3, UnregisterSub
  <2>2. CASE tx[t].pending /\ UNCHANGED <<open, session>>
    <3>1. Quiet /\ session'.block # "open"
      BY <1>1, <1>2, <2>2 DEF Quiet
    <3> QED
      BY <1>3, <2>1, <3>1, EndSubOrders
  <2>3. ASSUME NEW a \in DoAbort(t), Receive(a)
        PROVE  OrderInv'
    <3>1. \/ Dropped(session.durable)
          \/ Heard(Failed(Ready(session)))
          \/ Heard(RolledBackTo(Ready(session), t)) /\ HasSavepoint(session, t)
      BY <1>3, <2>3, HearRollbackTo
    <3>2. CASE Dropped(session.durable)
      BY <1>3, <2>1, <3>2, EndSubOrders
    <3>3. CASE Heard(Failed(Ready(session)))
      <4>1. Quiet /\ session'.block # "open"
        BY <1>1, <3>3, FailedReadyQuiet
      <4> QED
        BY <1>3, <2>1, <4>1, EndSubOrders
    <3>4. CASE Heard(RolledBackTo(Ready(session), t)) /\ HasSavepoint(session, t)
      BY <1>3, <2>1, <3>4, EndSubOrders
    <3> QED
      BY <3>1, <3>2, <3>3, <3>4
  <2> QED
    BY <2>2, <2>3
<1>4. CASE ~IsSub(t)
  <2>1. CASE tx[t].pending /\ UNCHANGED <<open, session>>
    BY <1>2, <1>4, <2>1, EndRootOrders
  <2>2. ASSUME NEW a \in DoAbort(t), Receive(a)
        PROVE  OrderInv'
    <3>1. /\ session'.block = "none" /\ session'.levels = << >>
          /\ session'.durable = session.durable
      BY <1>4, <2>2, HearRollback
    <3> QED
      BY <1>4, <3>1, EndRootOrders
  <2> QED
    BY <2>1, <2>2
<1> QED
  BY <1>3, <1>4

LEMMA AbortOrders ==
  ASSUME Disciplined, TypeOK, SlotIsAlive, TypeOK', SlotIsAlive', Past,
         NEW c \in Seq(Tx), NEW p \in Seq(Nat), Nested(c, p),
         NEW t \in Tx, Abort(t)
  PROVE  OrderInv'
<1> DEFINE o == [tx[t] EXCEPT !.status = "aborted", !.pending = FALSE,
                              !.registered = FALSE]
<1>1. /\ Nest(c) /\ Usable(t) /\ Act(t) /\ ~tx[t].focus /\ done' = done
      /\ tx' = [tx EXCEPT ![t] = o] /\ tx[t] \in Object /\ Unregister(t)
  BY DEF Nested, Abort, Usable, Act, TypeOK
<1>2. c # << >> /\ t = c[Len(c)]
  BY <1>1, Innermost
<1>3. /\ o.parent = tx[t].parent /\ o.root = tx[t].root /\ o.life = tx[t].life
      /\ o.status = "aborted" /\ o.registered = FALSE
      /\ o.focus = tx[t].focus /\ o.pending = FALSE
  BY <1>1 DEF Object
<1> HIDE DEF o
<1>4. Ended(t, o)
  BY <1>1, <1>3 DEF Ended, Usable, Alive
<1>5. \/ tx[t].pending /\ UNCHANGED <<open, session>>
      \/ \E a \in DoAbort(t) : Receive(a)
  BY DEF Abort
<1> QED
  BY <1>1, <1>2, <1>3, <1>4, <1>5, RolledBackOrders

LEMMA DestroyOrders ==
  ASSUME Disciplined, TypeOK, SlotIsAlive, TypeOK', SlotIsAlive', Past,
         NEW c \in Seq(Tx), NEW p \in Seq(Nat), Nested(c, p),
         NEW t \in Tx, Destroy(t)
  PROVE  OrderInv'
<1>1. CASE tx[t].status # "active"
  BY <1>1, DestroyEndedOrders
<1>2. CASE tx[t].status = "active"
  <2> DEFINE o == [tx[t] EXCEPT !.life = "gone", !.pending = FALSE,
                                !.registered = FALSE,
                                !.status = IF @ = "active" THEN "aborted" ELSE @]
  <2>1. /\ Nest(c) /\ Act(t) /\ ~tx[t].focus /\ done' = done
        /\ \A s \in Tx : tx[s].parent = t => ~Alive(s)
        /\ tx' = [tx EXCEPT ![t] = o] /\ tx[t] \in Object /\ Unregister(t)
    BY <1>2 DEF Nested, Destroy, StillRegistered, Act, TypeOK
  <2>2. c # << >> /\ t = c[Len(c)]
    BY <2>1, Innermost
  <2>3. /\ o.parent = tx[t].parent /\ o.root = tx[t].root /\ o.life = "gone"
        /\ o.status = "aborted" /\ o.registered = FALSE
        /\ o.focus = tx[t].focus /\ o.pending = FALSE
    BY <1>2, <2>1 DEF Object
  <2> HIDE DEF o
  <2>4. Ended(t, o)
    BY <2>1, <2>3 DEF Ended
  <2>5. \E a \in DoAbort(t) : Receive(a)
    BY <1>2 DEF Destroy
  <2> QED
    BY <2>1, <2>2, <2>3, <2>4, <2>5, RolledBackOrders
<1> QED
  BY <1>1, <1>2
LEMMA CallOrders ==
  ASSUME Disciplined, TypeOK, SlotIsAlive, TypeOK', SlotIsAlive', Past,
         NEW c \in Seq(Tx), NEW p \in Seq(Nat), Nested(c, p), Next
  PROVE  OrderInv'
<1>1. CASE CloseConnection
  <2>1. Dropped(session.durable) /\ UNCHANGED <<tx, slot, done>>
    BY <1>1, RolledBackIs DEF CloseConnection, Dropped, TypeOK
  <2> QED
    BY <2>1, NothingOrders
<1>2. ASSUME NEW t \in Tx, Construct(t)
      PROVE  OrderInv'
  BY <1>2, ConstructOrders
<1>3. ASSUME NEW t \in Tx, NEW parent \in Tx, ConstructSub(t, parent)
      PROVE  OrderInv'
  BY <1>3, ConstructSubOrders
<1>4. ASSUME NEW t \in Tx, Exec(t)
      PROVE  OrderInv'
  BY <1>4, ThrowPendingOrders, SendWriteOrders DEF Exec
<1>5. ASSUME NEW t \in Tx, ExecParams(t)
      PROVE  OrderInv'
  BY <1>5, SendWriteOrders DEF ExecParams
<1>6. ASSUME NEW t \in Tx, OpenStream(t)
      PROVE  OrderInv'
  BY <1>6, OpenStreamOrders
<1>7. ASSUME NEW t \in Tx, CloseStream(t)
      PROVE  OrderInv'
  BY <1>7, CloseStreamOrders
<1>8. ASSUME NEW t \in Tx, Commit(t)
      PROVE  OrderInv'
  BY <1>8, CommitOrders
<1>9. ASSUME NEW t \in Tx, Abort(t)
      PROVE  OrderInv'
  BY <1>9, AbortOrders
<1>10. ASSUME NEW t \in Tx, Destroy(t)
       PROVE  OrderInv'
  BY <1>10, DestroyOrders
<1> QED
  BY <1>1, <1>2, <1>3, <1>4, <1>5, <1>6, <1>7, <1>8, <1>9, <1>10 DEF Next

LEMMA StepOrders ==
  ASSUME Disciplined, OrderInv, [Next]_vars
  PROVE  OrderInv'
<1>1. TypeOK /\ SlotIsAlive /\ Past
  BY DEF OrderInv
<1>2. TypeOK' /\ SlotIsAlive'
  BY <1>1, StepKeeps
<1>3. PICK c \in Seq(Tx), p \in Seq(Nat) : Nested(c, p)
  BY DEF OrderInv
<1>4. CASE Next
  BY <1>1, <1>2, <1>3, <1>4, CallOrders
<1>5. CASE UNCHANGED vars
  BY <1>1, <1>2, <1>3, <1>5, NothingOrders DEF vars
<1> QED
  BY <1>4, <1>5

LEMMA InitOrders ==
  ASSUME Init
  PROVE  OrderInv
<1>1. TypeOK /\ SlotIsAlive
  BY InitHolds
<1>2. /\ \A t \in Tx : tx[t] = Absent
      /\ session.block = "none" /\ session.levels = << >>
      /\ session.durable = {} /\ done = {}
  BY DEF Init, NewSession
<1>3. \A t \in Tx : /\ tx[t].life = "none" /\ tx[t].parent = NoTx
                    /\ ~tx[t].focus /\ ~tx[t].pending
  BY <1>2 DEF Absent
<1>4. Past
  <2>1. Kin
    BY <1>2, <1>3 DEF Kin, KinOf, IsSub
  <2>2. History /\ DurableWasCommitted
    BY <1>2 DEF History, DurableWasCommitted
  <2>3. AllOrNothing
    BY <1>2, AllOrNothingIs
  <2> QED
    BY <2>1, <2>2, <2>3 DEF Past
<1>5. << >> \in Seq(Tx) /\ << >> \in Seq(Nat) /\ DOMAIN << >> = {}
  OBVIOUS
<1>6. Nest(<< >>)
  BY <1>3, <1>5 DEF Nest, Act, Alive
<1>7. Block(<< >>)
  BY <1>2, <1>3, <1>5 DEF Block
<1>8. Nested(<< >>, << >>)
  BY <1>6, <1>7 DEF Nested
<1> QED
  BY <1>1, <1>4, <1>5, <1>8 DEF OrderInv

LEMMA OpenBlockFollows ==
  ASSUME OrderInv
  PROVE  OpenBlockIsOwned
<1>1. TypeOK /\ SlotIsAlive /\ Past
  BY DEF OrderInv
<1>2. PICK c \in Seq(Tx), p \in Seq(Nat) : Nested(c, p)
  BY DEF OrderInv
<1>3. ASSUME session.block = "open"
      PROVE  /\ slot # NoTx /\ tx[slot].status = "active"
             /\ \A w \in InBlock(session) : ~w.late => tx[w.by].root = slot
  <2>1. Nest(c) /\ c # << >> /\ Levels(c, p)
    BY <1>2, <1>3 DEF Nested, Block
  <2>2. slot \in Tx /\ Act(slot)
    BY <2>1, SlotActive
  <2>3. ASSUME NEW w \in InBlock(session), ~w.late
        PROVE  tx[w.by].root = slot
    <3>1. PICK j \in DOMAIN session.levels : w \in session.levels[j].writes
      BY <2>3 DEF InBlock
    <3> QED
      BY <2>1, <2>3, <3>1 DEF Levels, Placed
  <2> QED
    BY <2>2, <2>3, SessionAssumption DEF Act
<1> QED
  BY <1>3 DEF OpenBlockIsOwned

LEMMA OrderAlways ==
  ASSUME Disciplined
  PROVE  Spec => []OrderInv
<1>1. Init => OrderInv
  BY InitOrders
<1>2. OrderInv /\ [Next]_vars => OrderInv'
  BY StepOrders
<1> QED
  BY <1>1, <1>2, PTL DEF Spec

(* A block that could still commit is the registered, active transaction's,  *)
(* with everything in it: whatever transaction comes after one that failed,  *)
(* it never commits another's work.  The library asks for the nesting        *)
(* (Disciplined) in its comments, and does not check it.                     *)
THEOREM OpenBlockAlwaysOwned ==
  ASSUME Disciplined
  PROVE  Spec => []OpenBlockIsOwned
<1>1. Spec => []OrderInv
  BY OrderAlways
<1>2. OrderInv => OpenBlockIsOwned
  BY OpenBlockFollows
<1> QED
  BY <1>1, <1>2, PTL

(* What is durable was committed as far as the program was told, or is in    *)
(* doubt, by the transaction and by the subtransaction that wrote it.        *)
THEOREM DurableWasAlwaysCommitted ==
  ASSUME Disciplined
  PROVE  Spec => []DurableWasCommitted
<1>1. Spec => []OrderInv
  BY OrderAlways
<1>2. OrderInv => DurableWasCommitted
  BY DEF OrderInv, Past
<1> QED
  BY <1>1, <1>2, PTL

(* Of the writes an object was told of, all are durable or none is, however  *)
(* deep they were nested and wherever the connection broke.                  *)
THEOREM AlwaysAllOrNothing ==
  ASSUME Disciplined
  PROVE  Spec => []AllOrNothing
<1>1. Spec => []OrderInv
  BY OrderAlways
<1>2. OrderInv => AllOrNothing
  BY DEF OrderInv, Past
<1> QED
  BY <1>1, <1>2, PTL

=============================================================================
