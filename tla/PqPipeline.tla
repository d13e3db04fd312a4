------------------------------ MODULE PqPipeline ------------------------------
(***************************************************************************)
(* pqxx::pipeline (pipeline.cxx): queries go to the server in batches, and *)
(* results come back in order, with nothing but the order to tell them     *)
(* apart.  A batch of several queries starts with a dummy, whose failure   *)
(* says that the whole batch was refused.                                  *)
(*                                                                         *)
(* A call is one step.  It is made of the class's own functions, which map *)
(* a state of pipeline, connection and server to the next; thrown is set   *)
(* from where one throws to the end of the call.                           *)
(***************************************************************************)
EXTENDS Integers, Sequences, FiniteSets, FiniteSetsExt, SequencesExt

CONSTANTS
  MaxQueries,   (* Bound: how many queries are inserted.                   *)
  MaxRetain     (* Bound: retain's parameter.                              *)

ASSUME PipelineAssumption ==
  /\ MaxQueries \in Nat \ {0}
  /\ MaxRetain \in Nat

VARIABLES
  pipe,   (* The pipeline, and the connection and server it talks to.      *)
  kind,   (* What will become of a query: see Kind.  Never changed.        *)
  told,   (* History: what retrieve() said of each query.                  *)
  cancelled   (* History: how the cancels so far went: see Completion.     *)

pipeVars == <<pipe, kind, told, cancelled>>

-----------------------------------------------------------------------------
Id == 1 .. MaxQueries

End == MaxQueries + 1      (* std::end(m_queries). *)

NoError == MaxQueries + 2  (* qid_limit(). *)

(* "good", "fails" when it runs, or "syntax", when it is not even read. *)
Kind == {"good", "fails", "syntax"}

(* A result: of which query, 0 for the dummy and for a batch as a whole.     *)
Answer == [of : -1 .. MaxQueries, ok : BOOLEAN]

None == [of |-> -1, ok |-> TRUE]   (* Query::res as long as it is empty. *)

PipeState ==
  [queue      : SUBSET Id,            (* m_queries *)
   res        : [Id -> Answer],       (* Query::res *)
   first      : 1 .. End,             (* m_issuedrange.first *)
   second     : 1 .. End,             (* m_issuedrange.second *)
   retain     : 0 .. MaxRetain,       (* m_retain *)
   waiting    : -MaxQueries .. MaxQueries,   (* m_num_waiting *)
   lastId     : 0 .. MaxQueries,      (* m_q_id *)
   dummy      : BOOLEAN,              (* m_dummy_pending *)
   error      : 0 .. NoError,         (* m_error *)
   registered : BOOLEAN,              (* transaction_focus *)
   wire       : Seq(Answer),          (* Results yet to be read. *)
   block      : {"auto", "open", "failed"},   (* The transaction. *)
   batch      : SUBSET Id,            (* The last string sent. *)
   ran        : [Id -> Nat],          (* Server: it took effect. *)
   thrown     : BOOLEAN]

HavePending(s) == s.first # s.second

(* ++iterator *)
Succ(s, i) == Min({j \in s.queue : j > i} \cup {End})

(* end(m_queries), or its begin. *)
Begin(s) == Min(s.queue \cup {End})

(* The queries from one iterator to another. *)
Between(s, i, j) == {q \in s.queue : i <= q /\ q < j}

(* An iterator's key.  std::end has none: what is read in its place depends  *)
(* on the build.  In libstdc++ it is the size of the map, which lies there.  *)
KeyOf(s, i) == IF i = End THEN Cardinality(s.queue) ELSE i

SetErrorAt(s, q) == [s EXCEPT !.error = Min({@, q})]

Throw(s) == [s EXCEPT !.thrown = TRUE]

InternalError(s) == Throw(SetErrorAt(s, 0))

-----------------------------------------------------------------------------

(* is_finished *)
IsFinished(s, q) == s.first = End \/ (q < s.first /\ q < s.error)

-----------------------------------------------------------------------------
(* The server, and libpq's end of the connection: external. *)

(* Ids of one statement string, in order. *)
Ordered(ids) ==
  CHOOSE f \in SetToSeqs(ids) : \A i, j \in DOMAIN f : i < j => f[i] < f[j]

Ran(s, ids) == [s EXCEPT !.ran = [q \in Id |-> IF q \in ids THEN @[q] + 1 ELSE @[q]]]

FailBlock(s) == [s EXCEPT !.block = IF @ = "auto" THEN "auto" ELSE "failed"]

(* A string of statements runs up to the first that fails.  One that cannot  *)
(* be read, or a failed block, refuses all of it.  Outside a block a string  *)
(* is a transaction, and a failure takes back what ran before it.            *)
Executed(s, ids, dummy) ==
  LET bad == {q \in ids : kind[q] # "good"}
      failing == Min(bad)
      done == {q \in ids : bad = {} \/ q < failing}
      results == [i \in DOMAIN Ordered(done) |->
                    [of |-> Ordered(done)[i], ok |-> TRUE]]
      head == IF dummy THEN <<[of |-> 0, ok |-> TRUE]>> ELSE << >>
      refused == [of |-> IF dummy THEN 0 ELSE Min(ids), ok |-> FALSE]
  IN CASE s.block = "failed" \/ \E q \in ids : kind[q] = "syntax" ->
            [FailBlock(s) EXCEPT !.wire = <<refused>>]
       [] bad = {} /\ s.block # "failed" ->
            [Ran(s, ids) EXCEPT !.wire = head \o results]
       [] OTHER ->
            [FailBlock(IF s.block = "auto" THEN s ELSE Ran(s, done)) EXCEPT
               !.wire = head \o results \o <<[of |-> failing, ok |-> FALSE]>>]

(* A request to cancel comes too late, or finds the string when n of its     *)
(* results are out.                                                          *)
CancelRequest(s) ==
  LET cut(n) == {s.wire[i].of : i \in n + 1 .. Len(s.wire)}
      lost(n) == IF s.block = "auto" THEN s.batch ELSE cut(n)
  IN {s} \cup
     {[FailBlock(s) EXCEPT
         !.wire = SubSeq(s.wire, 1, n) \o <<[of |-> 0, ok |-> FALSE]>>,
         !.ran = [q \in Id |-> IF q \in lost(n) THEN 0 ELSE @[q]]] :
       n \in 0 .. Len(s.wire) - 1}

(* PQgetResult waits for the next result and gives nullptr when there are no *)
(* more.                                                                     *)
NextResult(s) == IF s.wire = << >> THEN None ELSE Head(s.wire)

GotResult(s) == [s EXCEPT !.wire = IF @ = << >> THEN @ ELSE Tail(@)]

-----------------------------------------------------------------------------
(* Receiving. *)

(* obtain_result: the next result is that of the oldest pending query. *)
ObtainResult(s, expectNone) ==
  LET r == NextResult(s)
      g == GotResult(s)
  IN CASE s.wire = << >> /\ HavePending(s) /\ ~expectNone ->
            [SetErrorAt(s, KeyOf(s, s.first)) EXCEPT !.second = s.first]
       [] s.wire = << >> /\ (~HavePending(s) \/ expectNone) -> s
       [] s.wire # << >> /\ ~HavePending(s) ->
            Throw(SetErrorAt(g, Begin(g)))
       [] s.wire # << >> /\ HavePending(s) /\ s.res[s.first] # None ->
            InternalError(g)
       [] OTHER ->
            [g EXCEPT !.res[s.first] = r, !.first = Succ(s, s.first)]

(* Whether obtain_result returned true. *)
Obtained(s) == s.wire # << >> /\ HavePending(s) /\ s.res[s.first] = None

(* The replay stops after the query that failed. *)
Thud(s, next) == [s EXCEPT !.first = next, !.second = next]

(* One query of a refused batch, executed by itself: transaction_base::exec, *)
(* which throws what goes wrong.                                             *)
Tried(s) == Executed([s EXCEPT !.waiting = @ - 1], {s.first}, FALSE)

Passes(s) == Head(Tried(s).wire).ok

(* One turn of the loop.                                                     *)
Replayed(s) ==
  LET idle == [Tried(s) EXCEPT !.wire = << >>]
      next == Succ(s, s.first)
  IN IF Passes(s)
       THEN [idle EXCEPT !.res[s.first] = Head(Tried(s).wire), !.first = next]
     ELSE SetErrorAt(Thud(idle, next), IF next = End THEN s.first + 1 ELSE next)

(* The loop: there is another turn unless one fails or comes to the end of   *)
(* the batch.                                                                *)
Replay(s, stop) ==
  LET turn[n \in Nat] ==
        IF n = 0 THEN s
        ELSE LET t == turn[n - 1]
             IN IF Passes(t) /\ Replayed(t).first # stop THEN Replayed(t) ELSE t
  IN Replayed(turn[MaxQueries])

(* obtain_dummy.  A batch that was refused is replayed query by query, out   *)
(* of the focus.                                                             *)
ObtainDummy(s) ==
  LET r == NextResult(s)
      g == [GotResult(s) EXCEPT !.dummy = FALSE]
      stop == s.second
      blamed == [g EXCEPT !.res =
                   [q \in Id |-> IF q \in Between(g, g.first, stop) THEN r ELSE @[q]]]
      ended == ObtainResult(blamed, TRUE)
      forgotten == [ended EXCEPT !.waiting = @ + Cardinality(Between(ended, ended.first, stop)),
                                 !.second = ended.first, !.registered = FALSE]
  IN CASE s.wire = << >>        -> InternalError(g)
       [] s.wire # << >> /\ r.ok -> IF r.of = 0 THEN g ELSE InternalError(g)
       [] OTHER                  -> IF ended.thrown THEN ended
                                    ELSE Replay(forgotten, stop)

(* get_further_available_results, as long as results are there; which are    *)
(* there is up to the network.  The set of states it may end in.             *)
FurtherResults(s) ==
  LET got[n \in Nat] ==
        IF n = 0 THEN s
        ELSE LET g == got[n - 1] IN IF Obtained(g) THEN ObtainResult(g, FALSE) ELSE g
  IN {got[n] : n \in 0 .. Len(s.wire)} \cup {ObtainResult(got[Len(s.wire)], FALSE)}

(* The loop of receive. *)
ObtainUpTo(s, stop) ==
  LET got[n \in Nat] ==
        IF n = 0 THEN s
        ELSE LET g == got[n - 1]
                 next == ObtainResult(g, FALSE)
             IN IF Obtained(g) /\ next.first # stop THEN next ELSE g
  IN ObtainResult(got[Len(s.wire)], FALSE)

(* Mutant: the dummy's result is taken for the first query's. *)
AfterNoDummy(s) == [s EXCEPT !.dummy = FALSE]

AfterDummy(s) == IF s.dummy THEN ObtainDummy(s) ELSE s

(* receive *)
Receive(s, stop) ==
  LET d == AfterDummy(s)
      n == ObtainUpTo(d, stop)
  IN CASE d.thrown -> {d}
       [] ~d.thrown /\ ~n.thrown /\ n.first = stop -> FurtherResults(n)
       [] OTHER -> {n}

(* receive_if_available: perhaps nothing is.  After a replay, which left the *)
(* focus, the connection is idle: it has no result, and says so at once.     *)
ReceiveIfAvailable(s) ==
  LET d == AfterDummy(s)
      further == IF d.registered THEN FurtherResults(d) ELSE {ObtainResult(d, FALSE)}
  IN {s} \cup IF ~d.thrown /\ HavePending(d) THEN further ELSE {d}

-----------------------------------------------------------------------------
(* Sending. *)

(* Mutant: begins with queries whose results were not taken out yet. *)
OldestOfAll(s) == Begin(s)

(* "Start with oldest query (lowest id) not in previous issue range." *)
Oldest(s) == s.second

(* issue: everything from the oldest query that was not issued yet. *)
Issue(s) ==
  LET e == ObtainResult(s, FALSE)
      batch == Between(e, Oldest(e), End)
      dummy == Cardinality(batch) > 1
      sent == [e EXCEPT !.dummy = dummy, !.first = Oldest(e), !.second = End,
                        !.waiting = @ - Cardinality(batch), !.batch = batch]
  IN IF e.thrown \/ e.error # NoError THEN e
     ELSE Executed(sent, batch, dummy)

(* What follows unless something was thrown. *)
Then(states, op(_)) == UNION {IF s.thrown THEN {s} ELSE op(s) : s \in states}

IssueIf(s, cond) == {IF cond THEN Issue(s) ELSE s}

-----------------------------------------------------------------------------
(* Calls. *)

Return(states) == \E s \in states : pipe' = [s EXCEPT !.thrown = FALSE]

(* "whole" if each cancel came to its end; "halfway" since one threw on its  *)
(* way, until one comes to its end; "astray" if any other call came in       *)
(* between, which may take results of erased queries for those of others.    *)
Completion == {"whole", "halfway", "astray"}

OtherCall == cancelled' = IF cancelled = "whole" THEN "whole" ELSE "astray"

CancelCall(whole) ==
  cancelled' = IF cancelled = "astray" THEN "astray"
               ELSE IF whole THEN "whole" ELSE "halfway"

(* attach *)
Attached(s) == [s EXCEPT !.registered = TRUE]

(* insert *)
Insert ==
  /\ pipe.lastId < MaxQueries
  /\ LET q == pipe.lastId + 1
         s == [Attached(pipe) EXCEPT !.lastId = q,
                           !.queue = @ \cup {q}, !.waiting = @ + 1,
                           !.second = IF @ = End THEN q ELSE @,
                           !.first = IF @ = End THEN q ELSE @]
     IN Return(IF s.waiting <= s.retain THEN {s}
               ELSE Then(IF HavePending(s) THEN ReceiveIfAvailable(s) ELSE {s},
                         LAMBDA r : IssueIf(r, ~HavePending(r))))
  /\ UNCHANGED <<kind, told>> /\ OtherCall

(* complete *)
Complete ==
  /\ Return(
       Then(Then(IF HavePending(pipe) THEN Receive(pipe, pipe.second) ELSE {pipe},
                 LAMBDA r : IF r.waiting # 0 /\ r.error = NoError
                              THEN Then({Issue(r)}, LAMBDA i : Receive(i, End))
                              ELSE {r}),
            LAMBDA r : {[r EXCEPT !.registered = FALSE]}))
  /\ UNCHANGED <<kind, told>> /\ OtherCall

(* Mutant: the issued range is left alone if none is pending. *)
FlushedButRange(s) ==
  [s EXCEPT !.queue = {}, !.waiting = 0, !.dummy = FALSE,
            !.first = IF HavePending(s) THEN End ELSE @,
            !.second = IF HavePending(s) THEN End ELSE @]

(* What flush forgets.  The point of the error stays. *)
Flushed(s) ==
  [s EXCEPT !.queue = {}, !.first = End, !.second = End, !.waiting = 0,
            !.dummy = FALSE]

(* flush *)
Flush ==
  /\ Return(
       Then(IF HavePending(pipe) THEN Receive(pipe, pipe.second) ELSE {pipe},
            LAMBDA r : {[IF r.queue = {} THEN r ELSE Flushed(r)
                           EXCEPT !.registered = FALSE]}))
  /\ UNCHANGED <<kind, told>> /\ OtherCall

(* cancel erases one query to a turn, after a request to cancel that may     *)
(* throw: i is as far as it comes.  Several requests do what one does: the   *)
(* earliest cut stays.  The results on their way, the dummy's and those of   *)
(* erased queries included, stay there.  (To throw in the first turn changes *)
(* nothing.)                                                                 *)
Cancel ==
  /\ HavePending(pipe)
  /\ \E s \in CancelRequest(pipe) :
       \E i \in Between(s, Succ(s, s.first), s.second) \cup {s.second} :
         /\ pipe' = [s EXCEPT !.queue = @ \ Between(s, s.first, i), !.first = i]
         /\ CancelCall(i = s.second)
  /\ UNCHANGED <<kind, told>>

(* retain, and resume which it ends with *)
Resume(s) ==
  Then(IF HavePending(s) THEN ReceiveIfAvailable(s) ELSE {s},
       LAMBDA r : IF ~HavePending(r) /\ r.waiting # 0
                    THEN Then({Issue(r)}, ReceiveIfAvailable) ELSE {r})

Retain ==
  /\ \E n \in 0 .. MaxRetain :
       LET s == [pipe EXCEPT !.retain = n]
       IN Return(IF s.waiting >= n THEN Resume(s) ELSE {s})
  /\ UNCHANGED <<kind, told>> /\ OtherCall

(* retrieve, of the oldest query or of any: up to the point where the result *)
(* is taken out.                                                             *)
Fetch(s, q) ==
  LET issued == IF s.second # End /\ q >= s.second
                  THEN Then(IF HavePending(s) THEN Receive(s, s.second) ELSE {s},
                            LAMBDA r : IssueIf(r, r.error = NoError))
                  ELSE {s}
  IN Then(issued,
          LAMBDA r : CASE ~HavePending(r) -> {r}
                       [] HavePending(r) /\ q >= r.first -> Receive(r, Succ(r, q))
                       [] OTHER -> ReceiveIfAvailable(r))

(* What retrieve ends in: the result, or an exception. *)
Verdict(s, q) ==
  CASE s.thrown \/ q >= s.error -> "skipped"
    [] OTHER -> IF s.res[q].ok THEN "ok" ELSE "error"

Retrieve ==
  /\ \E q \in pipe.queue :
       \/ /\ q >= pipe.error
          /\ told' = [told EXCEPT ![q] = "skipped"]
          /\ UNCHANGED pipe
       \/ /\ q < pipe.error
          /\ \E s \in Fetch(pipe, q) :
               LET verdict == Verdict(s, q)
                   busy == IF s.waiting # 0 /\ ~HavePending(s) /\ s.error = NoError
                             THEN Issue(s) ELSE s
               IN IF verdict = "skipped" \/ busy.thrown
                    THEN /\ told' = [told EXCEPT ![q] = "skipped"]
                         /\ Return({IF verdict = "skipped" THEN s ELSE busy})
                  ELSE /\ told' = [told EXCEPT ![q] = verdict]
                       /\ Return({[busy EXCEPT !.queue = @ \ {q}]})
  /\ UNCHANGED kind /\ OtherCall

(* The program uses the transaction itself, where the focus lets it.  libpq  *)
(* drops results that are still on their way.                                *)
OtherExec ==
  /\ ~pipe.registered
  /\ pipe' = [pipe EXCEPT !.wire = << >>]
  /\ UNCHANGED <<kind, told>> /\ OtherCall

-----------------------------------------------------------------------------
PipelineInit ==
  /\ \E b \in {"auto", "open"} :
       pipe = [queue |-> {}, res |-> [q \in Id |-> None],
               first |-> End, second |-> End, retain |-> 0, waiting |-> 0,
               lastId |-> 0, dummy |-> FALSE, error |-> NoError,
               registered |-> TRUE, wire |-> << >>, block |-> b,
               batch |-> {},
               ran |-> [q \in Id |-> 0], thrown |-> FALSE]
  /\ kind \in [Id -> Kind] /\ told = [q \in Id |-> "nothing"] /\ cancelled = "whole"

PipelineNext ==
  \/ Insert \/ Complete \/ Flush \/ Cancel \/ Retain \/ Retrieve \/ OtherExec

PipelineSpec == PipelineInit /\ [][PipelineNext]_pipeVars

-----------------------------------------------------------------------------
(* Properties that hold. *)

(* Every variable has its type. *)
PipelineTypeOK ==
  /\ pipe \in PipeState
  /\ kind \in [Id -> Kind]
  /\ told \in [Id -> {"nothing", "ok", "error", "skipped"}]
  /\ cancelled \in Completion

(* No iterator is kept to a query that was erased, and those of the issued   *)
(* range are never past each other.                                          *)
IteratorsAreValid ==
  /\ {pipe.first, pipe.second} \subseteq pipe.queue \cup {End}
  /\ pipe.first <= pipe.second

(* m_num_waiting counts the queries that were not issued, until an error     *)
(* ends the issuing: it is what decides whether there is anything to send.   *)
WaitingIsCounted ==
  pipe.error = NoError => pipe.waiting = Cardinality(Between(pipe, pipe.second, End))

(* Results go to the queries they belong to, though nothing but their order  *)
(* tells them apart: a query's result is its own, or that of its whole batch.*)
(* A call that follows a cancel which threw on its way is where this ends.   *)
ResultsAreOwn ==
  cancelled # "astray" =>
    \A q \in Id : pipe.res[q] # None =>
                   \/ pipe.res[q].of = q
                   \/ pipe.res[q].of = 0 /\ ~pipe.res[q].ok

(* is_finished, "Is result for given query available?", promises no result   *)
(* that is not there.                                                        *)
FinishedHasResult ==
  \A q \in pipe.queue : IsFinished(pipe, q) => pipe.res[q] # None

(* A query whose batch was refused is run again; none takes effect twice.    *)
NoneRunsTwice == \A q \in Id : pipe.ran[q] <= 1

(* "While a pipeline is active, you cannot execute queries": as long as      *)
(* results are on their way, the pipeline is the transaction's focus.        *)
PendingHasFocus == HavePending(pipe) => pipe.registered

(* The members of the pipeline have their types, and agree with each other   *)
(* and with the wire: its iterators, its count of waiting queries, what it   *)
(* takes for finished, and its being the focus of the transaction.  They do  *)
(* so after a cancel that threw on its way, too.                             *)
QueueIsSound ==
  /\ PipelineTypeOK
  /\ IteratorsAreValid /\ WaitingIsCounted /\ FinishedHasResult /\ PendingHasFocus

(* A query of which the program was told that it succeeded did run, at least *)
(* inside a transaction block, and with no cancel left halfway.              *)
SuccessRan ==
  cancelled # "astray" =>
    \A q \in Id : told[q] = "ok" /\ pipe.block # "auto" => pipe.ran[q] = 1

(* Replaying a batch that was refused repeats nothing and hides nothing.     *)
QueriesRunAsTold == NoneRunsTwice /\ SuccessRan

-----------------------------------------------------------------------------
(* What the pipeline and the server are like between any two of the class's  *)
(* functions: the inductive invariant.                                       *)
Pending(s) == Between(s, s.first, s.second)

(* Iterators and count are right.  Whatever is to be issued yet, an error    *)
(* aside, has the focus to be issued in.                                     *)
QueueFits(s) ==
  /\ s.queue \subseteq 1 .. s.lastId
  /\ {s.first, s.second} \subseteq s.queue \cup {End} /\ s.first <= s.second
  /\ s.waiting \in 0 .. Cardinality(Between(s, s.second, End))
  /\ s.error = NoError => s.waiting = Cardinality(Between(s, s.second, End))
  /\ HavePending(s) => s.registered
  /\ s.error # NoError \/ s.waiting = 0 \/ s.registered

(* After an error nothing is pending, and all before it has been received.   *)
ErrorFits(s) ==
  s.error # NoError =>
    /\ ~HavePending(s) /\ s.error <= s.lastId + 1
    /\ \A q \in s.queue : q < s.error => q < s.first

(* Not issued yet, or not even inserted. *)
Unissued(s) == {q \in Id : q > s.lastId \/ (q \in s.queue /\ q >= s.second)}

(* Those before the pending ones have results, of queries that ran; the      *)
(* others have none and, until they are issued, did not run.                 *)
ResultsFit(s) ==
  /\ \A q \in s.queue : q < s.first => s.res[q] # None
  /\ \A q \in Id : s.res[q] # None =>
       s.res[q].of = q \/ (s.res[q].of = 0 /\ ~s.res[q].ok)
  /\ \A q \in Id :
       s.block # "auto" /\ s.res[q] # None /\ s.res[q].ok => s.ran[q] = 1
  /\ \A q \in Id : s.ran[q] <= 1
  /\ s.error = NoError =>
       /\ \A q \in Unissued(s) \cup Pending(s) : s.res[q] = None
       /\ \A q \in Unissued(s) : s.ran[q] = 0

(* The dummy's result comes first; when it is an error, it is all there is,  *)
(* and one of the batch will fail again.                                     *)
DummyFits(s) ==
  s.dummy =>
    /\ s.wire # << >> /\ s.wire[1].of = 0
    /\ ~s.wire[1].ok =>
         /\ Len(s.wire) = 1
         /\ \A q \in Pending(s) : s.ran[q] = 0
         /\ s.block = "failed" \/ \E q \in Pending(s) : kind[q] = "syntax"

(* Results come from the first pending query on, in the queries' order.      *)
AnswersFit(s) ==
  LET from == IF s.dummy THEN 2 ELSE 1
  IN /\ from <= Len(s.wire) => s.wire[from].of = s.first
     /\ \A i \in from .. Len(s.wire) :
          /\ s.wire[i].of \in Pending(s)
          /\ i < Len(s.wire) => s.wire[i + 1].of = Succ(s, s.wire[i].of)
          /\ s.block # "auto" /\ s.wire[i].ok => s.ran[s.wire[i].of] = 1

(* While queries are pending, the wire has theirs and nothing else: not so   *)
(* once they are cancelled.                                                  *)
WireFits(s) == HavePending(s) => DummyFits(s) /\ AnswersFit(s)

(* What retrieve said is still true, and the query is gone. *)
ToldFits(s) ==
  \A q \in Id : told[q] = "ok" =>
    /\ q <= s.lastId /\ q \notin s.queue
    /\ s.block # "auto" => s.ran[q] = 1

PipeFits(s) ==
  /\ s \in PipeState
  /\ QueueFits(s) /\ ErrorFits(s) /\ ResultsFit(s) /\ WireFits(s) /\ ToldFits(s)

(* A cancel that threw on its way left results of erased queries on the      *)
(* wire.  None of these has a result, nor was one told.                      *)
ErasedFit(s) ==
  \A i \in 1 .. Len(s.wire) :
    s.wire[i].of \in Id => s.res[s.wire[i].of] = None /\ told[s.wire[i].of] # "ok"

HalfFits(s) ==
  /\ s \in PipeState /\ HavePending(s)
  /\ QueueFits(s) /\ ErrorFits(s) /\ ResultsFit(s) /\ ErasedFit(s) /\ ToldFits(s)

PipelineInv ==
  /\ kind \in [Id -> Kind]
  /\ told \in [Id -> {"nothing", "ok", "error", "skipped"}]
  /\ cancelled \in Completion
  /\ cancelled = "whole" => PipeFits(pipe) /\ ~pipe.thrown
  /\ cancelled = "halfway" => HalfFits(pipe) /\ ~pipe.thrown

-----------------------------------------------------------------------------
(* What the comments say, and the code does not. *)

(* flush: "Any error state (unless caused by an internal error) will also be *)
(* cleared".                                                                 *)
FlushClearsError == [][Flush => pipe'.error \in {0, NoError}]_pipeVars

=============================================================================
