-------------------------------- MODULE PqCursor --------------------------------
(***************************************************************************)
(* Cursors: sql_cursor, which reckons where the server's cursor stands     *)
(* from how far its moves fell short; stateless_cursor, which lets a       *)
(* program ask for any rows; and icursorstream with its icursor_iterators, *)
(* which form a linked list so that one read can serve them all.           *)
(*                                                                         *)
(* The cursor has MaxRows rows at most.  Position 0 is before the first    *)
(* row, and the one after the number of rows is behind the last.           *)
(***************************************************************************)
EXTENDS Integers, Sequences, FiniteSets, SequencesExt, FiniteSetsExt

CONSTANTS
  MaxRows,    (* Bound: the size of the result set.                        *)
  MaxStride,  (* Bound: the stride of a stream.                            *)
  Iter,       (* The icursor_iterator objects.                             *)
  NoIter      (* A null pointer.                                           *)

ASSUME CursorAssumption ==
  MaxRows \in Nat /\ MaxStride \in Nat \ {0} /\ NoIter \notin Iter

VARIABLES
  use,        (* What the sql_cursor belongs to, and how many rows it has. *)
  cursor,     (* The sql_cursor.                                           *)
  served,     (* Server: the cursor's position.                            *)
  answer,     (* What stateless_cursor retrieved last.                     *)
  stream,     (* The icursorstream.                                        *)
  iters       (* Its iterators.                                            *)

cursorVars == <<use, cursor, served, answer, stream, iters>>

-----------------------------------------------------------------------------
RowsLeft == use.rows

(* cursor_base::all, more than there are, and what is asked for else. *)
All == MaxRows + 2

Stride == -All .. All

SqlCursor == [open    : BOOLEAN,                (* m_ownership, by close. *)
              atEnd   : -1 .. 1,                (* m_at_end *)
              pos     : -1 .. MaxRows + 1,      (* m_pos, -1 if unknown. *)
              endpos  : -1 .. MaxRows + 1,      (* m_endpos, likewise. *)
              failed  : BOOLEAN]                (* An internal_error came. *)

(* What the constructors make: of a query, and of another's cursor. *)
Created == [open |-> TRUE, atEnd |-> -1, pos |-> 0, endpos |-> -1, failed |-> FALSE]

Adopted == [open |-> TRUE, atEnd |-> 0, pos |-> -1, endpos |-> -1, failed |-> FALSE]

(* Some rows of the result set, in the order of one of two directions: from  *)
(* row "from", which counts from 0, and "size" of them.                      *)
Block == [from : -1 .. MaxRows, size : 0 .. MaxRows, dir : {-1, 1}]

Empty == [from |-> -1, size |-> 0, dir |-> 1]

Size(n) == IF n < 0 THEN -n ELSE n

-----------------------------------------------------------------------------
(* The server's cursor: external. *)

(* How many rows a FETCH or MOVE of k passes from position p, and where it   *)
(* ends: past the last of them, or beyond the result set if there were less. *)
Passed(p, k) ==
  IF k > 0 THEN Min({k, Max({RowsLeft - p, 0})}) ELSE Min({-k, Max({p - 1, 0})})

Landed(p, k) ==
  CASE Passed(p, k) = Size(k) -> p + k
    [] Passed(p, k) # Size(k) -> IF k > 0 THEN RowsLeft + 1 ELSE 0

Fetched(p, k) ==
  IF Passed(p, k) = 0 THEN Empty
  ELSE [from |-> IF k > 0 THEN p ELSE Min({p, RowsLeft + 1}) - 2,
        size |-> Passed(p, k), dir |-> IF k > 0 THEN 1 ELSE -1]

-----------------------------------------------------------------------------
(* sql_cursor *)

(* "if our last move was in the same direction and also fell short, we're    *)
(* already at a one-past-end row."                                           *)
OneMore(c, direction) == IF c.atEnd # direction THEN 1 ELSE 0

(* Mutant: how far the move went is taken for where it began. *)
EndReachedByMove(pos, went) == went

(* The end that was hit is where the position now is. *)
EndReached(pos, went) == pos

(* adjust *)
Adjust(c, hoped, actual) ==
  LET direction == IF hoped < 0 THEN -1 ELSE 1
      short == actual # Size(hoped)
      went == IF short THEN actual + OneMore(c, direction) ELSE actual
      from == IF short /\ direction < 0 /\ c.pos = -1 THEN went ELSE c.pos
      pos == IF from >= 0 THEN from + direction * went ELSE from
      strange == \/ short /\ direction < 0 /\ from # went
                 \/ short /\ direction > 0 /\ c.endpos >= 0 /\ pos # c.endpos
  IN [c EXCEPT !.pos = pos, !.atEnd = IF short THEN direction ELSE 0,
               !.endpos = IF short /\ direction > 0 THEN EndReached(pos, went) ELSE @,
               !.failed = strange]

(* fetch and move: by 0 does not even ask the server. *)
MovedBy(c, p, k) == IF k = 0 THEN c ELSE Adjust(c, k, Passed(p, k))

MovedTo(p, k) == IF k = 0 THEN p ELSE Landed(p, k)

Usable == cursor.open /\ ~cursor.failed

FetchOrMove ==
  /\ Usable /\ use.by = "sql_cursor"
  /\ \E k \in Stride :
       cursor' = MovedBy(cursor, served, k) /\ served' = MovedTo(served, k)
  /\ UNCHANGED <<use, answer, stream, iters>>

(* close, by the destructor at the latest. *)
CloseCursor ==
  /\ cursor.open
  /\ cursor' = [cursor EXCEPT !.open = FALSE]
  /\ UNCHANGED <<use, served, answer, stream, iters>>

-----------------------------------------------------------------------------
(* stateless_cursor *)

(* The distance to move before reading, so that the first row is next. *)
Approach(begin, direction, pos) == (begin - direction) - (pos - 1)

(* obtain_stateless_cursor_size, and stateless_cursor_retrieve.  A position  *)
(* out of range is an exception.                                             *)
Retrieve ==
  /\ Usable /\ use.by = "stateless_cursor"
  /\ \E begin, end \in -2 .. MaxRows + 1 :
       LET far == IF cursor.endpos = -1 THEN All ELSE 0
           sized == MovedBy(cursor, served, far)
           p == MovedTo(served, far)
           size == sized.endpos - 1
           to == Max({-1, Min({end, size})})
           direction == IF begin < to THEN 1 ELSE -1
           approach == Approach(begin, direction, sized.pos)
           ready == MovedBy(sized, p, approach)
           q == MovedTo(p, approach)
       IN IF begin < 0 \/ begin > size \/ begin = to
            THEN /\ cursor' = sized /\ served' = p
                 /\ answer' = [begin |-> begin, end |-> end, rows |-> Empty,
                               thrown |-> begin < 0 \/ begin > size]
            ELSE /\ cursor' = MovedBy(ready, q, to - begin)
                 /\ served' = MovedTo(q, to - begin)
                 /\ answer' = [begin |-> begin, end |-> end,
                               rows |-> Fetched(q, to - begin), thrown |-> FALSE]
  /\ UNCHANGED <<use, stream, iters>>

-----------------------------------------------------------------------------
(* icursorstream *)

Stream == [stride  : 1 .. MaxStride,               (* m_stride *)
           realpos : 0 .. MaxRows,                 (* m_realpos *)
           reqpos  : Nat,                          (* m_reqpos *)
           done    : BOOLEAN,                      (* m_done *)
           first   : Iter \cup {NoIter}]           (* m_iterators *)

Iterator == [life     : {"none", "attached", "detached"},
             here     : Block,                     (* m_here *)
             pos      : Nat,                       (* m_pos *)
             prev     : Iter \cup {NoIter},
             next     : Iter \cup {NoIter}]

(* The list's state, in one value, for the functions that change it. *)
Whole == [cursor |-> cursor, served |-> served, stream |-> stream, iters |-> iters]

Become(w) ==
  /\ cursor' = w.cursor /\ served' = w.served
  /\ stream' = w.stream /\ iters' = w.iters
  /\ UNCHANGED <<use, answer>>

Advanced(w, k, done) ==
  [w EXCEPT !.cursor = MovedBy(w.cursor, w.served, k), !.served = MovedTo(w.served, k),
            !.stream.realpos = @ + Passed(w.served, k), !.stream.done = @ \/ done]

(* fetchblock *)
FetchBlock(w) ==
  Advanced(w, w.stream.stride, Passed(w.served, w.stream.stride) = 0)

(* ignore *)
IgnoreRows(w, n) ==
  IF n = 0 THEN w ELSE Advanced(w, n, Passed(w.served, n) < n)

Attached == {i \in Iter : iters[i].life = "attached"}

Streaming == Usable /\ use.by = "icursorstream"

(* "Do not read from the underlying stream or its cursor, move its read      *)
(* position, or change its stride" while there are iterators.  Nor are there *)
(* any made later, as they would begin where reading does no more.           *)
Get == Streaming /\ Attached = {} /\ Become(FetchBlock(Whole))

Ignore ==
  Streaming /\ Attached = {} /\ \E n \in 1 .. MaxRows + 1 : Become(IgnoreRows(Whole, n))

SetStride ==
  /\ Streaming /\ Attached = {}
  /\ \E n \in 1 .. MaxStride : Become([Whole EXCEPT !.stream.stride = n])

(* insert_iterator: in front of the others. *)
Inserted(w, i) ==
  LET first == w.stream.first
      linked == [w.iters EXCEPT ![i].life = "attached", ![i].next = first]
  IN [w EXCEPT !.stream.first = i,
               !.iters = IF first = NoIter THEN linked
                         ELSE [linked EXCEPT ![first].prev = i]]

(* What remove_iterator does to the neighbours. *)
Unlinked(w, i) ==
  LET it == w.iters[i]
      before == IF i = w.stream.first THEN w.iters ELSE [w.iters EXCEPT ![it.prev].next = it.next]
  IN [w EXCEPT !.stream.first = IF i = @ THEN it.next ELSE @,
               !.iters = IF it.next = NoIter THEN before
                         ELSE [before EXCEPT ![it.next].prev = it.prev]]

(* remove_iterator *)
Removed(w, i) ==
  LET u == IF i = w.stream.first THEN Unlinked([w EXCEPT !.iters[i].prev = NoIter], i)
           ELSE Unlinked(w, i)
  IN [u EXCEPT !.iters[i].prev = NoIter, !.iters[i].next = NoIter]

(* The positions at which an iterator waits, up to that of who asked. *)
ToServe(w, topos) ==
  {w.iters[i].pos : i \in {j \in Iter : /\ w.iters[j].life = "attached"
                                        /\ w.iters[j].pos >= w.stream.realpos
                                        /\ w.iters[j].pos <= topos}}

(* One position of service_iterators: read there, and fill those who wait.   *)
ServeAt(w, readpos) ==
  LET there == IgnoreRows(w, Max({readpos - w.stream.realpos, 0}))
      block == Fetched(there.served, there.stream.stride)
      waiting == {i \in Iter : w.iters[i].life = "attached" /\ w.iters[i].pos = readpos}
  IN [FetchBlock(there) EXCEPT
        !.iters = [i \in Iter |-> IF i \in waiting THEN [@[i] EXCEPT !.here = block]
                                  ELSE @[i]]]

(* service_iterators: the loop over the todo list, which is in the order of   *)
(* the positions, when those before realpos + n are done.                    *)
Serviced(w, topos) ==
  LET realpos == w.stream.realpos
      todo == ToServe(w, topos)
      after[n \in Nat] ==
        IF n = 0 THEN w
        ELSE IF realpos + n - 1 \in todo THEN ServeAt(after[n - 1], realpos + n - 1)
        ELSE after[n - 1]
  IN IF topos < realpos THEN w ELSE after[topos - realpos + 1]

-----------------------------------------------------------------------------
(* icursor_iterator *)

(* The constructor, on a stream that nothing was read from. *)
NewIterator ==
  /\ Streaming /\ stream.realpos = 0 /\ stream.reqpos = 0
  /\ \E i \in Iter :
       /\ iters[i].life = "none"
       /\ Become(Inserted([Whole EXCEPT !.iters[i].pos = stream.reqpos], i))

(* The default constructor: an end. *)
NewEnd ==
  /\ Streaming
  /\ \E i \in Iter :
       /\ iters[i].life = "none"
       /\ Become([Whole EXCEPT !.iters[i].life = "detached"])

Live(i) == iters[i].life # "none"

(* Mutant: the block is copied, and the position is not. *)
WithBlockOf(w, i, j) == [w EXCEPT !.iters[i].here = w.iters[j].here]

(* Both of what an iterator knows. *)
WithValueOf(w, i, j) == [w EXCEPT !.iters[i].here = w.iters[j].here,
                                  !.iters[i].pos = w.iters[j].pos]

(* The copy constructor, and assignment, which attaches and detaches. *)
CopyIterator ==
  /\ Streaming
  /\ \E i, j \in Iter :
       /\ i # j /\ Live(j)
       /\ LET freed == IF iters[i].life = "attached" /\ iters[j].life # "attached"
                         THEN Removed(Whole, i) ELSE Whole
              set == WithValueOf(freed, i, j)
          IN Become(IF iters[j].life = "attached"
                      THEN IF iters[i].life = "attached" THEN set ELSE Inserted(set, i)
                      ELSE [set EXCEPT !.iters[i].life = "detached"])

Gone == [life |-> "none", here |-> Empty, pos |-> 0, prev |-> NoIter, next |-> NoIter]

(* The destructor. *)
DestroyIterator ==
  /\ \E i \in Iter :
       /\ Live(i)
       /\ LET w == IF iters[i].life = "attached" THEN Removed(Whole, i) ELSE Whole
          IN Become([w EXCEPT !.iters[i] = Gone])

(* ++ and +=, by way of forward: wherever the iterator was, it moves on from *)
(* where the stream's iterators have come to.                                *)
Advance ==
  /\ Streaming
  /\ \E i \in Attached, n \in 1 .. 2 :
       LET to == stream.reqpos + n * stream.stride
       IN /\ to <= MaxRows + MaxStride
          /\ Become([Whole EXCEPT !.stream.reqpos = to, !.iters[i].pos = to,
                                  !.iters[i].here = Empty])

(* Dereference, or comparison with an end: refresh. *)
Refresh ==
  Streaming /\ \E i \in Attached : Become(Serviced(Whole, iters[i].pos))

-----------------------------------------------------------------------------
CursorInit ==
  /\ \E by \in {"sql_cursor", "stateless_cursor", "icursorstream"}, n \in 0 .. MaxRows :
       use = [by |-> by, rows |-> n]
  /\ \/ cursor = Created /\ served = 0
     \/ /\ use.by # "icursorstream"
        /\ \E p \in 0 .. use.rows + 1 :
             LET back == IF use.by = "stateless_cursor" THEN -All ELSE 0
             IN cursor = MovedBy(Adopted, p, back) /\ served = MovedTo(p, back)
  /\ answer = [begin |-> 0, end |-> 0, rows |-> Empty, thrown |-> FALSE]
  /\ \E s \in 1 .. MaxStride :
       /\ use.by # "icursorstream" => s = 1
       /\ stream = [stride |-> s, realpos |-> 0, reqpos |-> 0, done |-> FALSE,
                    first |-> NoIter]
  /\ iters = [i \in Iter |-> Gone]

CursorNext ==
  \/ FetchOrMove \/ CloseCursor \/ Retrieve
  \/ Get \/ Ignore \/ SetStride
  \/ NewIterator \/ NewEnd \/ CopyIterator \/ DestroyIterator \/ Advance \/ Refresh

CursorSpec == CursorInit /\ [][CursorNext]_cursorVars

-----------------------------------------------------------------------------
(* Every variable has its type. *)
CursorTypeOK ==
  /\ cursor \in SqlCursor /\ served \in 0 .. RowsLeft + 1
  /\ answer.rows \in Block
  /\ stream \in Stream /\ iters \in [Iter -> Iterator]

(* The position that the client reckons is the server's, and the end it      *)
(* found is one, from wherever an adopted cursor set out.                    *)
PositionsAgree ==
  /\ cursor.pos # -1 => cursor.pos = served
  /\ cursor.endpos # -1 => cursor.endpos = RowsLeft + 1

(* The contradictions for which adjust has an internal_error do not occur.   *)
NoContradiction == ~cursor.failed

(* The rows from begin to before end, those that exist, in either direction: *)
(* what the comment of retrieve promises.                                    *)
Promised(begin, end) ==
  LET wanted == {r \in 0 .. RowsLeft - 1 : IF begin < end THEN begin <= r /\ r < end
                                       ELSE end < r /\ r <= begin}
  IN IF wanted = {} THEN Empty
     ELSE [from |-> IF begin < end THEN Min(wanted) ELSE Max(wanted),
           size |-> Cardinality(wanted), dir |-> IF begin < end THEN 1 ELSE -1]

(* A stateless cursor returns the rows that were asked for, whatever it was  *)
(* asked before, if the first of them is "a valid row number".               *)
RetrievesRows ==
  answer.begin \in 0 .. RowsLeft - 1 => answer.rows = Promised(answer.begin, answer.end)

(* A cursor knows where it is, and gives the rows that it was asked for.     *)
CursorIsExact == PositionsAgree /\ NoContradiction /\ RetrievesRows

(* The same for begin_pos "one row beyond the end of the result set", which  *)
(* the comment allows.  From there the code reads backwards one row too far. *)
RetrievesFromEnd ==
  ~answer.thrown => answer.rows = Promised(answer.begin, answer.end)

(* The list of iterators holds each attached one, once, and its links back   *)
(* are the inverse of those forward.                                         *)
IteratorsAreLinked ==
  \E chain \in SetToSeqs(Attached) :
    LET n == Cardinality(Attached)
    IN /\ stream.first = IF n = 0 THEN NoIter ELSE chain[1]
       /\ \A k \in 1 .. n :
            /\ iters[chain[k]].prev = IF k = 1 THEN NoIter ELSE chain[k - 1]
            /\ iters[chain[k]].next = IF k = n THEN NoIter ELSE chain[k + 1]

(* Whoever read it, what an iterator holds is the block at its position.     *)
BlocksBelong ==
  \A i \in Attached :
    iters[i].here # Empty =>
      iters[i].here = [from |-> iters[i].pos, dir |-> 1,
                       size |-> Min({stream.stride, RowsLeft - iters[i].pos})]

(* And it holds none, so that it equals the end, only if there is none or it *)
(* has not been read yet.                                                    *)
EndIsEnd ==
  \A i \in Attached :
    iters[i].here = Empty => iters[i].pos >= Min({RowsLeft, stream.realpos})

(* However iterators of a stream come, go, and read for each other, each is  *)
(* told of the block at its position, and only of that.                      *)
StreamIsSound == IteratorsAreLinked /\ BlocksBelong /\ EndIsEnd

=============================================================================
