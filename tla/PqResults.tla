------------------------------ MODULE PqResults ------------------------------
(***************************************************************************)
(* A result, its rows and their fields: rows that are slices of rows,      *)
(* columns found by number and by name, iterators forward and backward,    *)
(* a row's values as a tuple; and the error that a failed result throws,   *)
(* as pqxx::perform catches it.                                            *)
(***************************************************************************)
EXTENDS Naturals, Integers, Sequences, FiniteSets, FiniteSetsExt

CONSTANTS
  ColumnName,   (* Names of columns.                                       *)
  MaxColumns,   (* Bound: the columns of a result.                         *)
  ResultRows,   (* The rows a result has.                                  *)
  SqlStates     (* SQLSTATEs to try, as class and rest.                    *)

ASSUME ResultAssumption ==
  /\ MaxColumns \in Nat /\ ResultRows \in Nat \ {0}
  /\ SqlStates \subseteq STRING \X STRING

VARIABLES
  names,        (* The names of m_result's columns.                        *)
  row,          (* m_index, m_begin and m_end.                             *)
  walk,         (* An iterator, and what it goes over.                     *)
  failure,      (* The last SQLSTATE, and the error it was thrown as.      *)
  cells,        (* History: the fields that the row has, as asked for.     *)
  place         (* History: the steps the iterator is from its begin.      *)

resultVars == <<names, row, walk, failure, cells, place>>

-----------------------------------------------------------------------------
Columns == Len(names)
Rows == ResultRows

(* field: m_row and m_col.  Each has a value of its own, or is null, so the  *)
(* place of a field stands for what is in it.                                *)
FieldAt(r, c) == [row |-> r, col |-> c]

SizeOf(r) == r.last - r.first

(* row::row *)
RowAt(i) == [index |-> i, first |-> 0, last |-> Columns]

(* row::operator[](size_type) *)
ByNumber(i) == FieldAt(row.index, row.first + i)

(* row::front and row::back *)
FrontField == FieldAt(row.index, row.first)
BackField == FieldAt(row.index, row.last - 1)

None == [row |-> -1, col |-> -1]

(* row::at(size_type): None when it throws. *)
At(i) == IF i >= SizeOf(row) THEN None ELSE ByNumber(i)

(* PQfnumber: the first column of a name, and -1 when there is none. *)
FirstNamed(name) ==
  LET named == {i \in 1 .. Columns : names[i] = name}
  IN IF named = {} THEN -1 ELSE Min(named) - 1

(* row::column_number: the name may be there once before the slice and once  *)
(* more in it.  -1 when it throws.                                           *)
ColumnNumber(name) ==
  LET n == FirstNamed(name)
      inside == {i \in row.first .. row.last - 1 : names[i + 1] = name}
  IN IF n = -1 \/ n >= row.last THEN -1
     ELSE IF n >= row.first THEN n - row.first
     ELSE IF inside = {} THEN -1 ELSE Min(inside) - row.first

(* row::at(zview) and row::operator[](zview) *)
ByName(name) ==
  LET n == ColumnNumber(name)
  IN IF n = -1 THEN None ELSE FieldAt(row.index, row.first + n)

(* row::as: check_size, and operator[] of each. *)
AsTuple == [i \in 1 .. SizeOf(row) |-> ByNumber(i - 1)]

(* row::to and extract_value, which takes the column of m_result. *)
ToTuple == [i \in 1 .. SizeOf(row) |-> FieldAt(row.index, i - 1)]

(* row::slice *)
Slice(from, to) ==
  [row EXCEPT !.first = row.first + from, !.last = row.first + to]

-----------------------------------------------------------------------------
(* Iterators.  const_row_iterator is a field, const_result_iterator a row,   *)
(* and a reverse iterator is one that is a place before what it stands for.  *)
NoWalk == [over |-> "nothing", back |-> FALSE, at |-> 0]

Begin(over) == IF over = "fields" THEN row.first ELSE 0
End(over) == IF over = "fields" THEN row.last ELSE Rows

(* const_reverse_row_iterator(super const &), const_reverse_result_iterator  *)
Reversed(at) == at - 1

(* base() *)
Base(at) == at + 1

(* begin, rbegin, end and rend *)
FirstOf(over, back) == IF back THEN Reversed(End(over)) ELSE Begin(over)
EndOf(over, back) == IF back THEN Reversed(Begin(over)) ELSE End(over)

(* operator*, with the row that an iterator over rows stands on *)
Deref(w) ==
  IF w.over = "fields" THEN FieldAt(row.index, w.at) ELSE FieldAt(w.at, 0)

(* operator++ and operator--, += and -= by a number *)
Moved(w, n) == w.at + (IF w.back THEN -n ELSE n)

(* operator+ of a reverse iterator goes by way of its base. *)
Plus(w, n) ==
  IF w.back THEN Reversed(Base(w.at) - n) ELSE w.at + n

(* operator- of two iterators *)
Distance(w, at) == IF w.back THEN at - w.at ELSE w.at - at

(* operator< *)
Before(w, at) == IF w.back THEN w.at > at ELSE w.at < at

(* result_iter of result::iter: it has no home once it is at the end. *)
IsHome(w) == w.over = "tuples" /\ w.at < Rows

-----------------------------------------------------------------------------
(* result::throw_sql_error *)
Specific ==
  [integrity |-> {"001", "502", "503", "505", "514"},
   rollback |-> {"000", "001", "003", "P01"},
   syntax |-> {"601", "703", "883", "P01"},
   resources |-> {"100", "200"}]

Thrown(class, rest) ==
  CASE class \in {"none", "empty", "08"} -> "broken_connection"
    [] class \in {"0L", "0P"} -> "insufficient_privilege"
    [] class = "42" /\ rest = "501" -> "insufficient_privilege"
    [] class = "40" /\ rest = "000" -> "transaction_rollback"
    [] class = "40" /\ rest = "001" -> "serialization_failure"
    [] class = "40" /\ rest = "003" -> "statement_completion_unknown"
    [] class = "40" /\ rest = "P01" -> "deadlock_detected"
    [] class = "23" -> IF rest \in Specific.integrity
                         THEN "a violation" ELSE "integrity_constraint_violation"
    [] class = "42" /\ rest \in Specific.syntax -> "syntax_error"
    [] class = "53" -> IF rest = "300" THEN "too_many_connections"
                       ELSE IF rest \in Specific.resources THEN "a shortage"
                       ELSE "insufficient_resources"
    [] class \in {"0A", "22", "24", "26", "34"} -> "an error of its own"
    [] class \in {"P0", "P1"} -> "plpgsql_error"
    [] OTHER -> "sql_error"

(* What the classes of except.hxx are derived from. *)
Parents(error) ==
  CASE error \in {"serialization_failure", "statement_completion_unknown",
                  "deadlock_detected"} -> {error, "transaction_rollback", "sql_error"}
    [] error = "transaction_rollback" -> {error, "sql_error"}
    [] error = "too_many_connections" -> {error, "broken_connection"}
    [] error = "broken_connection" -> {error}
    [] OTHER -> {error, "sql_error"}

(* Mutant: a rollback is caught before the statement of unknown outcome. *)
CatchesRollbackFirst ==
  <<[class |-> "in_doubt_error", retry |-> FALSE],
    [class |-> "transaction_rollback", retry |-> TRUE],
    [class |-> "statement_completion_unknown", retry |-> FALSE],
    [class |-> "broken_connection", retry |-> TRUE]>>

(* perform's clauses, in their order. *)
Catches ==
  <<[class |-> "in_doubt_error", retry |-> FALSE],
    [class |-> "statement_completion_unknown", retry |-> FALSE],
    [class |-> "broken_connection", retry |-> TRUE],
    [class |-> "transaction_rollback", retry |-> TRUE]>>

TriedAgain(error) ==
  LET clauses == {i \in DOMAIN Catches : Catches[i].class \in Parents(error)}
  IN clauses # {} /\ Catches[Min(clauses)].retry

NoFailure == [state |-> <<"00", "000">>, thrown |-> "nothing", again |-> FALSE]

-----------------------------------------------------------------------------
WholeRow(i) == [c \in 1 .. Columns |-> FieldAt(i, c - 1)]

ResultInit ==
  /\ names \in UNION {[1 .. n -> ColumnName] : n \in 1 .. MaxColumns}
  /\ row = RowAt(0) /\ cells = WholeRow(0)
  /\ walk = NoWalk /\ place = 0 /\ failure = NoFailure

(* result::at, operator[], front and back *)
TakeRow(i) ==
  /\ walk = NoWalk /\ i < Rows
  /\ row' = RowAt(i) /\ cells' = WholeRow(i)
  /\ UNCHANGED <<names, walk, failure, place>>

TakeSlice(from, to) ==
  /\ walk = NoWalk
  /\ from <= to /\ to <= SizeOf(row)
  /\ row' = Slice(from, to) /\ cells' = SubSeq(cells, from + 1, to)
  /\ UNCHANGED <<names, walk, failure, place>>

StartWalk(over, back) ==
  /\ walk = NoWalk /\ (over = "tuples" => ~back)
  /\ walk' = [over |-> over, back |-> back, at |-> FirstOf(over, back)]
  /\ place' = 0
  /\ UNCHANGED <<names, row, failure, cells>>

WalkLength == IF walk.over = "fields" THEN Len(cells) ELSE Rows

(* ++, --, += and -=: an iterator of tuples has ++ only. *)
Move(n) ==
  /\ walk # NoWalk /\ place + n \in 0 .. WalkLength
  /\ walk.over = "tuples" => n = 1
  /\ walk' = [walk EXCEPT !.at = Moved(walk, n)] /\ place' = place + n
  /\ UNCHANGED <<names, row, failure, cells>>

(* + and - *)
MoveByPlus(n) ==
  /\ walk.over \in {"fields", "rows"} /\ place + n \in 0 .. WalkLength
  /\ walk' = [walk EXCEPT !.at = Plus(walk, n)] /\ place' = place + n
  /\ UNCHANGED <<names, row, failure, cells>>

(* The iterator over rows is the row it stands on. *)
Arrive ==
  /\ walk.over = "rows" /\ place < Rows
  /\ row' = RowAt(walk.at) /\ cells' = WholeRow(IF walk.back THEN Rows - 1 - place ELSE place)
  /\ walk' = NoWalk /\ place' = 0
  /\ UNCHANGED <<names, failure>>

Leave ==
  /\ walk # NoWalk /\ walk' = NoWalk /\ place' = 0
  /\ UNCHANGED <<names, row, failure, cells>>

(* result::check_status, in a callback of perform *)
CheckStatus(state) ==
  LET error == Thrown(state[1], state[2])
  IN /\ failure' = [state |-> state, thrown |-> error, again |-> TriedAgain(error)]
     /\ UNCHANGED <<names, row, walk, cells, place>>

ResultNext ==
  \/ \E i \in 0 .. ResultRows - 1 : TakeRow(i)
  \/ \E from, to \in 0 .. MaxColumns : TakeSlice(from, to)
  \/ \E over \in {"fields", "rows", "tuples"}, back \in BOOLEAN : StartWalk(over, back)
  \/ \E n \in {-2, -1, 1, 2} : Move(n) \/ MoveByPlus(n)
  \/ Arrive \/ Leave
  \/ \E state \in SqlStates : CheckStatus(state)

ResultSpec == ResultInit /\ [][ResultNext]_resultVars

-----------------------------------------------------------------------------
(* Every variable has its type, and a row lies in its result. *)
ResultTypeOK ==
  /\ row.index \in 0 .. Rows - 1
  /\ row.first \in 0 .. Columns /\ row.last \in row.first .. Columns
  /\ walk.over \in {"nothing", "fields", "rows", "tuples"}
  /\ walk.at \in IF walk.back THEN Reversed(Begin(walk.over)) .. End(walk.over) - 1
                 ELSE Begin(walk.over) .. End(walk.over)
  /\ failure.again \in BOOLEAN

(* A slice of a slice of a row is a row with those of its fields that were   *)
(* asked for, whichever way one reads them, to() excepted: that one does for *)
(* slices that begin where the row does.                                     *)
SlicesAreRows ==
  /\ SizeOf(row) = Len(cells)
  /\ row.first = 0 => ToTuple = cells
  /\ AsTuple = cells
  /\ \A i \in 0 .. MaxColumns : At(i) = IF i < Len(cells) THEN cells[i + 1] ELSE None
  /\ Len(cells) > 0 => FrontField = cells[1] /\ BackField = cells[Len(cells)]

(* A name finds the first column of that name in the row, also if the result *)
(* has one more of the name before the slice.                                *)
NamesFindTheirs ==
  \A name \in ColumnName :
    LET named == {i \in 1 .. Len(cells) : names[cells[i].col + 1] = name}
    IN ByName(name) = IF named = {} THEN None ELSE cells[Min(named)]

(* Walking fields or rows, forward and backward, by steps and by jumps, one  *)
(* meets each in its turn, and the end where they end.                       *)
WalksMeetEach ==
  walk # NoWalk =>
    LET turn == IF walk.back THEN WalkLength - place ELSE place + 1
        end == EndOf(walk.over, walk.back)
        first == FirstOf(walk.over, walk.back)
    IN /\ place < WalkLength =>
            /\ Deref(walk) = IF walk.over = "fields" THEN cells[turn]
                             ELSE FieldAt(turn - 1, 0)
            /\ Before(walk, end)
       /\ (walk.at = end) = (place = WalkLength)
       /\ Distance(walk, first) = place
       /\ walk.over = "tuples" => IsHome(walk) = (place < WalkLength)

(* perform tries again after an error of the connection or a rollback that   *)
(* the server chose, and never when a statement may have been completed.     *)
OnlyTransientIsRetried ==
  failure.again <=>
    \/ failure.state[1] \in {"none", "empty", "08"}
    \/ failure.state \in {<<"40", r>> : r \in {"000", "001", "P01"}}
    \/ failure.state = <<"53", "300">>

(* A result gives what the server sent: its fields, by whatever way, or an   *)
(* error of the kind that perform must know it by.                           *)
ResultsAreFaithful ==
  SlicesAreRows /\ NamesFindTheirs /\ WalksMeetEach /\ OnlyTransientIsRetried

(* row.hxx of a slice: "It looks just like a normal result row, except       *)
(* slices can be empty", and of to(): "Extract entire row's values into a    *)
(* tuple".                                                                   *)
TuplesAreRows == ToTuple = cells

=============================================================================
