------------------------------- MODULE PqCopyText -------------------------------
(***************************************************************************)
(* stream_to and stream_from: rows as lines of COPY text, their fields     *)
(* escaped on one side and unescaped on the other.  The program streams    *)
(* its rows into the table of one connection, reads the tables of two, and *)
(* passes lines from one stream to the other.                              *)
(***************************************************************************)
EXTENDS PqEncodings, SequencesExt

CONSTANTS
  CopyEncodings,  (* Client encodings to try.                              *)
  CopyRow,        (* Rows of texts of an encoding, and of nulls.           *)
  MaxCopied       (* Bound: the rows of a table.                           *)

(* Fields are texts of their encoding, or null; a table has columns. *)
NullField == <<-1>>

ASSUME CopyAssumption ==
  /\ CopyEncodings \subseteq Encoding
  /\ \A e \in CopyEncodings : \A row \in CopyRow[e] :
       /\ row \in Seq(Seq(Int)) /\ row # << >>
       /\ \A i \in DOMAIN row : row[i] = NullField \/ IsText(e, row[i])

VARIABLES
  encoding,       (* The clients' encoding.                                *)
  converts,       (* Whether the target's server has another.              *)
  tables,         (* Server: the rows of each table.                       *)
  copying,        (* Server: what COPY FROM STDIN has had so far.          *)
  lines,          (* Server: what COPY TO STDOUT has still to send.        *)
  writer,         (* The stream_to.                                        *)
  reader,         (* The stream_from.                                      *)
  focused,        (* Each transaction's focus.                             *)
  given,          (* History: the rows that the program wrote or passed.   *)
  got             (* History: the rows that it read, and how that ended.   *)

copyVars ==
  <<encoding, converts, tables, copying, lines, writer, reader, focused, given, got>>

-----------------------------------------------------------------------------
Source == "source"

Target == "target"

Tab == 9
BackSlash == 92
LetterN == 78

(* The characters that COPY has letters for, and the letters. *)
Letters == {<<8, 98>>, <<12, 102>>, <<10, 110>>, <<13, 114>>, <<9, 116>>, <<11, 118>>}

LetterOf(c) == (CHOOSE l \in Letters : l[1] = c)[2]

CharOf(letter) == (CHOOSE l \in Letters : l[2] = letter)[1]

HasLetter(c) == \E l \in Letters : l[1] = c

IsLetter(c) == \E l \in Letters : l[2] = c

(* One byte, in escape_field_to_buffer. *)
EscapedByte(c) ==
  IF HasLetter(c) THEN <<BackSlash, LetterOf(c)>>
  ELSE IF c = BackSlash THEN <<BackSlash, BackSlash>>
  ELSE IF c < 32 \/ c > 126
    THEN <<BackSlash, 48 + c \div 64, 48 + ((c \div 8) % 8), 48 + (c % 8)>>
  ELSE <<c>>

(* append_to_buffer, for each field of a row. *)
Appended(buffer, fields) ==
  buffer \o FlattenSeq([i \in DOMAIN fields |->
    (IF fields[i] = NullField THEN <<BackSlash, LetterN>>
     ELSE FlattenSeq([j \in DOMAIN fields[i] |-> EscapedByte(fields[i][j])])) \o <<Tab>>])

(* write_buffer takes the last tab away. *)
LineOf(buffer) == IF buffer = << >> THEN << >> ELSE Front(buffer)

-----------------------------------------------------------------------------
(* Loops over a line: where they read, the fields they have ended, and the   *)
(* one they are in.                                                          *)
LineStart == [read |-> 0, fields |-> << >>, field |-> << >>]

ByteIn(line, p) == IF p < Len(line) THEN line[p + 1] ELSE -1

Taken(s, n, text) ==
  [read |-> s.read + n, fields |-> s.fields, field |-> s.field \o text]

NullTaken(s) == [read |-> s.read + 2, fields |-> s.fields, field |-> NullField]

FieldEnded(s) == [read |-> s.read + 1, fields |-> Append(s.fields, s.field), field |-> << >>]

(* The server's end of COPY.  External.  COPY FROM: *)
StoreNext(line, s) ==
  LET next == Scan(encoding, line, s.read)
      c == ByteIn(line, s.read)
      e == ByteIn(line, s.read + 1)
      octal(n) == ByteIn(line, s.read + n) - 48
  IN IF s.read >= Len(line) THEN s
     ELSE IF next > s.read + 1 THEN Taken(s, next - s.read, SubSeq(line, s.read + 1, next))
     ELSE IF c = Tab THEN FieldEnded(s)
     ELSE IF c # BackSlash THEN Taken(s, 1, <<c>>)
     ELSE IF e = LetterN THEN NullTaken(s)
     ELSE IF e \in 48 .. 55 THEN Taken(s, 4, <<octal(1) * 64 + octal(2) * 8 + octal(3)>>)
     ELSE Taken(s, 2, <<IF IsLetter(e) THEN CharOf(e) ELSE e>>)

Stored(line) ==
  LET loop[k \in 0 .. Len(line)] ==
        IF k = 0 THEN LineStart ELSE StoreNext(line, loop[k - 1])
      end == loop[Len(line)]
  IN Append(end.fields, end.field)

(* No server can have these: whoever uses one has the server convert. *)
ClientOnly == {"BIG5", "GB18030", "GBK", "JOHAB", "SJIS", "UHC"}

(* A text that is the same in every encoding, or null. *)
IsPlain(field) == field = NullField \/ \A i \in DOMAIN field : field[i] \in Ascii

CopyTexts == UNION {Range(row) : row \in CopyRow[encoding]} \ {NullField}

(* A server converts lines from the clients' encoding, and reads the escapes  *)
(* after that: a byte of an octal code is one of its own encoding, in which   *)
(* it is part of another text than was meant, or of none, for which it will   *)
(* refuse the COPY.  These are the rows that it may have made of some fields. *)
Understood(fields) ==
  IF ~converts THEN {fields}
  ELSE {row \in [DOMAIN fields -> Range(fields) \cup CopyTexts] :
          \A i \in DOMAIN fields :
             row[i] = fields[i] \/ (~IsPlain(fields[i]) /\ row[i] # NullField)}

(* COPY TO: only characters of a single byte are escaped. *)
ShowNext(field, s) ==
  LET next == Scan(encoding, field, s.read)
      c == ByteIn(field, s.read)
      to == IF next > s.read + 1 THEN next ELSE s.read + 1
  IN IF s.read >= Len(field) THEN s
     ELSE [read |-> to,
           line |-> s.line \o (IF HasLetter(c) THEN <<BackSlash, LetterOf(c)>>
                               ELSE IF c = BackSlash THEN <<BackSlash, BackSlash>>
                               ELSE SubSeq(field, s.read + 1, to))]

ShownField(field) ==
  LET loop[k \in 0 .. Len(field)] ==
        IF k = 0 THEN [read |-> 0, line |-> << >>] ELSE ShowNext(field, loop[k - 1])
  IN IF field = NullField THEN <<BackSlash, LetterN>> ELSE loop[Len(field)].line

Shown(fields) == Front(FlattenSeq([i \in DOMAIN fields |-> ShownField(fields[i]) \o <<Tab>>]))

-----------------------------------------------------------------------------
(* m_glyph_scanner *)
NextSeq(line, p) == Scan(encoding, line, p)

(* In the place of the fields of a line for which parse_line throws. *)
Refused(line) == [read |-> Len(line), fields |-> << >>, field |-> <<-2>>]

(* A round of the loop in parse_line. *)
ParseNext(line, s) ==
  LET next == NextSeq(line, s.read)
      c == ByteIn(line, s.read)
      e == ByteIn(line, s.read + 1)
  IN IF s.read >= Len(line) THEN s
     ELSE IF next = Throws THEN Refused(line)
     ELSE IF next > s.read + 1 THEN Taken(s, next - s.read, SubSeq(line, s.read + 1, next))
     ELSE IF c = Tab THEN FieldEnded(s)
     ELSE IF c # BackSlash THEN Taken(s, 1, <<c>>)
     ELSE IF s.read + 2 > Len(line) \/ (e = LetterN /\ s.field # << >>) THEN Refused(line)
     ELSE IF e = LetterN THEN NullTaken(s)
     ELSE Taken(s, 2, <<IF IsLetter(e) THEN CharOf(e) ELSE e>>)

(* m_fields *)
Parsed(line) ==
  LET loop[k \in 0 .. Len(line)] ==
        IF k = 0 THEN LineStart ELSE ParseNext(line, loop[k - 1])
      end == loop[Len(line)]
  IN Append(end.fields, end.field)

-----------------------------------------------------------------------------
NoWriter == [state |-> "absent", buffer |-> << >>]

NoReader == [state |-> "absent", on |-> Source]

NothingOf(t) == [rows |-> << >>, of |-> tables[t], ended |-> "no"]

CopyInit ==
  /\ encoding \in CopyEncodings
  /\ converts \in BOOLEAN /\ (encoding \in ClientOnly => converts)
  /\ \E row \in CopyRow[encoding] : tables = [t \in {Source, Target} |->
                                              IF t = Source THEN <<row>> ELSE << >>]
  /\ copying = << >> /\ lines = << >> /\ writer = NoWriter /\ reader = NoReader
  /\ focused = [t \in {Source, Target} |-> "none"]
  /\ given = [rows |-> << >>, passed |-> {}, spoiled |-> FALSE]
  /\ got = NothingOf(Source)

(* Constructors of stream_to: the command, and register_me.  There is one.   *)
OpenWriter ==
  /\ writer.state = "absent" /\ focused[Target] = "none"
  /\ writer' = [state |-> "open", buffer |-> << >>]
  /\ focused' = [focused EXCEPT ![Target] = "writer"]
  /\ copying' = << >>
  /\ UNCHANGED <<encoding, converts, tables, lines, reader, given, got>>

(* A row: fill_buffer, write_buffer and write_copy_line. *)
WriteRow ==
  /\ writer.state = "open"
  /\ Len(tables[Target]) + Len(copying) < MaxCopied
  /\ \E row \in CopyRow[encoding] :
       /\ \E sent \in Understood(Stored(LineOf(Appended(writer.buffer, row)))) :
            copying' = Append(copying, sent)
       /\ given' = [given EXCEPT !.rows = Append(@, row)]
  /\ writer' = [writer EXCEPT !.buffer = << >>]
  /\ UNCHANGED <<encoding, converts, tables, lines, reader, focused, got>>

(* An exception on the way, from a conversion or from write_copy_line, keeps *)
(* what is in m_buffer.  Bound: once, and for the first row.                 *)
FailToWrite ==
  /\ writer.state = "open" /\ given.rows = << >> /\ ~given.spoiled
  /\ \E row \in CopyRow[encoding] :
       writer' = [writer EXCEPT !.buffer = Appended(@, SubSeq(row, 1, 1))]
  /\ given' = [given EXCEPT !.spoiled = TRUE]
  /\ UNCHANGED <<encoding, converts, tables, copying, lines, reader, focused, got>>

(* complete and the destructor: the stream is unregistered first, and the    *)
(* server then takes the rows, or refuses all of them.                       *)
CompleteWriter ==
  /\ writer.state = "open"
  /\ writer' = [writer EXCEPT !.state = "finished"]
  /\ focused' = [focused EXCEPT ![Target] = "none"]
  /\ copying' = << >>
  /\ \/ /\ tables' = [tables EXCEPT ![Target] = @ \o copying] /\ UNCHANGED given
     \/ /\ given' = [given EXCEPT !.rows = SubSeq(@, 1, Len(tables[Target])),
                                  !.passed = @ \cap (1 .. Len(tables[Target]))]
        /\ UNCHANGED tables
  /\ UNCHANGED <<encoding, converts, lines, reader, got>>

(* Constructors of stream_from.  There is one of those, too. *)
OpenReader ==
  /\ reader.state = "absent"
  /\ \E t \in {Source, Target} :
       /\ focused[t] = "none"
       /\ reader' = [state |-> "open", on |-> t]
       /\ focused' = [focused EXCEPT ![t] = "reader"]
       /\ lines' = [i \in DOMAIN tables[t] |-> Shown(tables[t][i])]
       /\ got' = NothingOf(t)
  /\ UNCHANGED <<encoding, converts, tables, copying, writer, given>>

(* close: what is still to come is thrown away by the next command. *)
Close ==
  /\ reader' = [reader EXCEPT !.state = "finished"]
  /\ focused' = [focused EXCEPT ![reader.on] = "none"]
  /\ lines' = << >>

(* read_row: parse_line and get_raw_line. *)
ReadRow ==
  /\ reader.state = "open" /\ lines # << >>
  /\ got' = [got EXCEPT !.rows = Append(@, Parsed(Head(lines)))]
  /\ lines' = Tail(lines)
  /\ UNCHANGED <<encoding, converts, tables, copying, writer, reader, focused, given>>

(* Mutant: an error is an end as any other. *)
AfterFailureEnd == "end"

(* What read_row tells when get_raw_line has thrown. *)
AfterFailure == "thrown"

(* No line is left: "end".  An error, of the server or of the connection, may *)
(* take the place of any line.                                                *)
ReadEnd ==
  /\ reader.state = "open" /\ Close
  /\ \/ lines = << >> /\ got' = [got EXCEPT !.ended = "end"]
     \/ got' = [got EXCEPT !.ended = AfterFailure]
  /\ UNCHANGED <<encoding, converts, tables, copying, writer, given>>

(* complete, and the destructor, which does not read. *)
CompleteReader ==
  /\ reader.state = "open" /\ Close
  /\ got' = [got EXCEPT !.ended = "left"]
  /\ UNCHANGED <<encoding, converts, tables, copying, writer, given>>

(* operator<<, of the one stream with the other: lines as they are, until    *)
(* the end, or until one of the two connections fails.  No octal codes are   *)
(* in them, so the target's server converts them as it should.               *)
Pipe ==
  /\ writer.state = "open" /\ reader.state = "open" /\ reader.on = Source
  /\ Len(tables[Target]) + Len(copying) + Len(lines) <= MaxCopied
  /\ \E n \in 0 .. Len(lines) :
       /\ copying' = copying \o [i \in 1 .. n |-> Stored(lines[i])]
       /\ given' = [rows |-> given.rows
                      \o SubSeq(tables[Source], Len(got.rows) + 1, Len(got.rows) + n),
                    passed |-> given.passed
                      \cup (Len(given.rows) + 1 .. Len(given.rows) + n),
                    spoiled |-> given.spoiled]
       /\ got' = [got EXCEPT !.ended = IF n = Len(lines) THEN "passed" ELSE "thrown"]
  /\ Close
  /\ UNCHANGED <<encoding, converts, tables, writer>>

CopyNext ==
  \/ OpenWriter \/ WriteRow \/ FailToWrite \/ CompleteWriter
  \/ OpenReader \/ ReadRow \/ ReadEnd \/ CompleteReader \/ Pipe

CopySpec == CopyInit /\ [][CopyNext]_copyVars

-----------------------------------------------------------------------------
(* Every variable has its type, and a transaction's focus is the stream that *)
(* is open there.                                                            *)
CopyTypeOK ==
  /\ \A t \in {Source, Target} :
       /\ focused[t] \in {"none", "writer", "reader"}
       /\ focused[t] = "writer" <=> t = Target /\ writer.state = "open"
       /\ focused[t] = "reader" <=> reader.state = "open" /\ reader.on = t
  /\ writer.state # "open" => copying = << >>

(* The fields that are stored for a row of the program.                      *)
Like(stored, row) ==
  /\ DOMAIN stored = DOMAIN row
  /\ \A i \in DOMAIN row : stored[i] = row[i] \/ (converts /\ ~IsPlain(row[i]))

(* What is in the table, and what a COPY has brought so far, are the rows    *)
(* that the program wrote: nulls, empty texts, and texts that look like the  *)
(* separators, escapes and nulls of COPY.  Lines that it passed on are exact *)
(* in any encoding; of rows that it wrote itself only the plain fields are,  *)
(* if the server has another encoding than the clients.  A row whose writing *)
(* threw an exception may spoil the next.                                    *)
RowsArrive ==
  LET there == tables[Target] \o copying
  IN given.spoiled \/
       /\ Len(there) = Len(given.rows)
       /\ \A k \in DOMAIN there :
            /\ Like(there[k], given.rows[k])
            /\ k \in given.passed => there[k] = given.rows[k]

(* What the program reads is what the table had, row by row, and at the      *)
(* "end" there is no row that it has not had.                                *)
RowsAreRead ==
  /\ IsPrefix(got.rows, got.of)
  /\ got.ended = "end" => got.rows = got.of

(* A COPY is exact in both directions. *)
CopyIsExact == RowsArrive /\ RowsAreRead

(* "Resets the buffer for the next row": stream_to.hxx, of write_buffer.     *)
EachRowIsItsOwn == converts \/ tables[Target] \o copying = given.rows

=============================================================================
