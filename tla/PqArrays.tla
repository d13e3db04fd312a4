------------------------------- MODULE PqArrays -------------------------------
(***************************************************************************)
(* array_parser, which a program calls for one juncture of an array after  *)
(* the other, and parse_composite, which reads one field of a composite    *)
(* value after the other.  Both go by the glyphs of the client's encoding, *)
(* in which a byte of a longer character may look like a quote, a comma, a *)
(* brace or a backslash.                                                   *)
(***************************************************************************)
EXTENDS PqEncodings, SequencesExt

CONSTANTS
  Encodings,    (* Encodings to try.                                       *)
  GlyphsOf,     (* Characters of each, as sequences of bytes.              *)
  MaxGlyphs,    (* Bound: the characters of a value.                       *)
  Shapes        (* The arrays to try, with a number for each value.        *)

ASSUME ArrayAssumption ==
  /\ Encodings \subseteq Encoding
  /\ \A e \in Encodings : \A g \in GlyphsOf[e] :
       Scan(e, g, 0) = Len(g)

VARIABLES
  text,         (* m_input                                                 *)
  enc,          (* The encoding behind m_scan.                             *)
  kind,         (* Array, or composite value.                              *)
  reached,      (* m_pos, and "here" of parse_composite.                   *)
  found,        (* What the program was given.                             *)
  glyphs,       (* History: the characters of the text.                    *)
  meant         (* History: what the text was made from.                   *)

arrayVars == <<text, enc, kind, reached, found, glyphs, meant>>

-----------------------------------------------------------------------------
Quote == 34         (* " *)
Apostrophe == 39
Comma == 44
Semicolon == 59
Backslash == 92
OpenBrace == 123         (* { *)
CloseBrace == 125        (* } *)
LeftParen == 40
RightParen == 41

NullWord == <<78, 85, 76, 76>>

(* The bytes from one position to before another. *)
Bytes(from, to) == SubSeq(text, from + 1, IF to < Len(text) THEN to ELSE Len(text))

ByteAt(p) == IF p < Len(text) THEN text[p + 1] ELSE 0

Scanned(p) == Scan(enc, text, p)

Single(p) == Scanned(p) - p = 1

-----------------------------------------------------------------------------

(* A backslash that escapes what follows. *)
IsEscape(p) == Single(p) /\ ByteAt(p) = Backslash

(* scan_double_quoted_string *)
ScanDoubleQuoted(from) ==
  LET scan[p \in 0 .. Len(text) \cup {Npos, Throws}, atQuote \in BOOLEAN] ==
        IF p = Throws THEN Throws
        ELSE IF p >= Len(text) THEN IF atQuote THEN p ELSE Throws
        ELSE IF Scanned(p) = Throws THEN Throws
        ELSE IF atQuote
          THEN IF Single(p) /\ ByteAt(p) = Quote THEN scan[Scanned(p), FALSE] ELSE p
        ELSE IF IsEscape(p) THEN scan[Scanned(Scanned(p)), FALSE]
        ELSE scan[Scanned(p), Single(p) /\ ByteAt(p) = Quote]
  IN scan[Scanned(from), FALSE]

(* parse_double_quoted_string and parse_single_quoted_string: an escape, and *)
(* the first of two quotes, is skipped.                                      *)
ParseQuoted(from, end, quote) ==
  LET parse[p \in 0 .. Len(text)] ==
        IF p >= end - 1 THEN << >>
        ELSE LET here == IF Single(p) /\ ByteAt(p) \in {Backslash, quote}
                           THEN Scanned(p) ELSE p
                 next == Scanned(here)
             IN Bytes(here, next) \o (IF next >= end THEN << >> ELSE parse[next])
  IN parse[from + 1]

(* scan_single_quoted_string *)
ScanSingleQuoted(from) ==
  LET scan[p \in 0 .. Len(text) \cup {Npos, Throws}] ==
        IF p = Throws \/ p >= Len(text) \/ Scanned(p) = Throws THEN Throws
        ELSE IF Single(p) /\ ByteAt(p) = Apostrophe
          THEN IF Single(Scanned(p)) /\ ByteAt(Scanned(p)) = Apostrophe
                 THEN scan[Scanned(Scanned(p))] ELSE Scanned(p)
        ELSE IF IsEscape(p) THEN scan[Scanned(Scanned(p))]
        ELSE scan[Scanned(p)]
  IN scan[Scanned(from)]

(* scan_unquoted_string.  What the code takes note of is whether the byte it *)
(* looks at is a backslash, so none is escaped by the one before it.         *)
ScanUnquoted(from, stops) ==
  LET scan[p \in 0 .. Len(text) \cup {Npos, Throws}] ==
        IF p = Throws THEN Throws
        ELSE IF p < Len(text) /\ ~(Single(p) /\ ByteAt(p) \in stops)
          THEN IF Scanned(p) = Throws THEN Throws ELSE scan[Scanned(p)]
        ELSE p
  IN scan[from]

(* parse_unquoted_string drops a backslash unless there is one before it.    *)
ParseUnquoted(from, end) ==
  LET parse[p \in 0 .. Len(text), atBackslash \in BOOLEAN] ==
        IF p >= end THEN << >>
        ELSE LET now == ~atBackslash /\ IsEscape(p)
             IN (IF now THEN << >> ELSE Bytes(p, Scanned(p))) \o
                (IF Scanned(p) >= end THEN << >> ELSE parse[Scanned(p), now])
  IN parse[from, FALSE]

-----------------------------------------------------------------------------
Juncture(j, value) == [juncture |-> j, value |-> value]

ThrownAt == Juncture("thrown", << >>)

(* What get_next finds at a position, and where it ends. *)
JunctureAt(p) ==
  LET c == IF Single(p) THEN ByteAt(p) ELSE -1
      stops == {Comma, Semicolon, CloseBrace}
  IN CASE c = 0     -> [found |-> ThrownAt, end |-> Throws]
       [] c = OpenBrace  -> [found |-> Juncture("row_start", << >>), end |-> Scanned(p)]
       [] c = CloseBrace -> [found |-> Juncture("row_end", << >>), end |-> Scanned(p)]
       [] c = Apostrophe ->
            LET end == ScanSingleQuoted(p)
            IN [found |-> Juncture("string_value", IF end = Throws THEN << >>
                                     ELSE ParseQuoted(p, end, Apostrophe)), end |-> end]
       [] c = Quote ->
            LET end == ScanDoubleQuoted(p)
            IN [found |-> Juncture("string_value", IF end = Throws THEN << >>
                                     ELSE ParseQuoted(p, end, Quote)), end |-> end]
       [] OTHER ->
            LET end == ScanUnquoted(p, stops)
                value == IF end = Throws THEN << >> ELSE ParseUnquoted(p, end)
            IN [found |-> IF value = NullWord /\ c # -1 THEN Juncture("null_value", << >>)
                          ELSE Juncture("string_value", value), end |-> end]

(* "Skip a trailing field separator, if present." *)
SkipSeparator(end) ==
  IF end < Len(text) /\ Single(end) /\ ByteAt(end) \in {Comma, Semicolon}
    THEN Scanned(end) ELSE end

(* get_next.  An exception ends the parsing, and so does "done". *)
GetNext ==
  /\ kind = "array" /\ reached < Len(text)
  /\ LET at == JunctureAt(reached)
     IN IF Scanned(reached) = Throws \/ at.end = Throws
          THEN found' = Append(found, ThrownAt) /\ reached' = Len(text)
          ELSE found' = Append(found, at.found) /\ reached' = SkipSeparator(at.end)
  /\ UNCHANGED <<text, enc, kind, glyphs, meant>>

(* The last of the fields that are expected. *)
LastField == Len(meant) - 1

(* The opening parenthesis, in parse_composite. *)
ParseOpening ==
  /\ kind = "composite" /\ reached = 0
  /\ IF Scanned(0) = 1 /\ ByteAt(0) = LeftParen
       THEN reached' = 1 /\ UNCHANGED found
       ELSE reached' = Len(text) /\ found' = <<ThrownAt>>
  /\ UNCHANGED <<text, enc, kind, glyphs, meant>>

(* What parse_composite_field wants to see behind the field. *)
EndsWell(stop, index) ==
  /\ Single(stop)
  /\ IF index < LastField THEN ByteAt(stop) = Comma
     ELSE ByteAt(stop) = RightParen /\ Scanned(stop) = Len(text)

(* parse_composite_field *)
ParseField ==
  /\ kind = "composite" /\ reached > 0 /\ reached < Len(text)
  /\ LET c == IF Single(reached) THEN ByteAt(reached) ELSE -1
         stop == CASE c = -1 -> Throws
                   [] c \in {Comma, RightParen} -> reached
                   [] c = Quote -> ScanDoubleQuoted(reached)
                   [] OTHER -> ScanUnquoted(reached, {Comma, RightParen})
         field == CASE c \in {-1, Comma, RightParen} -> Juncture("null_value", << >>)
                    [] c = Quote -> Juncture("string_value", ParseQuoted(reached, stop, Quote))
                    [] OTHER -> Juncture("string_value", ParseUnquoted(reached, stop))
     IN IF stop = Throws
          THEN found' = Append(found, ThrownAt) /\ reached' = Len(text)
          ELSE IF EndsWell(stop, Len(found))
            THEN found' = Append(found, field) /\ reached' = Scanned(stop)
            ELSE found' = Append(found, ThrownAt) /\ reached' = Len(text)
  /\ UNCHANGED <<text, enc, kind, glyphs, meant>>

-----------------------------------------------------------------------------
(* Texts: how the server shows arrays and composite values, and how this     *)
(* library and programs write them.  External, but for write_composite_field.*)

ByteGlyph(b) == <<b>>

Value(e) == UNION {[1 .. n -> GlyphsOf[e]] : n \in 0 .. MaxGlyphs}

(* The string that spells NULL, and a null. *)
NullString == <<ByteGlyph(78), ByteGlyph(85), ByteGlyph(76), ByteGlyph(76)>>

Null == << <<-1>> >>

(* A value in quotes, with the escapes that the style has. *)
InQuotes(v, quote, double, single) ==
  <<ByteGlyph(quote)>> \o
  FoldLeft(LAMBDA s, g : s \o (IF g \in double THEN <<g, g>>
                              ELSE IF g \in single THEN <<ByteGlyph(Backslash), g>>
                              ELSE <<g>>), << >>, v)
  \o <<ByteGlyph(quote)>>

(* array_out of the server quotes what it must, an SQL text may have single  *)
(* quotes, and this library, in array_string_traits::into_buf, quotes all.   *)
Element(v, style) ==
  LET special == {ByteGlyph(b) : b \in {Quote, Backslash, OpenBrace, CloseBrace, Comma}}
  IN CASE v = Null -> NullString
       [] v # Null /\ style = "single" ->
            InQuotes(v, Apostrophe, {ByteGlyph(Apostrophe)}, {ByteGlyph(Backslash)})
       [] v # Null /\ style = "written" ->
            InQuotes(v, Quote, {}, {ByteGlyph(Quote), ByteGlyph(Backslash)})
       [] OTHER ->
            IF v \in {<< >>, NullString} \/ \E i \in DOMAIN v : v[i] \in special
              THEN InQuotes(v, Quote, {}, {ByteGlyph(Quote), ByteGlyph(Backslash)}) ELSE v

(* record_out of the server doubles what it escapes.  This library, in       *)
(* composite_into_buf and write_composite_field, quotes whatever it writes.  *)
Field(v, style) ==
  LET special == {ByteGlyph(b) : b \in {Quote, Backslash, LeftParen, RightParen, Comma}}
      escaped == {ByteGlyph(Quote), ByteGlyph(Backslash)}
  IN CASE v = Null -> << >>
       [] v # Null /\ style = "written" -> InQuotes(v, Quote, {}, escaped)
       [] OTHER ->
            IF v = << >> \/ \E i \in DOMAIN v : v[i] \in special
              THEN InQuotes(v, Quote, escaped, {}) ELSE v

(* What the library writes is escaped byte by byte, and so only correct for  *)
(* encodings in which no part of a longer character looks like a character.  *)
ByteSafe == {"MONOBYTE", "UTF8"}

(* A shape is a sequence of braces and of the numbers of values. *)
RowStart == 0
RowEnd == -1

ShowArray(shape, values, style) ==
  FoldLeft(LAMBDA s, i :
             LET t == shape[i]
                 comma == IF i > 1 /\ shape[i - 1] # RowStart /\ t # RowEnd THEN <<ByteGlyph(Comma)>>
                          ELSE << >>
             IN s \o comma \o (CASE t = RowStart -> <<ByteGlyph(OpenBrace)>>
                                  [] t = RowEnd -> <<ByteGlyph(CloseBrace)>>
                                  [] OTHER -> Element(values[t], style)),
           << >>, [i \in DOMAIN shape |-> i])

ShowComposite(values, style) ==
  <<ByteGlyph(LeftParen)>> \o Field(values[1], style) \o <<ByteGlyph(Comma)>>
  \o Field(values[2], style) \o <<ByteGlyph(RightParen)>>

Told(v) == IF v = Null THEN Juncture("null_value", << >>)
           ELSE Juncture("string_value", FlattenSeq(v))

ArrayInit ==
  /\ enc \in Encodings /\ kind \in {"array", "composite"}
  /\ \E first, second \in Value(enc) \cup {Null, NullString} :
       LET values == <<first, second>>
       IN IF kind = "array"
            THEN \E shape \in Shapes, style \in {"double", "single", "written"} :
                   /\ style = "written" => enc \in ByteSafe
                   /\ glyphs = ShowArray(shape, values, style)
                   /\ meant = [i \in DOMAIN shape |->
                                CASE shape[i] = RowStart -> Juncture("row_start", << >>)
                                  [] shape[i] = RowEnd -> Juncture("row_end", << >>)
                                  [] OTHER -> Told(values[shape[i]])]
            ELSE \E style \in {"doubled", "written"} :
                   /\ style = "written" => enc \in ByteSafe /\ Null \notin {first, second}
                   /\ glyphs = ShowComposite(values, style)
                   /\ meant = <<Told(first), Told(second)>>
  /\ text = FlattenSeq(glyphs) /\ reached = 0 /\ found = << >>

ArrayNext == GetNext \/ ParseOpening \/ ParseField

ArraySpec == ArrayInit /\ [][ArrayNext]_arrayVars

-----------------------------------------------------------------------------
(* Every variable has its type: the parser stays in its text. *)
ArrayTypeOK ==
  /\ text \in Seq(Byte) /\ enc \in Encodings /\ reached \in 0 .. Len(text)
  /\ \A i \in DOMAIN found :
       found[i].juncture \in {"row_start", "row_end", "string_value", "null_value", "thrown"}

(* The field that the parser stopped at begins, unquoted, with a long        *)
(* character.                                                                *)
BeginsLong(field) == field.value # << >> /\ Scan(enc, field.value, 0) > 1

(* What the program is given, juncture by juncture, is what the text was     *)
(* made from: no value is cut, merged, or taken for a null, whatever quotes  *)
(* and escapes the text has, and whatever the bytes of a longer character    *)
(* look like.  parse_composite refuses an unquoted field that begins with a  *)
(* long character, and nothing else.                                         *)
ParsesWhatIsMeant ==
  \/ IsPrefix(found, meant) /\ (reached = Len(text) => found = meant)
  \/ /\ kind = "composite" /\ found # << >> /\ Last(found) = ThrownAt
     /\ IsPrefix(Front(found), meant) /\ BeginsLong(meant[Len(found)])

(* "The function is meant to handle any value string that the backend can    *)
(* produce": composite.hxx, of parse_composite.                              *)
HandlesBackendText == kind = "composite" => ThrownAt \notin {found[i] : i \in DOMAIN found}

(* A byte is found where it is a character, and not within one. *)
FindsCharacters ==
  reached = 0 =>
    LET start(i) == Len(FlattenSeq(SubSeq(glyphs, 1, i - 1)))
        places == {start(i) : i \in {j \in DOMAIN glyphs : glyphs[j] = ByteGlyph(Backslash)}}
    IN FindByte(enc, text, Backslash, 0) =
         IF places = {} THEN Npos
         ELSE CHOOSE p \in places : \A q \in places : p <= q

(* Texts in any encoding are taken apart where a character says so.          *)
TextsAreParsed == ParsesWhatIsMeant /\ FindsCharacters

=============================================================================
