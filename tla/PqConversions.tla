------------------------------ MODULE PqConversions ------------------------------
(***************************************************************************)
(* Conversions between values and their texts: integers of a type that has *)
(* few bits, binary data, and arrays, of which this part is about the room *)
(* that they are given.  A program converts one value, or one text.        *)
(***************************************************************************)
EXTENDS Integers, Sequences, SequencesExt

CONSTANTS
  Types,          (* Integral types: [signed : BOOLEAN, bits : Nat].       *)
  Builds,         (* With std::from_chars, or with the library's own loop. *)
  Texts,          (* Texts to read.                                        *)
  Behind,         (* What may lie behind the text: 0 if it is terminated.  *)
  Binaries,       (* Binary data, as sequences of bytes.                   *)
  HexTexts,       (* Texts to read as such.                                *)
  Elements,       (* Array elements: [kind, length, escapes, room].        *)
  MaxElements     (* Bound: elements of an array.                          *)

ASSUME ConversionAssumption ==
  /\ Types \subseteq [signed : BOOLEAN, bits : Nat \ {0}]
  /\ Texts \cup HexTexts \subseteq Seq(0 .. 255)
  /\ Binaries \subseteq Seq(0 .. 255)
  /\ Behind \subseteq 0 .. 255
  /\ Elements \subseteq [kind : {"safe", "null", "quoted"}, length : Nat, escapes : Nat,
                         room : Nat]
  /\ \A e \in Elements : IF e.kind = "safe" THEN e.length <= e.room
                         ELSE e.escapes <= e.length
  /\ MaxElements \in Nat

VARIABLES
  job,            (* What is being converted, and how far.                 *)
  type,           (* Its type, and the build of the library.               *)
  build,
  value,          (* The value: what is left of it, or what is read so far.*)
  image,          (* Its text.                                             *)
  at,             (* i, in from_string_integer; here, in into_buf.         *)
  behind,         (* The byte behind the text.                             *)
  todo,           (* Array elements that are not written yet.              *)
  origin,         (* History: what the program has converted, in a         *)
                  (* sequence, and whether there was such a value at all.  *)
  made

conversionVars == <<job, type, build, value, image, at, behind, todo, origin, made>>

-----------------------------------------------------------------------------
(* What is not of an integral type. *)
ByteString == [signed |-> FALSE, bits |-> 0]
Arrays == [signed |-> TRUE, bits |-> 0]

Nul == 0
Blank == 32
Minus == 45
Digit == 48 .. 57
Slash == 92
LetterX == 120

(* A power, as a function of the exponent. *)
Power(b, n) == LET p[k \in Nat] == IF k = 0 THEN 1 ELSE b * p[k - 1] IN p[n]

Top(t) == IF t.signed THEN Power(2, t.bits - 1) - 1 ELSE Power(2, t.bits) - 1

Bottom(t) == IF t.signed THEN -Power(2, t.bits - 1) ELSE 0

(* numeric_limits::digits10 *)
Digits10(t) ==
  CHOOSE d \in 0 .. t.bits : Power(10, d) - 1 <= Top(t) /\ Power(10, d + 1) - 1 > Top(t)

(* size_buffer *)
SizeBuffer(t) == (IF t.signed THEN 1 ELSE 0) + Digits10(t) + 1 + 1

(* What a byte of the text, or the one behind it, is. *)
ByteOf(i) == IF i < Len(image) THEN image[i + 1]
             ELSE IF i = Len(image) THEN behind ELSE Nul

Becomes(j, v) == job' = j /\ value' = v

Unchanged == UNCHANGED <<type, build, behind, todo, origin, made>>

-----------------------------------------------------------------------------

(* to_buf: what is to be written without its sign.  The lowest value, which  *)
(* has no negation in its type, becomes an unsigned number first.            *)
Positive(v) == IF v < 0 THEN -v ELSE v

(* A round of nonneg_to_buf. *)
WriteDigit ==
  /\ job = "write"
  /\ image' = <<48 + (value % 10)>> \o image
  /\ Becomes(IF value \div 10 > 0 THEN "write" ELSE "sign", value \div 10)
  /\ Unchanged /\ UNCHANGED at

(* neg_to_buf; the text is then read. *)
WriteSign ==
  /\ job = "sign"
  /\ image' = (IF origin[1] < 0 THEN <<Minus>> ELSE << >>) \o image
  /\ Becomes("read", 0) /\ at' = 0
  /\ Unchanged

(* How far the blanks go. *)
AfterBlanks ==
  LET nonblank == {i \in 0 .. Len(image) - 1 : image[i + 1] \notin {Blank, 9}}
  IN IF nonblank = {} THEN Len(image) ELSE CHOOSE i \in nonblank : \A k \in nonblank : i <= k

(* from_string_integer, before its loops. *)
ReadFirst ==
  /\ job = "read" /\ build = "loop"
  /\ LET i == AfterBlanks
     IN CASE i = Len(image) -> Becomes("thrown", 0) /\ UNCHANGED at
          [] i < Len(image) /\ ByteOf(i) \in Digit -> Becomes("add", 0) /\ at' = i
          [] i < Len(image) /\ ByteOf(i) = Minus /\ type.signed /\ i + 1 < Len(image) ->
               Becomes("subtract", 0) /\ at' = i + 1
          [] OTHER -> Becomes("thrown", 0) /\ UNCHANGED at
  /\ Unchanged /\ UNCHANGED image

(* C++ rounds towards zero. *)
Tenth(n) == IF n < 0 THEN -((-n) \div 10) ELSE n \div 10

(* Mutant: the threshold is not the last that is safe. *)
MultiplyOverflowsLate(n) == n > Tenth(Top(type)) + 1 \/ n < Tenth(Bottom(type)) - 1

(* safe_multiply_by_ten throws. *)
MultiplyOverflows(n) == n > Tenth(Top(type)) \/ n < Tenth(Bottom(type))

(* What a product is in the type, whatever it is in arithmetic. *)
TimesTen(n) == ((n * 10 - Bottom(type)) % Power(2, type.bits)) + Bottom(type)

(* safe_add_digit throws. *)
AddOverflows(n, d) == n > Top(type) - d

(* Mutant: the digit is not thought of. *)
SubtractOverflowsNever(n, d) == n < Bottom(type)

(* safe_sub_digit throws. *)
SubtractOverflows(n, d) == n < Bottom(type) + d

(* Behind the loops, the whole text must have been read. *)
EndReading == IF at < Len(image) THEN Becomes("thrown", 0) ELSE Becomes("done", value)

(* A round of the loop over the digits of a positive number, which does not  *)
(* look where the text ends.                                                 *)
AbsorbPositive ==
  /\ job = "add"
  /\ IF ByteOf(at) \in Digit
       THEN LET d == ByteOf(at) - 48
            IN /\ at' = at + 1
               /\ IF MultiplyOverflows(value) \/ AddOverflows(TimesTen(value), d)
                    THEN Becomes("thrown", 0) ELSE Becomes("add", TimesTen(value) + d)
       ELSE EndReading /\ UNCHANGED at
  /\ Unchanged /\ UNCHANGED image

(* The same for a negative number, which does. *)
AbsorbNegative ==
  /\ job = "subtract"
  /\ IF at < Len(image) /\ ByteOf(at) \in Digit
       THEN LET d == ByteOf(at) - 48
            IN /\ at' = at + 1
               /\ IF MultiplyOverflows(value) \/ SubtractOverflows(TimesTen(value), d)
                    THEN Becomes("thrown", 0) ELSE Becomes("subtract", TimesTen(value) - d)
       ELSE EndReading /\ UNCHANGED at
  /\ Unchanged /\ UNCHANGED image

-----------------------------------------------------------------------------
(* The number that a text of digits, with or without a sign, stands for.     *)
Continued(n, digits) ==
  LET read[k \in 0 .. Len(digits)] ==
        IF k = 0 THEN n ELSE ((read[k - 1] * 10) + digits[k]) - 48
  IN read[Len(digits)]

Magnitude(digits) == Continued(0, digits)

IsNumeral(text) == text # << >> /\ \A i \in DOMAIN text : text[i] \in Digit

(* Numbers of the type that a text stands for: one at most. *)
Denoted(text, t) ==
  LET negative == text # << >> /\ Head(text) = Minus /\ t.signed
      digits == IF negative THEN Tail(text) ELSE text
      n == IF negative THEN -Magnitude(digits) ELSE Magnitude(digits)
  IN IF IsNumeral(digits) /\ Bottom(t) <= n /\ n <= Top(t) THEN {n} ELSE {}

Unblanked == SubSeq(image, AfterBlanks + 1, Len(image))

(* from_string_arithmetic: std::from_chars must take all of the text. *)
FromChars ==
  /\ job = "read" /\ build = "from_chars"
  /\ IF Denoted(Unblanked, type) = {} THEN Becomes("thrown", 0)
     ELSE Becomes("done", CHOOSE n \in Denoted(Unblanked, type) : TRUE)
  /\ Unchanged /\ UNCHANGED <<image, at>>

-----------------------------------------------------------------------------
HexDigit(n) == IF n < 10 THEN 48 + n ELSE 87 + n

Nibble(c) == CASE c \in Digit -> c - 48
               [] c \in 97 .. 102 -> c - 87
               [] c \in 65 .. 70 -> c - 55
               [] OTHER -> -1

(* esc_bin; the text is then read. *)
EscBin ==
  /\ job = "escape"
  /\ image' = <<Slash, LetterX>> \o
                [i \in 1 .. 2 * Len(origin) |->
                   IF i % 2 = 1 THEN HexDigit(origin[(i + 1) \div 2] \div 16)
                   ELSE HexDigit(origin[i \div 2] % 16)]
  /\ Becomes("unescape", << >>)
  /\ Unchanged /\ UNCHANGED at

(* unesc_bin.  For a text shorter than 2 the buffer's size is what throws.   *)
UnescBin ==
  /\ job = "unescape"
  /\ LET pairs == [i \in 1 .. Len(image) \div 2 - 1 |->
                     <<Nibble(image[2 * i + 1]), Nibble(image[2 * i + 2])>>]
     IN IF \/ Len(image) < 2 \/ Len(image) % 2 # 0
           \/ SubSeq(image, 1, 2) # <<Slash, LetterX>>
           \/ \E i \in DOMAIN pairs : -1 \in {pairs[i][1], pairs[i][2]}
          THEN Becomes("thrown", << >>)
          ELSE Becomes("done", [i \in DOMAIN pairs |-> pairs[i][1] * 16 + pairs[i][2]])
  /\ Unchanged /\ UNCHANGED <<image, at>>

-----------------------------------------------------------------------------
(* array_string_traits.  An element is a null, a text that needs no quotes,  *)
(* of a type of which all texts have at most "room" characters, or one that  *)
(* does.                                                                     *)

NullLength == 4   (* NULL *)

(* size_buffer of an array. *)
Budget(elements) ==
  LET part(e) == CASE e.kind = "safe"   -> e.room
                   [] e.kind = "null"   -> NullLength - 1
                   [] e.kind = "quoted" -> (2 * e.length) + 2
      sum[k \in 0 .. Len(elements)] ==
        IF k = 0 THEN 3 ELSE sum[k - 1] + part(elements[k])
  IN sum[Len(elements)]

(* One element, and the separator behind it.  Of a safe type into_buf looks  *)
(* whether there is room: for any value of the type, or for this one.        *)
WriteElement ==
  /\ job = "elements" /\ todo # << >>
  /\ LET e == Head(todo)
         needed == IF build = "loop" THEN e.room + 1 ELSE e.length + 1
     IN IF e.kind = "safe" /\ Budget(origin) - at < needed
          THEN Becomes("thrown", 0) /\ UNCHANGED <<at, todo>>
          ELSE /\ at' = at + 1 + (CASE e.kind = "safe" -> e.length
                                    [] e.kind = "null" -> NullLength
                                    [] e.kind = "quoted" -> e.length + e.escapes + 2)
               /\ todo' = Tail(todo) /\ UNCHANGED <<job, value>>
  /\ UNCHANGED <<type, build, behind, image, origin, made>>

(* The closing brace, in the place of the last comma, and the zero. *)
WriteEnd ==
  /\ job = "elements" /\ todo = << >>
  /\ at' = (IF origin = << >> THEN at ELSE at - 1) + 2
  /\ Becomes("done", 0)
  /\ Unchanged /\ UNCHANGED image

-----------------------------------------------------------------------------
ConversionInit ==
  /\ build \in Builds
  /\ \/ /\ type \in Types /\ job = "write" /\ image = << >> /\ at = 0 /\ behind = Nul
        /\ \E v \in Bottom(type) .. Top(type) : origin = <<v>> /\ value = Positive(v)
        /\ todo = << >> /\ made = TRUE
     \/ /\ type \in Types /\ job = "read" /\ image \in Texts /\ at = 0 /\ behind \in Behind
        /\ origin = << >> /\ value = 0 /\ todo = << >> /\ made = FALSE
     \/ /\ type = ByteString /\ job = "escape" /\ image = << >> /\ at = 0 /\ behind = Nul
        /\ origin \in Binaries /\ value = << >> /\ todo = << >> /\ made = TRUE
     \/ /\ type = ByteString /\ job = "unescape" /\ image \in HexTexts /\ at = 0
        /\ behind = Nul /\ origin = << >> /\ value = << >> /\ todo = << >> /\ made = FALSE
     \/ /\ type = Arrays /\ job = "elements" /\ image = << >> /\ at = 1 /\ behind = Nul
        /\ origin \in SeqOf(Elements, MaxElements) /\ value = 0 /\ todo = origin /\ made = TRUE
        /\ \A i, k \in DOMAIN origin : origin[i].kind = "quoted" => origin[k].kind = "quoted"

ConversionNext ==
  \/ WriteDigit \/ WriteSign \/ ReadFirst \/ AbsorbPositive \/ AbsorbNegative \/ FromChars
  \/ EscBin \/ UnescBin \/ WriteElement \/ WriteEnd

ConversionSpec == ConversionInit /\ [][ConversionNext]_conversionVars

-----------------------------------------------------------------------------
(* Every variable has its type; no number leaves its own. *)
ConversionTypeOK ==
  /\ job \in {"write", "sign", "read", "add", "subtract", "escape", "unescape", "elements",
              "done", "thrown"}
  /\ type \in Types => value \in Bottom(type) .. Power(2, type.bits) /\ at \in 0 .. Len(image) + 1
  /\ type \in Types /\ job \in {"add", "subtract", "done"} => value <= Top(type)

(* A number is read from the texts that stand for one that the type has, and *)
(* an exception is thrown for all others: none is cut off, taken for another *)
(* because it overflows, or read from the middle of a text.                  *)
ReadsNumbers ==
  type \in Types =>
    /\ job = "done" => Denoted(Unblanked, type) = {value}
    /\ job = "thrown" => Denoted(Unblanked, type) = {}

(* What is written, is read: numbers, the lowest among them, and binary data.*)
ReadsWhatIsWritten ==
  made /\ type # Arrays =>
    /\ job # "thrown"
    /\ job = "done" => origin = IF type = ByteString THEN value ELSE <<value>>

(* A number's text has room in what size_buffer tells. *)
NumbersFit == made /\ type \in Types => Len(image) + 1 <= SizeBuffer(type)

(* Data that were read have the digits of their text. *)
HexIsExact ==
  type = ByteString /\ job = "done" =>
    /\ Len(image) = 2 * Len(value) + 2
    /\ \A i \in DOMAIN value : \A c \in {image[2 * i + 1], image[2 * i + 2]} :
         Nibble(c) \in 0 .. 15
    /\ \A i, k \in DOMAIN value :
         value[i] = value[k] <=>
           /\ image[2 * i + 1] - image[2 * k + 1] \in {-32, 0, 32}
           /\ image[2 * i + 2] - image[2 * k + 2] \in {-32, 0, 32}

(* An array's text overruns what size_buffer tells by no more than the        *)
(* commas between elements, and a letter for each null in an array of a type *)
(* that is not quoted: escapes and quotes, whatever they are, have been      *)
(* counted.  A single element that is not null has room and is not refused.  *)
ShortByCommas ==
  type = Arrays =>
    LET nulls == {i \in DOMAIN origin : origin[i].kind = "null"}
        commas == IF origin = << >> THEN 0 ELSE Len(origin) - 1
    IN /\ job = "done" => at <= Budget(origin) + commas + Cardinality(nulls)
       /\ job = "thrown" => commas > 0

(* Numbers, binary data and arrays become texts that have room, and that     *)
(* become what they were; no other text becomes anything.                    *)
ConversionsAreExact ==
  ReadsNumbers /\ ReadsWhatIsWritten /\ NumbersFit /\ HexIsExact /\ ShortByCommas

(* "You can obtain a conservative estimate of the buffer space required by   *)
(* calling size_buffer() on the values": strconv.hxx.                        *)
EstimateSuffices == type = Arrays => at <= Budget(origin) /\ job # "thrown"

=============================================================================
