------------------------------ MODULE PqEncodings ------------------------------
(***************************************************************************)
(* Glyph scanners: where the next character of a text begins, in each      *)
(* encoding that a client of PostgreSQL can have.  A byte is a number, a   *)
(* text a sequence of bytes, and a position counts from 0 as in C++.       *)
(*                                                                         *)
(* The scanner of an encoding is given by the forms that it accepts, each  *)
(* a sequence of sets of bytes.  A text in which no form fits is an error, *)
(* whichever of its bytes the code names in the exception.                 *)
(***************************************************************************)
EXTENDS Integers, Sequences, FiniteSets

Npos == 1000000       (* std::string::npos *)

Throws == -1          (* An exception, where a position is expected. *)

Byte == 0 .. 255

Ascii == 0 .. 127     (* byte1 < 0x80 *)

High == 161 .. 254    (* 0xa1 .. 0xfe *)

MONOBYTE == {<<Byte>>}

BIG5 == {<<Ascii>>, <<129 .. 254, 64 .. 126>>, <<129 .. 254, High>>}

EUC_CN == {<<Ascii>>, <<161 .. 247, High>>}

(* EUC_JP and EUC_JIS_2004 *)
EUC_JP == {<<Ascii>>, <<{142}, High>>, <<High, High>>, <<{143}, High, High>>}

EUC_KR == {<<Ascii>>, <<High, High>>}

EUC_TW == {<<Ascii>>, <<High, High>>, <<{142}, 161 .. 176, High, High>>}

(* High bytes are taken for characters, and those below for the beginning of *)
(* longer ones.                                                              *)
GB18030 == {<<128 .. 255>>, <<Ascii, (64 .. 254) \ {127}>>,
            <<Ascii, 48 .. 57, 129 .. 254, 48 .. 57>>}

GBK == {<<Ascii>>, <<161 .. 169, High>>, <<176 .. 247, High>>,
        <<129 .. 160, (64 .. 254) \ {127}>>, <<168 .. 254, (64 .. 160) \ {127}>>,
        <<170 .. 175, High>>, <<248 .. 254, High>>,
        <<161 .. 167, (64 .. 160) \ {127}>>}

(* What is tested for the second byte is the first once more, and no byte is *)
(* left that the test refuses.                                               *)
JOHAB == {<<Ascii>>, <<132 .. 211, Byte>>, <<216 .. 222, Byte>>, <<224 .. 249, Byte>>}

(* The fourth byte is not looked at, but the one behind it: see Fits.        *)
MULE_INTERNAL ==
  {<<Ascii>>, <<129 .. 141, 160 .. 255>>,
   <<{154}, 160 .. 223, Byte>>, <<{155}, 224 .. 239, Byte>>,
   <<144 .. 153, 160 .. 255, Byte>>,
   <<{156}, 240 .. 244, 160 .. 255, Byte, 160 .. 255>>,
   <<{157}, 245 .. 254, 160 .. 255, Byte, 160 .. 255>>}

(* SJIS and SHIFT_JIS_2004 *)
SJIS == {<<Ascii>>, <<161 .. 223>>,
         <<(129 .. 159) \cup (224 .. 252), (64 .. 252) \ {127}>>}

UHC == {<<Ascii>>,
        <<128 .. 198, (65 .. 90) \cup (97 .. 122) \cup (128 .. 254)>>,
        <<199 .. 254, High>>}

Follow == 128 .. 191  (* 0x80 .. 0xbf *)

UTF8 == {<<Ascii>>, <<192 .. 223, Follow>>, <<224 .. 239, Follow, Follow>>,
         <<240 .. 247, Follow, Follow, Follow>>}

(* enc_group and for_encoding: from the name to the scanner. *)
Forms == [MONOBYTE |-> MONOBYTE, BIG5 |-> BIG5, EUC_CN |-> EUC_CN, EUC_JP |-> EUC_JP,
          EUC_KR |-> EUC_KR, EUC_TW |-> EUC_TW, GB18030 |-> GB18030, GBK |-> GBK,
          JOHAB |-> JOHAB, MULE_INTERNAL |-> MULE_INTERNAL, SJIS |-> SJIS,
          UHC |-> UHC, UTF8 |-> UTF8]

Encoding == DOMAIN Forms

Fits(form, text, start) ==
  /\ start + Len(form) <= Len(text)
  /\ \A i \in DOMAIN form : text[start + i] \in form[i]

(* Four bytes at most are a character. *)
Width(form) == IF Len(form) > 4 THEN 4 ELSE Len(form)

(* What a glyph_scanner returns for a text of which it is told the size. *)
ScanTo(enc, text, size, start) ==
  IF start >= size THEN Npos
  ELSE LET part == SubSeq(text, 1, size)
           fitting == {f \in Forms[enc] : Fits(f, part, start)}
       IN IF fitting = {} THEN Throws ELSE start + Width(CHOOSE f \in fitting : TRUE)

Scan(enc, text, start) == ScanTo(enc, text, Len(text), start)

(* A text of the encoding: characters begin at some places, from one to the  *)
(* next, and to the end.                                                     *)
IsText(enc, text) ==
  /\ text \in Seq(Byte)
  /\ \E places \in SUBSET (0 .. Len(text)) :
       /\ {0, Len(text)} \subseteq places
       /\ \A p \in places : p < Len(text) => Scan(enc, text, p) \in places

(* Mutant: a byte is found wherever it is. *)
FindByteAnywhere(enc, text, needle, from) ==
  LET places == {p \in from .. Len(text) - 1 : text[p + 1] = needle}
  IN IF places = {} THEN Npos ELSE CHOOSE p \in places : \A q \in places : p <= q

(* find_with_encoding, for one byte: where it is a character of its own. *)
FindByte(enc, text, needle, from) ==
  LET find[here \in 0 .. Len(text)] ==
        IF here >= Len(text) THEN Npos
        ELSE IF text[here + 1] = needle THEN here
        ELSE LET next == Scan(enc, text, here)
             IN IF next = Throws THEN Throws ELSE find[next]
  IN find[from]

=============================================================================
