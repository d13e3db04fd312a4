------------------------------- MODULE MCPqData -------------------------------
(* What data goes through, for TLC: cursors, binary large objects as blob and  *)
(* as largeobject, results, and the texts of arrays, composites, COPY lines,   *)
(* numbers and binary data.  They share no state, so each behaviour is one     *)
(* part's; the others rest.                                                    *)
EXTENDS PqCursor, PqBlob, PqLoStream, PqResults, PqArrays, PqCopyText, PqConversions

VARIABLE part   (* Whose behaviour it is. *)

dataVars == <<part, cursorVars, blobVars, loVars, resultVars, arrayVars, copyVars,
              conversionVars>>

-----------------------------------------------------------------------------
(* Values of the constants. *)
MCContent == {<< >>, <<"x", "y", "x">>}

MCSqlStates ==
  {<<"none", "">>, <<"08", "006">>, <<"40", "000">>, <<"40", "001">>,
   <<"40", "003">>, <<"40", "P01">>, <<"40", "002">>, <<"23", "505">>,
   <<"42", "501">>, <<"42", "601">>, <<"53", "300">>, <<"P0", "001">>}

(* Quotes, backslashes, separators, and characters whose second byte looks   *)
(* like one of them.                                                         *)
MCGlyphsOf ==
  [UTF8 |-> {<<65>>, <<34>>, <<92>>, <<44>>, <<125>>, <<195, 169>>},
   SJIS |-> {<<65>>, <<34>>, <<92>>, <<131, 92>>, <<129, 125>>},
   GBK  |-> {<<65>>, <<34>>, <<92>>, <<129, 92>>, <<129, 125>>}]

MCShapes ==
  {<<RowStart, RowEnd>>, <<RowStart, 1, 2, RowEnd>>,
   <<RowStart, RowStart, 1, RowEnd, RowStart, 2, RowEnd, RowEnd>>}

(* Empty, a tab, a backslash and a line feed, what looks like a null, and    *)
(* characters of two bytes, of which one may look like a backslash.          *)
MCCopyField ==
  [UTF8 |-> {<< >>, <<9, 92, 10>>, <<92, 78>>, <<195, 169, 49>>},
   SJIS |-> {<< >>, <<9, 92, 10>>, <<131, 92, 78>>, <<131, 92>>}]

MCCopyRow ==
  [e \in {"UTF8", "SJIS"} |->
     {<<f, NullField>> : f \in MCCopyField[e]} \cup {<<NullField, << >> >>, << << >> >>}]

MCTypes == {[signed |-> TRUE, bits |-> 6], [signed |-> FALSE, bits |-> 5]}

(* Texts of the digits from 0 to 4, a minus sign, a blank, and a letter.     *)
MCTexts == SeqOf({48, 49, 50, 51, 52, 45, 32, 120}, 4)

MCBinaries == SeqOf({0, 10, 160, 255}, 2)

MCHexTexts ==
  {<<92, 120>> \o digits : digits \in SeqOf({48, 57, 97, 65, 70, 103}, 4)}
  \cup {<< >>, <<92>>, <<120, 92>>, <<92, 88, 48, 48>>}

(* Numbers of one to three digits, a null among them, and quoted texts with  *)
(* escapes in them.                                                          *)
MCElements ==
  {[kind |-> "safe", length |-> n, escapes |-> 0, room |-> 3] : n \in 1 .. 3}
  \cup {[kind |-> "null", length |-> 0, escapes |-> 0, room |-> 0]}
  \cup {[kind |-> "quoted", length |-> n, escapes |-> k, room |-> 0] :
          <<n, k>> \in {p \in (0 .. 2) \X (0 .. 2) : p[2] <= p[1]}}

-----------------------------------------------------------------------------
(* Where the parts with several initial states rest. *)
CursorRests ==
  /\ use = [by |-> "sql_cursor", rows |-> 0] /\ served = 0
  /\ cursor = Created
  /\ answer = [begin |-> 0, end |-> 0, rows |-> Empty, thrown |-> FALSE]
  /\ stream = [stride |-> 1, realpos |-> 0, reqpos |-> 0, done |-> FALSE, first |-> NoIter]
  /\ iters = [i \in Iter |-> Gone]

ResultRests ==
  /\ names = <<"a">> /\ row = RowAt(0) /\ cells = WholeRow(0)
  /\ walk = NoWalk /\ place = 0 /\ failure = NoFailure

ArrayRests ==
  /\ enc = "UTF8" /\ kind = "array" /\ reached = 0 /\ found = << >>
  /\ glyphs = <<ByteGlyph(OpenBrace), ByteGlyph(CloseBrace)>> /\ text = FlattenSeq(glyphs)
  /\ meant = <<Juncture("row_start", << >>), Juncture("row_end", << >>)>>

CopyRests ==
  /\ encoding = "UTF8" /\ converts = FALSE /\ tables = [t \in {Source, Target} |-> << >>]
  /\ copying = << >> /\ lines = << >> /\ writer = NoWriter /\ reader = NoReader
  /\ focused = [t \in {Source, Target} |-> "none"]
  /\ given = [rows |-> << >>, passed |-> {}, spoiled |-> FALSE] /\ got = NothingOf(Source)

ConversionRests ==
  /\ build = "loop" /\ type = ByteString /\ job = "escape" /\ image = << >> /\ at = 0
  /\ behind = Nul /\ origin = << >> /\ value = << >> /\ todo = << >> /\ made = TRUE

DataInit ==
  /\ part \in {"cursor", "blob", "largeobject", "result", "array", "copy", "conversion"}
  /\ BlobInit /\ LoInit
  /\ IF part = "cursor" THEN CursorInit ELSE CursorRests
  /\ IF part = "result" THEN ResultInit ELSE ResultRests
  /\ IF part = "array" THEN ArrayInit ELSE ArrayRests
  /\ IF part = "copy" THEN CopyInit ELSE CopyRests
  /\ IF part = "conversion" THEN ConversionInit ELSE ConversionRests

DataNext ==
  /\ \/ /\ part = "cursor" /\ CursorNext
        /\ UNCHANGED <<blobVars, loVars, resultVars, arrayVars, copyVars, conversionVars>>
     \/ /\ part = "blob" /\ BlobNext
        /\ UNCHANGED <<cursorVars, loVars, resultVars, arrayVars, copyVars, conversionVars>>
     \/ /\ part = "largeobject" /\ LoNext
        /\ UNCHANGED <<cursorVars, blobVars, resultVars, arrayVars, copyVars, conversionVars>>
     \/ /\ part = "result" /\ ResultNext
        /\ UNCHANGED <<cursorVars, blobVars, loVars, arrayVars, copyVars, conversionVars>>
     \/ /\ part = "array" /\ ArrayNext
        /\ UNCHANGED <<cursorVars, blobVars, loVars, resultVars, copyVars, conversionVars>>
     \/ /\ part = "copy" /\ CopyNext
        /\ UNCHANGED <<cursorVars, blobVars, loVars, resultVars, arrayVars, conversionVars>>
     \/ /\ part = "conversion" /\ ConversionNext
        /\ UNCHANGED <<cursorVars, blobVars, loVars, resultVars, arrayVars, copyVars>>
  /\ UNCHANGED part

DataSpec == DataInit /\ [][DataNext]_dataVars

-----------------------------------------------------------------------------
(* Every variable has its type. *)
DataTypeOK ==
  CursorTypeOK /\ BlobTypeOK /\ LoTypeOK /\ ResultTypeOK /\ ArrayTypeOK /\ CopyTypeOK
  /\ ConversionTypeOK
=============================================================================
