------------------------------ MODULE PlainFile ------------------------------
(***************************************************************************)
(* What a stream on a large object promises: that it is like a file which  *)
(* is read and written one character at a time, at one position.  The      *)
(* promise holds as long as the file is trusted.                           *)
(***************************************************************************)
EXTENDS Naturals, Sequences

CONSTANTS
  Char,       (* What the program writes.                                  *)
  Zero,       (* What the server fills gaps with.                          *)
  Eof         (* What is got when there is nothing to read.                *)

VARIABLES
  content,    (* The characters of the file.                               *)
  at,         (* How many of them are before the position.                 *)
  got,        (* The character that was read last.                         *)
  turn,       (* Changes with every character.                             *)
  trusted     (* Whether the promise holds.                                *)

fileVars == <<content, at, got, turn, trusted>>

FileInit == trusted = FALSE

(* A new file. *)
Begins == ~trusted /\ at' = 0

PutChar ==
  /\ \E ch \in Char :
       content' = IF at < Len(content) THEN [content EXCEPT ![at + 1] = ch]
                  ELSE Append(content \o [i \in 1 .. at - Len(content) |-> Zero], ch)
  /\ at' = at + 1 /\ turn' = ~turn
  /\ UNCHANGED <<got, trusted>>

GetChar ==
  /\ IF at < Len(content) THEN got' = content[at + 1] /\ at' = at + 1
     ELSE got' = Eof /\ UNCHANGED at
  /\ turn' = ~turn
  /\ UNCHANGED <<content, trusted>>

SeekFile == at' \in Nat /\ UNCHANGED <<content, got, turn, trusted>>

(* All bets are off. *)
NoTrust == ~trusted'

FileSpec == FileInit /\ [][NoTrust \/ Begins \/ PutChar \/ GetChar \/ SeekFile]_fileVars

=============================================================================
