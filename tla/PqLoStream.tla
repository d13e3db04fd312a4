------------------------------- MODULE PqLoStream -------------------------------
(***************************************************************************)
(* The deprecated interface to large objects: largeobject, which names     *)
(* one, largeobjectaccess, which has it open, and largeobject_streambuf,   *)
(* which buffers what a standard stream reads and writes.  There is one    *)
(* stream, in one transaction.                                             *)
(***************************************************************************)
EXTENDS Naturals, Sequences

CONSTANTS
  Char,       (* What the program writes.                                  *)
  Zero,       (* What the server fills gaps with.                          *)
  Eof,        (* eof()                                                     *)
  Content,    (* The contents that an object may have at first.            *)
  BufSize,    (* m_bufsize                                                 *)
  MaxLength   (* Bound: how far an object grows.                           *)

ASSUME LoStreamAssumption ==
  /\ BufSize \in Nat \ {0} /\ MaxLength \in Nat
  /\ Zero \notin Char /\ Eof \notin Char \cup {Zero}
  /\ \A data \in Content : data \in Seq(Char) /\ Len(data) <= MaxLength

VARIABLES
  object,     (* Server: the object's content.                             *)
  id,         (* Whether largeobject's m_id names it, or is oid_none.      *)
  ok,         (* Whether the transaction still works.                      *)
  open,       (* Whether the largeobjectaccess has a descriptor, m_fd.     *)
  offset,     (* Server: the descriptor's position.                        *)
  area,       (* The get and the put area of the streambuf.                *)
  read,       (* History: what sgetc and the like returned last.           *)
  turn,       (* History: changes with every character put or got.         *)
  crossed     (* History: the program used one area across the other.      *)

loVars == <<object, id, ok, open, offset, area, read, turn, crossed>>

-----------------------------------------------------------------------------
NoContent == <<Eof>>

Area == [in : BOOLEAN, out : BOOLEAN,                (* openmode *)
         get : Seq(Char \cup {Zero}), next : Nat,    (* eback, gptr and egptr *)
         put : Seq(Char)]                            (* pbase and pptr *)

NoArea == [in |-> FALSE, out |-> FALSE, get |-> << >>, next |-> 0, put |-> << >>]

(* The server's string old, written over behind its first n characters.      *)
Overwritten(old, n, new) ==
  IF new = << >> THEN old
  ELSE [i \in 1 .. (IF Len(old) > n + Len(new) THEN Len(old) ELSE n + Len(new)) |->
          IF i > n /\ i <= n + Len(new) THEN new[i - n]
          ELSE IF i <= Len(old) THEN old[i] ELSE Zero]

Unread == Len(area.get) - area.next

(* An error of the server fails the transaction. *)
Fails == ok' = FALSE

-----------------------------------------------------------------------------
(* The constructors of largeobject: lo_creat and lo_import. *)
CreateObject ==
  /\ ~id /\ object = NoContent
  /\ \/ Fails /\ UNCHANGED <<object, id, open>>
     \/ /\ ok /\ UNCHANGED ok
        /\ object' \in Content /\ id' = TRUE
  /\ UNCHANGED <<open, offset, area, read, turn, crossed>>

(* remove.  The number stays. *)
UnlinkObject ==
  /\ id /\ ~open
  /\ \/ Fails /\ UNCHANGED object
     \/ ok /\ UNCHANGED ok /\ object' = NoContent
  /\ UNCHANGED <<id, open, offset, area, read, turn, crossed>>

(* The streambuf's constructor: open, and initialize. *)
OpenStream ==
  /\ id /\ ~open
  /\ \/ Fails /\ UNCHANGED <<open, offset, area>>
     \/ /\ ok /\ object # NoContent /\ UNCHANGED ok
        /\ open' = TRUE /\ offset' = 0
        /\ \E in, out \in BOOLEAN :
             (in \/ out) /\ area' = [NoArea EXCEPT !.in = in, !.out = out]
  /\ UNCHANGED <<object, id, read, turn, crossed>>

(* "Write that one more character, if it's there." *)
Fresh(ch) == IF ch = Eof THEN << >> ELSE <<ch>>

(* overflow, in a stream that writes, with the get area as it shall be.  If  *)
(* cwrite fails there is an exception, and the put area stays.               *)
Overflow(ch, get) ==
  IF area.put = << >>
    THEN area' = [get EXCEPT !.put = Fresh(ch)] /\ UNCHANGED <<object, offset, ok>>
    ELSE \/ Fails /\ area' = get /\ UNCHANGED <<object, offset>>
         \/ /\ ok /\ UNCHANGED ok
            /\ object' = Overwritten(object, offset, area.put)
            /\ offset' = offset + Len(area.put)
            /\ area' = [get EXCEPT !.put = Fresh(ch)]

(* sputc *)
Put ==
  /\ open /\ area.out
  /\ offset + Len(area.put) < MaxLength
  /\ \E ch \in Char :
       IF Len(area.put) < BufSize
         THEN /\ area' = [area EXCEPT !.put = Append(@, ch)]
              /\ UNCHANGED <<object, offset, ok>>
         ELSE Overflow(ch, area)
  /\ turn' = ~turn /\ crossed' = (crossed \/ Unread > 0)
  /\ UNCHANGED <<id, open, read>>

(* The get area after underflow, one character of which is read. *)
NextOf(data) == IF data = << >> THEN 0 ELSE 1

(* sbumpc, with underflow when the get area is used up. *)
GetChar ==
  /\ open /\ area.in
  /\ area.put # << >> => Len(object) + Len(area.put) <= MaxLength
  /\ IF Unread > 0
       THEN /\ read' = area.get[area.next + 1]
            /\ area' = [area EXCEPT !.next = @ + 1]
            /\ UNCHANGED <<offset, ok>>
       ELSE LET data == SubSeq(object, offset + 1,
                               IF offset + BufSize < Len(object)
                                 THEN offset + BufSize ELSE Len(object))
            IN \/ /\ Fails /\ read' = Eof /\ UNCHANGED offset
                  /\ area' = [area EXCEPT !.get = << >>, !.next = 0]
               \/ /\ ok /\ UNCHANGED ok
                  /\ offset' = offset + Len(data)
                  /\ area' = [area EXCEPT !.get = data, !.next = NextOf(data)]
                  /\ read' = IF data = << >> THEN Eof ELSE data[1]
  /\ turn' = ~turn /\ crossed' = (crossed \/ area.put # << >>)
  /\ UNCHANGED <<object, id, open>>

(* sync: the get area is taken back to its beginning, and so read again. *)
Sync ==
  /\ open
  /\ LET again == [area EXCEPT !.next = 0]
     IN IF area.out THEN Overflow(Eof, again)
        ELSE area' = again /\ UNCHANGED <<object, offset, ok>>
  /\ crossed' = (crossed \/ area.next > 0)
  /\ UNCHANGED <<id, open, read, turn>>

(* seekoff and seekpos: cseek, and the areas stay as they are. *)
SeekStream ==
  /\ open
  /\ \/ Fails /\ UNCHANGED offset
     \/ /\ ok /\ UNCHANGED ok
        /\ \E n \in 0 .. MaxLength - Len(area.put) : offset' = n
  /\ crossed' = (crossed \/ Unread > 0 \/ area.put # << >>)
  /\ UNCHANGED <<object, id, open, area, read, turn>>

(* Mutant: what is in the put area is lost. *)
LastlyNothing == UNCHANGED <<object, offset, ok>>

(* pubsync, in the destructors of olostream and lostream: the second of the  *)
(* two finds nothing to do, or fails as the first.                           *)
Lastly ==
  IF area.put = << >> THEN UNCHANGED <<object, offset, ok>>
  ELSE \/ Fails /\ UNCHANGED <<object, offset>>
       \/ /\ ok /\ UNCHANGED ok
          /\ object' = Overwritten(object, offset, area.put)
          /\ offset' = offset + Len(area.put)

(* Then the streambuf is destroyed. *)
DestroyStream ==
  /\ open /\ Lastly
  /\ open' = FALSE /\ area' = NoArea
  /\ UNCHANGED <<id, read, turn, crossed>>

-----------------------------------------------------------------------------
LoInit ==
  /\ object = NoContent /\ id = FALSE /\ ok = TRUE /\ open = FALSE
  /\ offset = 0 /\ area = NoArea /\ read = Eof /\ turn = FALSE
  /\ crossed = FALSE

LoNext ==
  \/ CreateObject \/ UnlinkObject \/ OpenStream
  \/ Put \/ GetChar \/ Sync \/ SeekStream \/ DestroyStream

LoSpec == LoInit /\ [][LoNext]_loVars

-----------------------------------------------------------------------------
(* Every variable has its type, and the areas have their size. *)
LoTypeOK ==
  /\ object = NoContent \/ object \in Seq(Char \cup {Zero})
  /\ {id, ok, open, turn, crossed} \subseteq BOOLEAN
  /\ offset \in 0 .. MaxLength /\ area \in Area
  /\ area.next <= Len(area.get) /\ Len(area.get) <= BufSize
  /\ Len(area.put) <= BufSize
  /\ read \in Char \cup {Zero, Eof}

(* As long as the program moves from reading to writing, flushes and seeks   *)
(* only when the areas have nothing in them that it would cross, the stream  *)
(* is the plain file that it replaces: characters that are in the put area   *)
(* are in the file, those in the get area are yet to be read, and destroying *)
(* the stream changes nothing.                                               *)
File == INSTANCE PlainFile WITH
  content <- Overwritten(object, offset, area.put),
  at <- offset + Len(area.put) - Unread, got <- read,
  trusted <- ok /\ object # NoContent /\ ~crossed

IsPlainFile == File!FileSpec

=============================================================================
