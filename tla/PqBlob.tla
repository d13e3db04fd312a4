-------------------------------- MODULE PqBlob --------------------------------
(***************************************************************************)
(* pqxx::blob: handles to large objects of the server.  A handle holds the *)
(* number of a descriptor, and the server reuses these numbers.  Contents  *)
(* are lengths: what was written is the server's business; how much, into  *)
(* which descriptor and which buffer, is the library's.                    *)
(***************************************************************************)
EXTENDS Integers, FiniteSets, FiniteSetsExt

CONSTANTS
  Blob,       (* The blob objects of the program.                          *)
  MaxId,      (* Bound: how many oids there are; 0 is none.                *)
  MaxFd,      (* Bound: how many descriptors are open at a time.           *)
  MaxSize,    (* Bound: the size of an object.                             *)
  ChunkLimit  (* chunk_limit, less than what a program may ask for.        *)

ASSUME BlobAssumption ==
  /\ MaxId \in Nat \ {0} /\ MaxFd \in Nat \ {0}
  /\ MaxSize \in Nat /\ ChunkLimit \in 0 .. MaxSize

VARIABLES
  block,      (* The transaction: none, open, or failed by an error.       *)
  sizes,      (* Server: the objects.                                      *)
  fds,        (* Server: the descriptors of this session.                  *)
  blobs,      (* The program's handles.                                    *)
  buf,        (* The size of the program's buffer.                         *)
  lastCall,   (* History: what the last transfer did.                      *)
  strayed     (* History: a handle was used after its transaction.         *)

blobVars == <<block, sizes, fds, blobs, buf, lastCall, strayed>>

-----------------------------------------------------------------------------
Id == 1 .. MaxId

NoObject == -1

Fd == 0 .. MaxFd - 1

Unused == [id |-> 0, pos |-> 0, writes |-> FALSE]

Descriptor == [id : 0 .. MaxId, pos : 0 .. MaxSize, writes : BOOLEAN]

Handle == [conn : BOOLEAN,             (* Whether there is an m_conn. *)
           fd   : -1 .. MaxFd - 1,     (* m_fd *)
           old  : BOOLEAN]             (* History: its transaction is over. *)

Useless == [conn |-> FALSE, fd |-> -1, old |-> FALSE]

CallOutcome == [call   : {"none", "from_buf", "append_from_buf", "read", "append_to_buf"},
            thrown : BOOLEAN,
            before : (0 .. 2 * MaxSize) \cup Id,  (* The size of what was there,
                                                     or the oid asked for. *)
            count  : -1 .. MaxSize]       (* How much was transferred. *)

Nothing == [call |-> "none", thrown |-> FALSE, before |-> 0, count |-> 0]

Did(call, before, count) ==
  lastCall' = [call |-> call, thrown |-> FALSE, before |-> before, count |-> count]

Threw(call, before) ==
  lastCall' = [call |-> call, thrown |-> TRUE, before |-> before, count |-> 0]

Quiet == lastCall' = Nothing

Exists(id) == id \in Id /\ sizes[id] # NoObject

(* A large object function of libpq.  An error fails the block, and there    *)
(* may be one at any time, of the connection if not of the server.           *)
Errs ==
  block \in {"open", "failed"} /\ block' = "failed" /\ UNCHANGED <<sizes, fds>>

Works == block = "open" /\ UNCHANGED block

(* lo_open chooses the lowest free descriptor. *)
FreeFd == Min({f \in Fd : fds[f].id = 0} \cup {MaxFd})

IsOpen(b) == blobs[b].conn

(* The descriptor of an open handle. *)
Its(b) == fds[blobs[b].fd]

Uses(b) == strayed' = (strayed \/ blobs[b].old)

-----------------------------------------------------------------------------
BeginTransaction ==
  /\ block = "none"
  /\ block' = "open"
  /\ sizes' \in [Id -> {NoObject, 0, MaxSize}]
  /\ Quiet /\ UNCHANGED <<fds, blobs, buf, strayed>>

(* The transaction is over, and with it the server's descriptors.  What the  *)
(* next one finds is up to Begin.                                            *)
Finish ==
  /\ block # "none"
  /\ block' = "none" /\ fds' = [f \in Fd |-> Unused]
  /\ sizes' = [i \in Id |-> NoObject]
  /\ blobs' = [b \in Blob |-> [blobs[b] EXCEPT !.old = blobs[b].conn]]
  /\ Quiet /\ UNCHANGED <<buf, strayed>>

(* create, with an oid or with 0 for any. *)
Create ==
  /\ \/ Errs
     \/ /\ Works /\ UNCHANGED fds
        /\ \E id \in Id : ~Exists(id) /\ sizes' = [sizes EXCEPT ![id] = 0]
  /\ Quiet /\ UNCHANGED <<blobs, buf, strayed>>

(* remove *)
RemoveObject ==
  /\ \/ Errs
     \/ /\ Works /\ UNCHANGED fds
        /\ \E id \in Id : Exists(id) /\ sizes' = [sizes EXCEPT ![id] = NoObject]
  /\ Quiet /\ UNCHANGED <<blobs, buf, strayed>>

(* open_r, open_w and open_rw, by open_internal. *)
OpenBlob ==
  /\ \/ Errs /\ UNCHANGED blobs
     \/ /\ Works /\ FreeFd \in Fd /\ UNCHANGED sizes
        /\ \E b \in Blob, id \in Id, writes \in BOOLEAN :
             /\ blobs[b] = Useless /\ Exists(id)
             /\ fds' = [fds EXCEPT ![FreeFd] = [id |-> id, pos |-> 0, writes |-> writes]]
             /\ blobs' = [blobs EXCEPT ![b] = [conn |-> TRUE, fd |-> FreeFd, old |-> FALSE]]
  /\ Quiet /\ UNCHANGED <<buf, strayed>>

(* lo_close, whose answer nobody looks at.  In a failed block, or of a       *)
(* descriptor that is not open, it is an error.                              *)
LoClose(fd) ==
  IF block = "open" /\ fds[fd].id # 0
    THEN fds' = [fds EXCEPT ![fd] = Unused] /\ UNCHANGED <<block, sizes>>
    ELSE /\ block' = IF block = "none" THEN block ELSE "failed"
         /\ UNCHANGED <<fds, sizes>>

(* The members, and the reset of those of the other. *)
MovedFrom(b, c) == [blobs EXCEPT ![b] = blobs[c], ![c] = Useless]

(* Mutant: what the handle had open stays open. *)
CloseBeforeNot(b) == UNCHANGED <<block, fds, sizes, strayed>>

(* What assignment does with the handle's own descriptor. *)
CloseBefore(b) ==
  IF blobs[b].fd = -1 THEN UNCHANGED <<block, fds, sizes, strayed>>
  ELSE LoClose(blobs[b].fd) /\ Uses(b)

(* The move constructor, and assignment. *)
MoveBlob ==
  /\ \E b, c \in Blob :
       b # c /\ IsOpen(c) /\ CloseBefore(b) /\ blobs' = MovedFrom(b, c)
  /\ Quiet /\ UNCHANGED buf

(* close, and the destructor. *)
CloseBlob ==
  /\ \E b \in Blob :
       /\ blobs[b].fd # -1 /\ LoClose(blobs[b].fd) /\ Uses(b)
       /\ blobs' = [blobs EXCEPT ![b] = Useless]
  /\ Quiet /\ UNCHANGED buf

-----------------------------------------------------------------------------
Least(n, m) == IF n < m THEN n ELSE m

Most(n, m) == IF n < m THEN m ELSE n

(* read makes the buffer as large as what was asked for, and then as large   *)
(* as what was received.                                                     *)
SizeAfter(asked, received) == received

(* read *)
Read ==
  /\ \E b \in Blob, asked \in 0 .. MaxSize :
       /\ IsOpen(b) /\ Uses(b)
       /\ \/ /\ asked > ChunkLimit /\ Threw("read", 0)
             /\ UNCHANGED <<block, sizes, fds, buf>>
          \/ asked <= ChunkLimit /\ Errs /\ buf' = asked /\ Threw("read", 0)
          \/ /\ asked <= ChunkLimit /\ Works /\ Exists(Its(b).id)
             /\ LET n == Least(asked, Most(sizes[Its(b).id] - Its(b).pos, 0))
                IN /\ fds' = [fds EXCEPT ![blobs[b].fd].pos = @ + n]
                   /\ buf' = SizeAfter(asked, n) /\ Did("read", 0, n)
             /\ UNCHANGED sizes
  /\ UNCHANGED blobs

(* write, which replaces what is there and does not truncate. *)
Write ==
  /\ \E b \in Blob, n \in 0 .. ChunkLimit :
       /\ IsOpen(b) /\ Uses(b)
       /\ \/ Errs
          \/ /\ Works /\ Its(b).writes /\ Exists(Its(b).id) /\ Its(b).pos + n <= MaxSize
             /\ fds' = [fds EXCEPT ![blobs[b].fd].pos = @ + n]
             /\ sizes' = [sizes EXCEPT ![Its(b).id] = Most(@, Its(b).pos + n)]
  /\ Quiet /\ UNCHANGED <<blobs, buf>>

(* resize *)
Resize ==
  /\ \E b \in Blob, n \in 0 .. MaxSize :
       /\ IsOpen(b) /\ Uses(b)
       /\ \/ Errs
          \/ /\ Works /\ Its(b).writes /\ Exists(Its(b).id) /\ UNCHANGED fds
             /\ sizes' = [sizes EXCEPT ![Its(b).id] = n]
  /\ Quiet /\ UNCHANGED <<blobs, buf>>

(* seek_abs, seek_rel and seek_end, by seek; tell moves nothing. *)
Seek ==
  /\ \E b \in Blob, to \in 0 .. MaxSize :
       /\ IsOpen(b) /\ Uses(b)
       /\ \/ Errs
          \/ /\ Works /\ Its(b).id # 0 /\ UNCHANGED sizes
             /\ fds' = [fds EXCEPT ![blobs[b].fd].pos = to]
  /\ Quiet /\ UNCHANGED <<blobs, buf>>

-----------------------------------------------------------------------------
(* The functions that open and close a handle of their own. *)

(* Mutant: the handler of from_buf removes nothing. *)
LeftBehindAlways(asked) == 0

(* The handler of from_buf removes the oid that was asked for, and not the   *)
(* one that the object got: without an oid the object stays, empty.          *)
LeftBehind(asked) == IF asked = 0 THEN 0 ELSE NoObject

(* from_buf.  Data beyond the limit is refused when the object is there, and *)
(* the server knows nothing of it.                                           *)
FromBuf ==
  /\ \/ Errs /\ Threw("from_buf", 0)
     \/ \E asked \in 0 .. MaxId, id \in Id, n \in 0 .. MaxSize :
          /\ asked \in {0, id}
          /\ Works /\ ~Exists(id) /\ FreeFd \in Fd /\ UNCHANGED fds
          /\ \/ /\ n > ChunkLimit /\ Threw("from_buf", asked)
                /\ sizes' = [sizes EXCEPT ![id] = LeftBehind(asked)]
             \/ /\ n <= ChunkLimit /\ Did("from_buf", 0, n)
                /\ sizes' = [sizes EXCEPT ![id] = n]
  /\ UNCHANGED <<blobs, buf, strayed>>

(* append_from_buf: a handle that writes from the end on. *)
AppendFromBuf ==
  /\ \/ Errs /\ Threw("append_from_buf", 0)
     \/ \E id \in Id, n \in 0 .. ChunkLimit :
          /\ Works /\ Exists(id) /\ FreeFd \in Fd /\ sizes[id] + n <= MaxSize
          /\ sizes' = [sizes EXCEPT ![id] = @ + n]
          /\ Did("append_from_buf", sizes[id], n)
          /\ UNCHANGED fds
  /\ UNCHANGED <<blobs, buf, strayed>>

(* append_to_buf: the answer of lo_read is used as it comes.  A failure, -1, *)
(* makes the buffer one shorter; if it was empty, that is too large a size,  *)
(* an exception, and it is made as it was.                                   *)
AppendToBuf ==
  /\ \/ Errs /\ UNCHANGED buf /\ Threw("append_to_buf", buf)
     \/ /\ block = "open" /\ Errs
        /\ IF buf = 0 THEN UNCHANGED buf /\ Threw("append_to_buf", buf)
           ELSE buf' = buf - 1 /\ Did("append_to_buf", buf, -1)
     \/ \E id \in Id, offset \in 0 .. MaxSize, most \in 0 .. ChunkLimit :
          LET n == Least(most, Most(sizes[id] - offset, 0))
          IN /\ Works /\ Exists(id) /\ FreeFd \in Fd /\ buf + n <= 2 * MaxSize
             /\ buf' = buf + n /\ Did("append_to_buf", buf, n)
             /\ UNCHANGED <<sizes, fds>>
  /\ UNCHANGED <<blobs, strayed>>

(* to_buf: read, by a handle of its own. *)
ToBuf ==
  /\ \/ Errs /\ Threw("read", 0) /\ buf' \in 0 .. ChunkLimit \cup {buf}
     \/ \E id \in Id, most \in 0 .. ChunkLimit :
          LET n == Least(most, sizes[id])
          IN /\ Works /\ Exists(id) /\ FreeFd \in Fd /\ UNCHANGED <<sizes, fds>>
             /\ buf' = SizeAfter(most, n) /\ Did("read", 0, n)
  /\ UNCHANGED <<blobs, strayed>>

(* from_file, with an oid and without: lo_import. *)
FromFile ==
  /\ \/ Errs
     \/ /\ Works /\ UNCHANGED fds
        /\ \E id \in Id, n \in {0, MaxSize} :
             ~Exists(id) /\ sizes' = [sizes EXCEPT ![id] = n]
  /\ Quiet /\ UNCHANGED <<blobs, buf, strayed>>

-----------------------------------------------------------------------------
BlobInit ==
  /\ block = "none" /\ sizes = [i \in Id |-> NoObject]
  /\ fds = [f \in Fd |-> Unused] /\ blobs = [b \in Blob |-> Useless]
  /\ buf = 0 /\ lastCall = Nothing /\ strayed = FALSE

BlobNext ==
  \/ BeginTransaction \/ Finish \/ Create \/ RemoveObject \/ OpenBlob \/ MoveBlob \/ CloseBlob
  \/ Read \/ Write \/ Resize \/ Seek
  \/ FromBuf \/ AppendFromBuf \/ AppendToBuf \/ ToBuf \/ FromFile

BlobSpec == BlobInit /\ [][BlobNext]_blobVars

-----------------------------------------------------------------------------
(* Every variable has its type; a handle has a connection if and only if it  *)
(* has a descriptor.                                                         *)
BlobTypeOK ==
  /\ block \in {"none", "open", "failed"}
  /\ sizes \in [Id -> NoObject .. MaxSize] /\ fds \in [Fd -> Descriptor]
  /\ blobs \in [Blob -> Handle]
  /\ \A b \in Blob : blobs[b].conn <=> blobs[b].fd # -1
  /\ buf \in 0 .. 2 * MaxSize /\ lastCall \in CallOutcome

(* While no handle is used beyond its transaction, the handles of this one   *)
(* and the server's descriptors belong to each other, one to one: none is    *)
(* leaked, none is closed twice, and none reads from another's object.       *)
DescriptorsAreOwned ==
  block = "open" /\ ~strayed =>
    LET mine == {b \in Blob : IsOpen(b) /\ ~blobs[b].old}
    IN /\ {blobs[b].fd : b \in mine} = {f \in Fd : fds[f].id # 0}
       /\ \A b, c \in mine : blobs[b].fd = blobs[c].fd => b = c

(* A from_buf that throws leaves no object behind in a transaction that goes *)
(* on, if it was given an oid.                                               *)
FailureLeavesNothing ==
  [][lastCall'.call = "from_buf" /\ lastCall'.thrown /\ lastCall'.before # 0
     /\ block' = "open" => sizes' = sizes]_blobVars

(* When a read succeeds, the buffer holds what was received and no more.     *)
BufferHoldsRead ==
  ~lastCall.thrown /\ lastCall.count # -1 =>
    CASE lastCall.call = "read" -> buf = lastCall.count
      [] lastCall.call = "append_to_buf" -> buf = lastCall.before + lastCall.count
      [] OTHER -> TRUE

(* A blob has its descriptor to itself, and gives what that read.            *)
BlobsAreSound == DescriptorsAreOwned /\ BufferHoldsRead

(* "Read part of the binary large object with id, and append it to buf":     *)
(* what was in the buffer stays there.                                       *)
AppendKeepsBuffer == lastCall.call = "append_to_buf" => buf >= lastCall.before

=============================================================================
