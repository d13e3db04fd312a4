-------------------------------- MODULE PqNotify --------------------------------
(***************************************************************************)
(* Notifications on one pqxx::connection: the multimap of receivers, the   *)
(* LISTEN and UNLISTEN that go with it, and get_notifs, which calls the    *)
(* receivers.  A receiver's code may call the connection again, and so     *)
(* get_notifs, while the loops that called it are still under way.         *)
(***************************************************************************)
EXTENDS Naturals, Sequences, SequencesExt

CONSTANTS
  Receiver,     (* The receiver objects of the program.                    *)
  ChannelOf,    (* The channel of each; std::multimap orders by it.        *)
  MaxNotifs,    (* Bound: how many notifications are sent.                 *)
  MaxDepth,     (* Bound: how deep calls of get_notifs nest.               *)
  Liberties     (* What the program does beyond the plain use: see below.  *)

ASSUME NotifyAssumption ==
  /\ ChannelOf \in [Receiver -> Nat] /\ "end" \notin Receiver
  /\ MaxNotifs \in Nat /\ MaxDepth \in Nat
  /\ Liberties \subseteq {"add in callback", "remove in callback", "add in block"}

VARIABLES
  receivers,    (* m_receivers, in order.                                  *)
  object,       (* The life of each receiver object.                       *)
  trans,        (* m_trans, and the block behind it.                       *)
  listening,    (* Server: the channels of this session.                   *)
  fallback,     (* Server: what a rollback makes of listening.             *)
  channel,      (* The channel of each notification sent.                  *)
  inbox,        (* Notifications that libpq has not read yet.              *)
  queue,        (* Those that it has: the answers of PQnotifies.           *)
  loops,        (* The calls of get_notifs under way, the inner ones last. *)
  calls         (* History: how often each was delivered to whom.          *)

notifyVars == <<receivers, object, trans, listening, fallback, channel, inbox,
                queue, loops, calls>>

-----------------------------------------------------------------------------
Channels == {ChannelOf[r] : r \in Receiver}

Notifs == 1 .. Len(channel)

Stop == "end"      (* std::end(m_receivers) *)

Iterator == Receiver \cup {Stop}

(* A call of get_notifs: the notification it is at (0: none yet), the        *)
(* iterator, the end of equal_range, whether a receiver's code is running,   *)
(* whether any notification came, and what await_notification does if none.  *)
(* due is history: the receivers there were when the notification was taken. *)
Loop == [n : 0 .. MaxNotifs, at : Iterator, stop : Iterator, inside : BOOLEAN,
         some : BOOLEAN, await : {"no", "forever", "timeout"},
         due : SUBSET Receiver]

Called == [n |-> 0, at |-> Stop, stop |-> Stop, inside |-> FALSE,
           some |-> FALSE, await |-> "no", due |-> {}]

Registered == ToSet(receivers)

(* The element at a place of the multimap. *)
At(i) == IF i \in DOMAIN receivers THEN receivers[i] ELSE Stop

Index(r) == CHOOSE i \in DOMAIN receivers : receivers[i] = r

(* ++i *)
Successor(i) == At(Index(i) + 1)

(* lower_bound of a channel: the first place from which on there is nothing  *)
(* less, and upper_bound, for channels are numbers here.                     *)
LowerBound(c) ==
  CHOOSE i \in 1 .. Len(receivers) + 1 :
    /\ i = Len(receivers) + 1 \/ ChannelOf[receivers[i]] >= c
    /\ \A j \in 1 .. i - 1 : ChannelOf[receivers[j]] < c

UpperBound(c) == LowerBound(c + 1)

-----------------------------------------------------------------------------
(* The program makes calls when no loop is under way, and from the code of   *)
(* the receiver that the innermost loop has called.                          *)

InCallback == loops # << >>

MayCall == InCallback => loops[Len(loops)].inside

(* In a transaction there are no notifications, so none nests. *)
MayLoop == MayCall /\ (trans = "none" => Len(loops) < MaxDepth)

(* consume_input.  The server sends none to a session in a block. *)
Consume ==
  IF trans \in {"block", "failed block"}
    THEN UNCHANGED <<inbox, queue>>
    ELSE queue' = queue \o inbox /\ inbox' = << >>

(* "Even if somehow we receive notifications during our transaction, don't   *)
(* deliver them."                                                            *)
DeliversNow == trans = "none"

(* The beginning of get_notifs. *)
GetNotifs(await) ==
  /\ Consume
  /\ loops' = IF DeliversNow \/ await # "no"
                THEN Append(loops, [Called EXCEPT !.await = await]) ELSE loops

(* connection::exec and its like end in get_notifs. *)
Exec ==
  /\ MayLoop /\ (inbox # << >> \/ queue # << >>)
  /\ GetNotifs("no")
  /\ UNCHANGED <<receivers, object, trans, listening, fallback, channel, calls>>

(* await_notification, with a timeout and without *)
Await ==
  /\ MayLoop /\ ~InCallback
  /\ \E t \in {"forever", "timeout"} : GetNotifs(t)
  /\ UNCHANGED <<receivers, object, trans, listening, fallback, channel, calls>>

(* Where a loop is. *)
Top == loops[Len(loops)]

SetTop(loop) == loops' = [loops EXCEPT ![Len(loops)] = loop]

(* An iterator to a receiver that was erased must not be used. *)
Valid(i) == i \in Registered \cup {Stop}

LoopStep ==
  InCallback /\ ~Top.inside /\ Valid(Top.at) /\ Valid(Top.stop)

(* Mutant: the notification stays in libpq's list while it is served. *)
TakenLater == IF Len(queue) > 1 THEN Tail(queue) ELSE queue

Taken == Tail(queue)

(* get_notif, and the range of its receivers. *)
Take ==
  /\ LoopStep /\ Top.at = Top.stop /\ queue # << >> /\ DeliversNow
  /\ LET c == channel[Head(queue)]
     IN SetTop([Top EXCEPT !.n = Head(queue), !.some = TRUE,
                           !.at = At(LowerBound(c)), !.stop = At(UpperBound(c)),
                           !.due = {r \in Registered : ChannelOf[r] = c}])
  /\ queue' = Taken
  /\ UNCHANGED <<receivers, object, trans, listening, fallback, channel, inbox,
                 calls>>

(* The receiver is called. *)
CallReceiver ==
  /\ LoopStep /\ Top.at # Top.stop /\ Top.at # Stop
  /\ SetTop([Top EXCEPT !.inside = TRUE])
  /\ calls' = [calls EXCEPT ![Top.n][Top.at] = IF @ < 2 THEN @ + 1 ELSE 2]
  /\ UNCHANGED <<receivers, object, trans, listening, fallback, channel, inbox,
                 queue>>

(* Mutant: an exception leaves the loop over the receivers. *)
AfterThrowLeaves(i, stop) == stop

(* After an exception in a receiver, which is reported to the error          *)
(* handlers.                                                                 *)
AfterThrow(i, stop) == Successor(i)

(* The receiver returns or throws, having ended its transaction. *)
ReturnFromCallback ==
  /\ InCallback /\ Top.inside /\ trans = "none" /\ Valid(Top.at)
  /\ \E throws \in BOOLEAN :
       SetTop([Top EXCEPT !.inside = FALSE,
                          !.at = IF throws THEN AfterThrow(@, Top.stop)
                                 ELSE Successor(@)])
  /\ UNCHANGED <<receivers, object, trans, listening, fallback, channel, inbox,
                 queue, calls>>

LoopIsDone == Top.at = Top.stop /\ (queue = << >> \/ ~DeliversNow)

(* get_notifs returns to its caller, which has nothing more to do. *)
LoopEnd ==
  /\ LoopStep /\ LoopIsDone /\ (Top.await = "no" \/ Top.some)
  /\ loops' = Front(loops)
  /\ UNCHANGED <<receivers, object, trans, listening, fallback, channel, inbox,
                 queue, calls>>

(* await_notification: wait_read, and get_notifs once more. *)
Woken ==
  /\ LoopStep /\ LoopIsDone /\ Top.await # "no" /\ ~Top.some
  /\ inbox # << >> \/ Top.await = "timeout"
  /\ Consume
  /\ loops' = IF DeliversNow THEN << Called >> ELSE << >>
  /\ UNCHANGED <<receivers, object, trans, listening, fallback, channel, calls>>

-----------------------------------------------------------------------------
(* Receivers come and go. *)

(* "Not listening on this event yet, start doing so." *)
NeedsListen(c) == \A r \in Registered : ChannelOf[r] # c

(* Without a block a statement is its own transaction. *)
SetListening(channels) ==
  /\ listening' = channels
  /\ fallback' = IF trans = "block" THEN fallback ELSE channels

(* add_receiver.  A LISTEN that fails makes the constructor throw.  In the   *)
(* multimap a receiver comes before those that it shares a channel with,     *)
(* because the hint is the first of them.                                    *)
AddReceiver ==
  /\ MayCall
  /\ InCallback => "add in callback" \in Liberties
  /\ trans = "block" => "add in block" \in Liberties
  /\ \E r \in Receiver :
       LET c == ChannelOf[r]
       IN /\ object[r] = "none"
          /\ object' = [object EXCEPT ![r] = "alive"]
          /\ receivers' = InsertAt(receivers, LowerBound(c), r)
          /\ IF NeedsListen(c)
               THEN trans # "failed block" /\ SetListening(listening \cup {c})
               ELSE UNCHANGED <<listening, fallback>>
  /\ UNCHANGED <<trans, channel, inbox, queue, loops, calls>>

(* Mutant: one receiver is gone, so the channel is. *)
IsLastAlways(r) == TRUE

(* Whether R.second == ++R.first. *)
IsLast(r) == \A q \in Registered \ {r} : ChannelOf[q] # ChannelOf[r]

(* Mutant: the receiver stays in the list until UNLISTEN is through. *)
EraseLater(r) == IF IsLast(r) THEN receivers ELSE RemoveAt(receivers, Index(r))

(* "Erase first; otherwise a notification for the same receiver may yet come *)
(* in and wreak havoc."                                                      *)
Erase(r) == RemoveAt(receivers, Index(r))

(* remove_receiver, called by the destructor.  UNLISTEN is executed by exec, *)
(* so notifications may be delivered; its failure is only reported.          *)
RemoveReceiver ==
  /\ MayLoop
  /\ InCallback => "remove in callback" \in Liberties
  /\ \E r \in Registered :
       /\ object[r] = "alive"
       /\ object' = [object EXCEPT ![r] = "gone"]
       /\ receivers' = Erase(r)
       /\ IF IsLast(r) /\ trans # "failed block"
            THEN SetListening(listening \ {ChannelOf[r]}) /\ GetNotifs("no")
            ELSE UNCHANGED <<listening, fallback, inbox, queue, loops>>
  /\ UNCHANGED <<trans, channel, calls>>

-----------------------------------------------------------------------------
(* Transactions, and the other sessions of the database. *)

(* A transaction object is made: a block at the server, or a nontransaction. *)
(* Receivers are free to do so too.                                          *)
BeginTransaction ==
  /\ MayCall /\ trans = "none"
  /\ trans' \in {"block", "plain"}
  /\ fallback' = listening
  /\ UNCHANGED <<receivers, object, listening, channel, inbox, queue, loops, calls>>

(* A statement fails, which a block does not survive. *)
Fail ==
  /\ MayCall /\ trans = "block"
  /\ trans' = "failed block"
  /\ UNCHANGED <<receivers, object, listening, fallback, channel, inbox, queue,
                 loops, calls>>

(* The transaction is committed or aborted. *)
EndTransaction ==
  /\ MayCall /\ trans # "none"
  /\ trans' = "none"
  /\ \E commits \in BOOLEAN :
       listening' = IF trans = "failed block" \/ (trans = "block" /\ ~commits)
                      THEN fallback ELSE listening
  /\ fallback' = listening'
  /\ UNCHANGED <<receivers, object, channel, inbox, queue, loops, calls>>

(* External: a notification is sent on a channel that the session listens on.*)
Notify ==
  /\ Len(channel) < MaxNotifs
  /\ \E c \in fallback \cap listening :
       channel' = Append(channel, c) /\ inbox' = Append(inbox, Len(channel) + 1)
  /\ UNCHANGED <<receivers, object, trans, listening, fallback, queue, loops, calls>>

-----------------------------------------------------------------------------
NotifyInit ==
  /\ receivers = << >> /\ object = [r \in Receiver |-> "none"]
  /\ trans = "none" /\ listening = {} /\ fallback = {}
  /\ channel = << >> /\ inbox = << >> /\ queue = << >> /\ loops = << >>
  /\ calls = [n \in 1 .. MaxNotifs |-> [r \in Receiver |-> 0]]

(* What the library and the code of receivers do. *)
Progress == Take \/ CallReceiver \/ ReturnFromCallback \/ LoopEnd \/ Woken

NotifyNext ==
  \/ Progress \/ Exec \/ Await \/ AddReceiver \/ RemoveReceiver
  \/ BeginTransaction \/ Fail \/ EndTransaction \/ Notify

(* A receiver ends its transaction, and returns. *)
NotifyFairness ==
  /\ WF_notifyVars(Progress) /\ SF_notifyVars(ReturnFromCallback)
  /\ WF_notifyVars(InCallback /\ EndTransaction)

NotifySpec == NotifyInit /\ [][NotifyNext]_notifyVars /\ NotifyFairness

-----------------------------------------------------------------------------
(* Every variable has its type. *)
NotifyTypeOK ==
  /\ receivers \in Seq(Receiver) /\ IsInjective(receivers)
  /\ object \in [Receiver -> {"none", "alive", "gone"}]
  /\ Registered = {r \in Receiver : object[r] = "alive"}
  /\ trans \in {"none", "block", "plain", "failed block"}
  /\ listening \subseteq Channels /\ fallback \subseteq Channels
  /\ channel \in Seq(Channels) /\ Len(channel) <= MaxNotifs
  /\ inbox \in Seq(Notifs) /\ queue \in Seq(Notifs)
  /\ loops \in Seq(Loop) /\ Len(loops) <= MaxDepth + 1
  /\ calls \in [1 .. MaxNotifs -> [Receiver -> 0 .. 2]]

(* "An incoming notification is processed by invoking all receivers (zero or *)
(* more) of the same name": a receiver's code runs for its own channel only. *)
OnlyItsChannel ==
  \A i \in DOMAIN loops :
    loops[i].inside => ChannelOf[loops[i].at] = channel[loops[i].n]

(* All of them: when the loop over the receivers of a notification is done,  *)
(* those which are still there were called, whatever the others threw.       *)
AllAreCalled ==
  \A i \in DOMAIN loops :
    LET l == loops[i]
    IN l.at = l.stop /\ ~l.inside => \A r \in l.due \cap Registered : calls[l.n][r] = 1

(* And once, though loops nest. *)
NoneIsCalledTwice == \A n \in Notifs : \A r \in Receiver : calls[n][r] <= 1

(* Each receiver of a notification is called for it, and once.               *)
ReceiversAreCalled == AllAreCalled /\ NoneIsCalledTwice

(* No loop has an iterator to a receiver that was destroyed. *)
LoopsAreValid ==
  \A i \in DOMAIN loops :
    \A j \in {loops[i].at, loops[i].stop} : j = Stop \/ object[j] = "alive"

(* Outside of transactions the session listens on every channel that has a   *)
(* receiver.                                                                 *)
ListensForReceivers ==
  trans = "none" => \A r \in Registered : ChannelOf[r] \in listening

(* get_notifs returns, if the receivers do; only await_notification may      *)
(* wait, and only for a notification.                                        *)
IsWaiting == Len(loops) = 1 /\ Top.await = "forever" /\ inbox = << >>

LoopsReturn == InCallback ~> ~InCallback \/ IsWaiting

=============================================================================
