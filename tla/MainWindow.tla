------------------------------ MODULE MainWindow ------------------------------
(***************************************************************************)
(* The main window, MainWindow.hxx, from its constructor to the end of     *)
(* main(): one thread runs the GUI, one thread per server connects, and    *)
(* one thread per connection, each joined before the next, terminates.     *)
(*                                                                         *)
(* A step is what a thread does between two points where another one can   *)
(* see it.  std::async's future is external: its destructor waits for the  *)
(* thread, get() takes the result out and leaves the future invalid, and   *)
(* get() on an invalid future is undefined.                                *)
(***************************************************************************)
EXTENDS Naturals, Sequences, FiniteSets, SequencesExt

CONSTANTS
  Server,    (* The servers a user may list.                               *)
  Lists,     (* The lists the settings may hold or the dialog return.      *)
  MaxOpens   (* Bound: how often the settings are opened.                  *)

ASSUME WindowAssumption ==
  /\ Lists \subseteq Seq(Server)
  /\ MaxOpens \in Nat

VARIABLES
  pc,        (* Where the GUI thread is.                                   *)
  k,         (* Its loop index, in setup and in termination.               *)
  quitting,  (* The event loop has ended.                                  *)
  opens,     (* How often the settings were opened.                        *)
  servers,   (* MainWindow::servers.                                       *)
  active,    (* active_connections: the tasks whose futures are listed.    *)
  tasks,     (* Every connection attempt ever launched.                    *)
  sessions   (* The database servers' side: the tasks whose session lives. *)

winVars == <<pc, k, quitting, opens, servers, active, tasks, sessions>>

-----------------------------------------------------------------------------
(* A task is one std::async of tryConnectingToServer: the worker's state,    *)
(* the future's state, and the terminateConnection thread that has a pointer *)
(* to the future.                                                            *)

Worker == {"running", "connected", "failed"}
Future == {"valid", "invalid"}
Closer == {"none", "check", "wait", "get", "getAgain", "done"}

Task == [server : Server, worker : Worker, future : Future, closer : Closer]

NewTask(srv) ==
  [server |-> srv, worker |-> "running", future |-> "valid", closer |-> "none"]

(* checkIfAsyncTaskFinished. *)
Finished(t) == tasks[t].worker # "running"

Alive == pc \notin {"exited", "crashed"}

-----------------------------------------------------------------------------
(* The GUI thread. *)

(* Mutant: the loop stops one server early. *)
SetupOverEarly == k >= Len(servers)

SetupOver == k > Len(servers)

(* setupConnections: one async per server. *)
Launch ==
  /\ pc = "setup" /\ ~SetupOver
  /\ tasks' = Append(tasks, NewTask(servers[k]))
  /\ active' = Append(active, Len(tasks) + 1)
  /\ k' = k + 1
  /\ UNCHANGED <<pc, quitting, opens, servers, sessions>>

SetupDone ==
  /\ pc = "setup" /\ SetupOver
  /\ pc' = "idle"
  /\ UNCHANGED <<k, quitting, opens, servers, active, tasks, sessions>>

(* openSettings, up to the dialog's own event loop. *)
OpenSettings ==
  /\ pc = "idle" /\ opens < MaxOpens
  /\ pc' = "dialog" /\ opens' = opens + 1
  /\ UNCHANGED <<k, quitting, servers, active, tasks, sessions>>

(* openSettings, from the dialog's return to the loop of                     *)
(* terminateConnections: list is what the dialog's getServers returns.       *)
DialogClosed(list) ==
  /\ pc = "dialog"
  /\ pc' = "terminate" /\ k' = 1
  /\ servers' = list
  /\ UNCHANGED <<quitting, opens, active, tasks, sessions>>

(* The quit action or the last window: exec returns, and main calls          *)
(* terminateConnections.                                                     *)
Quit ==
  /\ pc = "idle"
  /\ pc' = "terminate" /\ k' = 1 /\ quitting' = TRUE
  /\ UNCHANGED <<opens, servers, active, tasks, sessions>>

(* auto tmp = std::async(terminateConnection, &connection). *)
SpawnCloser ==
  /\ pc = "terminate" /\ k \in DOMAIN active
  /\ pc' = "join"
  /\ tasks' = [tasks EXCEPT ![active[k]].closer = "check"]
  /\ UNCHANGED <<k, quitting, opens, servers, active, sessions>>

(* Mutant: tmp outlives the iteration, so that nothing waits for it. *)
CloserJoinedAtOnce == TRUE

CloserJoined == tasks[active[k]].closer = "done"

(* The end of the iteration: tmp's destructor waits for the thread, which    *)
(* makes the loop sequential.  An exception of the thread goes with tmp.     *)
JoinCloser ==
  /\ pc = "join" /\ CloserJoined
  /\ pc' = "terminate" /\ k' = k + 1
  /\ UNCHANGED <<quitting, opens, servers, active, tasks, sessions>>

(* Mutant: the list keeps its futures. *)
ActiveKept == active

ActiveCleared == << >>

(* active_connections.clear(): the destructor of a valid future waits for    *)
(* its thread.  Then setupConnections, or the end of the process, which      *)
(* closes its sockets.                                                       *)
ClearConnections ==
  /\ pc = "terminate" /\ k > Len(active)
  /\ \A i \in DOMAIN active :
       tasks[active[i]].future = "valid" => Finished(active[i])
  /\ active' = ActiveCleared /\ k' = 1
  /\ pc' = IF quitting THEN "exited" ELSE "setup"
  /\ sessions' = IF quitting THEN {} ELSE sessions
  /\ UNCHANGED <<quitting, opens, servers, tasks>>

-----------------------------------------------------------------------------
(* The connecting threads: tryConnectingToServer. *)

(* new pqxx::connection returns or throws; connect_timeout bounds it. *)
Connect(t) ==
  /\ Alive /\ ~Finished(t)
  /\ \/ /\ tasks' = [tasks EXCEPT ![t].worker = "connected"]
        /\ sessions' = sessions \cup {t}
     \/ /\ tasks' = [tasks EXCEPT ![t].worker = "failed"]
        /\ UNCHANGED sessions
  /\ UNCHANGED <<pc, k, quitting, opens, servers, active>>

-----------------------------------------------------------------------------
(* The terminating threads: terminateConnection. *)

CheckReady(t) ==
  /\ Alive /\ tasks[t].closer = "check"
  /\ tasks' = [tasks EXCEPT ![t].closer = IF Finished(t) THEN "get" ELSE "wait"]
  /\ UNCHANGED <<pc, k, quitting, opens, servers, active, sessions>>

(* Mutant: only a connection ends the wait. *)
WaitOverIfConnected(t) == tasks[t].worker = "connected"

WaitOver(t) == Finished(t)

Await(t) ==
  /\ Alive /\ tasks[t].closer = "wait" /\ WaitOver(t)
  /\ tasks' = [tasks EXCEPT ![t].closer = "get"]
  /\ UNCHANGED <<pc, k, quitting, opens, servers, active, sessions>>

(* if (connection->get() != nullptr): the pointer is compared and lost. *)
GetFirst(t) ==
  /\ Alive /\ tasks[t].closer = "get" /\ Finished(t)
  /\ tasks' = [tasks EXCEPT
                 ![t].future = "invalid",
                 ![t].closer = IF tasks[t].worker = "connected"
                                 THEN "getAgain" ELSE "done"]
  /\ UNCHANGED <<pc, k, quitting, opens, servers, active, sessions>>

(* connection->get()->close(): the future has no state any more.  libstdc++  *)
(* and MSVC throw future_error, which is stored in tmp and never looked at;  *)
(* libc++ follows a null pointer.  close() is not reached.                   *)
GetAgain(t) ==
  /\ Alive /\ tasks[t].closer = "getAgain"
  /\ \/ /\ tasks' = [tasks EXCEPT ![t].closer = "done"]
        /\ UNCHANGED <<pc, sessions>>
     \/ /\ pc' = "crashed" /\ sessions' = {}
        /\ UNCHANGED tasks
  /\ UNCHANGED <<k, quitting, opens, servers, active>>

-----------------------------------------------------------------------------
(* The constructor, up to the loop of setupConnections. *)
WindowInit(list) ==
  /\ servers = list
  /\ pc = IF list = << >> THEN "idle" ELSE "setup"
  /\ k = 1 /\ quitting = FALSE /\ opens = 0
  /\ active = << >> /\ tasks = << >> /\ sessions = {}

Init == \E list \in Lists : WindowInit(list)

(* What the program does without its user. *)
Gui == Launch \/ SetupDone \/ SpawnCloser \/ JoinCloser \/ ClearConnections

Terminate(t) == CheckReady(t) \/ Await(t) \/ GetFirst(t) \/ GetAgain(t)

Running ==
  \/ Gui
  \/ \E t \in DOMAIN tasks : Connect(t) \/ Terminate(t)

Next ==
  \/ Running
  \/ OpenSettings \/ Quit
  \/ \E list \in Lists : DialogClosed(list)

Spec == Init /\ [][Next]_winVars

(* Threads are scheduled, and connect_timeout ends every attempt.  The user  *)
(* need not do anything.                                                     *)
Fairness == WF_winVars(Running)

FairSpec == Spec /\ Fairness

-----------------------------------------------------------------------------
(* Properties that hold. *)

(* Every variable has its type. *)
TypeOK ==
  /\ pc \in {"setup", "idle", "dialog", "terminate", "join", "exited", "crashed"}
  /\ k \in Nat \ {0} /\ quitting \in BOOLEAN /\ opens \in 0 .. MaxOpens
  /\ servers \in Lists
  /\ tasks \in Seq(Task)
  /\ active \in Seq(DOMAIN tasks)
  /\ sessions \in SUBSET DOMAIN tasks

(* A terminating thread works on the address of a list node, a connecting    *)
(* thread for a future of the list: while either runs, the node is there.    *)
(* In particular no thread outlives main().                                  *)
ThreadsAreListed ==
  \A t \in DOMAIN tasks :
    ~Finished(t) \/ tasks[t].closer \notin {"none", "done"} => t \in ToSet(active)

(* When the user is served, each server of the list has one attempt of its   *)
(* own, none is left of an earlier list, and no future was taken.            *)
IdleServesList ==
  pc \in {"idle", "dialog"} =>
    /\ [i \in DOMAIN active |-> tasks[active[i]].server] = servers
    /\ \A i \in DOMAIN active : tasks[active[i]].future = "valid"

(* Why the two invariants above hold: how far each loop has come.  Setup     *)
(* has listed an attempt for each server before k; termination has joined    *)
(* the closers before k, has at most one at work, and has not begun with the *)
(* rest.  A task that left the list went through its closer to the end.      *)
ServesUpTo(n) ==
  /\ Len(active) = n /\ n <= Len(servers)
  /\ \A i \in DOMAIN active : tasks[active[i]].server = servers[i]

ClosersOfTermination ==
  \A i \in DOMAIN active :
    /\ i < k => tasks[active[i]].closer = "done"
    /\ i > k => tasks[active[i]].closer = "none"
    /\ i = k => (pc = "terminate" <=> tasks[active[i]].closer = "none")

LoopsInStep ==
  /\ \A t \in DOMAIN tasks :
       /\ tasks[t].closer \in {"get", "getAgain", "done"} => Finished(t)
       /\ tasks[t].closer \in {"getAgain", "done"} <=> tasks[t].future = "invalid"
       /\ t \notin ToSet(active) => tasks[t].closer = "done"
  /\ \A i, j \in DOMAIN active : active[i] = active[j] => i = j
  /\ pc = "setup" => ServesUpTo(k - 1)
  /\ pc \in {"idle", "dialog"} => ServesUpTo(Len(servers))
  /\ pc \in {"setup", "idle", "dialog"} =>
       \A i \in DOMAIN active : tasks[active[i]].closer = "none"
  /\ pc \in {"terminate", "join"} => ClosersOfTermination
  /\ pc = "join" => k \in DOMAIN active
  /\ pc = "exited" => active = << >>

WindowInv == TypeOK /\ LoopsInStep

(* The window waits for its threads, never for ever: after the dialog it     *)
(* comes back, and the program ends once it was told to.                     *)
WindowReturns ==
  /\ pc \notin {"idle", "dialog"} ~> pc \in {"idle", "exited", "crashed"}
  /\ quitting ~> pc \in {"exited", "crashed"}

(* The threads, futures and loops implement the rounds of ConnectionRounds.  *)
RoundPhase ==
  CASE pc = "setup"                -> "launching"
    [] pc \in {"idle", "dialog"}   -> "serving"
    [] pc \in {"terminate", "join"} -> "dropping"
    [] pc = "exited"               -> "over"
    [] pc = "crashed"              -> "crashed"

AttemptState(task) ==
  CASE task.future = "invalid"   -> "dropped"
    [] task.future = "valid" /\ task.worker = "running"   -> "pending"
    [] task.future = "valid" /\ task.worker = "connected" -> "up"
    [] task.future = "valid" /\ task.worker = "failed"    -> "down"

RoundOf ==
  [i \in DOMAIN active |-> [server |-> tasks[active[i]].server,
                            state  |-> AttemptState(tasks[active[i]])]]

Rounds == INSTANCE ConnectionRounds
            WITH phase <- RoundPhase, wanted <- servers, round <- RoundOf

ImplementsRounds == Rounds!RoundsSpec

-----------------------------------------------------------------------------
(* What the code says and does not do. *)

(* terminateConnection logs "closing connection" and calls close(): a        *)
(* database session the window opened belongs to a connection it still has.  *)
SessionsAreListed == sessions \subseteq ToSet(active)

=============================================================================
