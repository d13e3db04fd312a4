--------------------------- MODULE MainWindowProofs ---------------------------
(* Proofs about the main window, for every set of servers and lists. *)
EXTENDS MainWindow, TLAPS

(* A listed attempt is an attempt. *)
LEMMA ListedIsTask ==
  ASSUME TypeOK
  PROVE  /\ \A i \in DOMAIN active : active[i] \in DOMAIN tasks
         /\ \A i \in DOMAIN active : active[i] \in ToSet(active)
         /\ \A t \in ToSet(active) : \E i \in DOMAIN active : t = active[i]
         /\ DOMAIN active = 1 .. Len(active) /\ Len(active) \in Nat
         /\ DOMAIN tasks = 1 .. Len(tasks) /\ Len(tasks) \in Nat
  BY DEF TypeOK, ToSet

(* A task stays one when a thread moves on. *)
LEMMA TaskFields ==
  ASSUME NEW r \in Task, NEW w \in Worker, NEW c \in Closer, NEW f \in Future
  PROVE  /\ [r EXCEPT !.worker = w] \in Task
         /\ [r EXCEPT !.closer = c] \in Task
         /\ [r EXCEPT !.future = f, !.closer = c] \in Task
  BY DEF Task

(* The fields a thread does not change are those of before. *)
LEMMA OtherFields ==
  ASSUME NEW r \in Task
  PROVE  /\ \A w : /\ [r EXCEPT !.worker = w].worker = w
                   /\ [r EXCEPT !.worker = w].closer = r.closer
                   /\ [r EXCEPT !.worker = w].future = r.future
                   /\ [r EXCEPT !.worker = w].server = r.server
         /\ \A c : /\ [r EXCEPT !.closer = c].closer = c
                   /\ [r EXCEPT !.closer = c].future = r.future
                   /\ [r EXCEPT !.closer = c].server = r.server
                   /\ [r EXCEPT !.closer = c].worker = r.worker
         /\ \A c, f :
              /\ [r EXCEPT !.future = f, !.closer = c].future = f
              /\ [r EXCEPT !.future = f, !.closer = c].closer = c
              /\ [r EXCEPT !.future = f, !.closer = c].server = r.server
              /\ [r EXCEPT !.future = f, !.closer = c].worker = r.worker
  BY DEF Task

(* Changing one task leaves the list of tasks a list of as many tasks. *)
LEMMA TaskUpdate ==
  ASSUME TypeOK, NEW t \in DOMAIN tasks, NEW new \in Task,
         tasks' = [tasks EXCEPT ![t] = new]
  PROVE  tasks' \in Seq(Task) /\ DOMAIN tasks' = DOMAIN tasks
  BY DEF TypeOK

-----------------------------------------------------------------------------
(* Type correctness. *)

LEMMA TypeInit == Init => TypeOK
<1> SUFFICES ASSUME NEW list \in Lists, WindowInit(list)
             PROVE  TypeOK
  BY DEF Init
<1>1. /\ tasks = << >> /\ tasks \in Seq(Task)
      /\ active = << >> /\ active \in Seq(DOMAIN tasks)
      /\ sessions \in SUBSET DOMAIN tasks
  BY DEF WindowInit
<1>2. opens \in 0 .. MaxOpens
  BY WindowAssumption DEF WindowInit
<1>3. pc \in {"setup", "idle"}
  BY DEF WindowInit
<1>4. k \in Nat \ {0} /\ servers \in Lists
  BY DEF WindowInit
<1>5. quitting \in BOOLEAN
  BY DEF WindowInit
<1> QED
  BY <1>1, <1>2, <1>3, <1>4, <1>5 DEF TypeOK

LEMMA TypeNext == TypeOK /\ [Next]_winVars => TypeOK'
<1> SUFFICES ASSUME TypeOK, [Next]_winVars
             PROVE  TypeOK'
  OBVIOUS
<1> USE WindowAssumption
<1>1. CASE Launch
  <2>1. k \in DOMAIN servers /\ servers \in Seq(Server)
    BY <1>1 DEF Launch, SetupOver, TypeOK
  <2>2. NewTask(servers[k]) \in Task
    BY <2>1 DEF NewTask, Task, Worker, Future, Closer
  <2>3. tasks' \in Seq(Task) /\ Len(tasks') = Len(tasks) + 1
    BY <1>1, <2>2 DEF Launch, TypeOK
  <2>4. DOMAIN tasks \subseteq DOMAIN tasks' /\ Len(tasks) + 1 \in DOMAIN tasks'
    BY <2>3 DEF TypeOK
  <2>5. active' \in Seq(DOMAIN tasks')
    BY <1>1, <2>4 DEF Launch, TypeOK
  <2> QED
    BY <1>1, <2>3, <2>4, <2>5 DEF Launch, TypeOK
<1>2. CASE SetupDone
  BY <1>2 DEF SetupDone, TypeOK
<1>3. CASE SpawnCloser
  <2>1. active[k] \in DOMAIN tasks
    BY <1>3, ListedIsTask DEF SpawnCloser
  <2>2. [tasks[active[k]] EXCEPT !.closer = "check"] \in Task
    <3>1. tasks[active[k]] \in Task /\ "check" \in Closer
      BY <2>1 DEF TypeOK, Closer
    <3>2. Worker # {} /\ Future # {}
      BY DEF Worker, Future
    <3> QED
      BY <3>1, <3>2, TaskFields
  <2>3. tasks' = [tasks EXCEPT ![active[k]] =
                    [tasks[active[k]] EXCEPT !.closer = "check"]]
    BY <1>3, <2>1 DEF SpawnCloser, TypeOK
  <2>4. tasks' \in Seq(Task) /\ DOMAIN tasks' = DOMAIN tasks
    BY <2>1, <2>2, <2>3, TaskUpdate
  <2> QED
    BY <1>3, <2>4 DEF SpawnCloser, TypeOK
<1>4. CASE JoinCloser
  BY <1>4 DEF JoinCloser, TypeOK
<1>5. CASE ClearConnections
  BY <1>5 DEF ClearConnections, ActiveCleared, TypeOK
<1>6. ASSUME NEW t \in DOMAIN tasks, Connect(t)
      PROVE  TypeOK'
  <2>1. \A w \in Worker : [tasks[t] EXCEPT !.worker = w] \in Task
    <3>1. tasks[t] \in Task
      BY DEF TypeOK
    <3>2. "none" \in Closer /\ "valid" \in Future
      BY DEF Closer, Future
    <3> QED
      BY <3>1, <3>2, TaskFields
  <2>2. \E w \in Worker : tasks' = [tasks EXCEPT ![t] =
                                      [tasks[t] EXCEPT !.worker = w]]
    BY <1>6 DEF Connect, TypeOK, Worker
  <2>3. tasks' \in Seq(Task) /\ DOMAIN tasks' = DOMAIN tasks
    BY <2>1, <2>2, TaskUpdate
  <2> QED
    BY <1>6, <2>3 DEF Connect, TypeOK
<1>7. ASSUME NEW t \in DOMAIN tasks, Terminate(t)
      PROVE  TypeOK'
  <2>1. tasks[t] \in Task /\ "running" \in Worker
    BY DEF TypeOK, Worker
  <2>2. \/ tasks' = tasks
        \/ \E c \in Closer :
             tasks' = [tasks EXCEPT ![t] = [tasks[t] EXCEPT !.closer = c]]
        \/ \E c \in Closer, f \in Future :
             tasks' = [tasks EXCEPT ![t] =
                         [tasks[t] EXCEPT !.future = f, !.closer = c]]
    BY <1>7 DEF Terminate, CheckReady, Await, GetFirst, GetAgain, TypeOK,
                Closer, Future
  <2>3. tasks' \in Seq(Task) /\ DOMAIN tasks' = DOMAIN tasks
    <3>1. CASE tasks' = tasks
      BY <3>1 DEF TypeOK
    <3>2. ASSUME NEW c \in Closer,
                 tasks' = [tasks EXCEPT ![t] = [tasks[t] EXCEPT !.closer = c]]
          PROVE  tasks' \in Seq(Task) /\ DOMAIN tasks' = DOMAIN tasks
      <4>1. [tasks[t] EXCEPT !.closer = c] \in Task
        BY <2>1, TaskFields DEF Future
      <4> QED
        BY <3>2, <4>1, TaskUpdate
    <3>3. ASSUME NEW c \in Closer, NEW f \in Future,
                 tasks' = [tasks EXCEPT ![t] =
                             [tasks[t] EXCEPT !.future = f, !.closer = c]]
          PROVE  tasks' \in Seq(Task) /\ DOMAIN tasks' = DOMAIN tasks
      <4>1. [tasks[t] EXCEPT !.future = f, !.closer = c] \in Task
        BY <2>1, TaskFields
      <4> QED
        BY <3>3, <4>1, TaskUpdate
    <3> QED
      BY <2>2, <3>1, <3>2, <3>3
  <2>4. /\ pc' \in {pc, "crashed"}
        /\ UNCHANGED <<k, quitting, opens, servers, active>>
        /\ sessions' \in {sessions, {}}
    BY <1>7 DEF Terminate, CheckReady, Await, GetFirst, GetAgain
  <2> QED
    BY <2>3, <2>4 DEF TypeOK
<1>8. CASE OpenSettings
  BY <1>8 DEF OpenSettings, TypeOK
<1>9. CASE Quit
  BY <1>9 DEF Quit, TypeOK
<1>10. ASSUME NEW list \in Lists, DialogClosed(list)
       PROVE  TypeOK'
  BY <1>10 DEF DialogClosed, TypeOK
<1>11. CASE UNCHANGED winVars
  BY <1>11 DEF winVars, TypeOK
<1> QED
  BY <1>1, <1>2, <1>3, <1>4, <1>5, <1>6, <1>7, <1>8, <1>9, <1>10, <1>11
     DEF Next, Running, Gui

(* Whatever the lists, the window's variables keep their types.              *)
THEOREM TypeCorrect == Spec => []TypeOK
  BY TypeInit, TypeNext, PTL DEF Spec

-----------------------------------------------------------------------------
(* The loops, their futures and their threads stay in step. *)

LEMMA LoopInit == Init => LoopsInStep
<1> SUFFICES ASSUME NEW list \in Lists, WindowInit(list)
             PROVE  LoopsInStep
  BY DEF Init
<1>1. list \in Seq(Server)
  BY WindowAssumption
<1>2. DOMAIN tasks = {} /\ DOMAIN active = {} /\ Len(active) = 0
  BY DEF WindowInit
<1>3. pc = "setup" => ServesUpTo(k - 1)
  BY <1>1, <1>2 DEF WindowInit, ServesUpTo
<1>4. pc = "idle" => ServesUpTo(Len(servers))
  BY <1>1, <1>2 DEF WindowInit, ServesUpTo
<1> QED
  BY <1>2, <1>3, <1>4 DEF WindowInit, LoopsInStep

(* The only terminating thread at work is the one the loop waits for. *)
LEMMA CloserAtWork ==
  ASSUME TypeOK, LoopsInStep, Alive, NEW t \in DOMAIN tasks,
         tasks[t].closer \notin {"none", "done"}
  PROVE  pc = "join" /\ k \in DOMAIN active /\ t = active[k]
<1>1. PICK i \in DOMAIN active : t = active[i]
  BY ListedIsTask DEF LoopsInStep
<1>2. pc \in {"terminate", "join"}
  BY <1>1 DEF LoopsInStep, Alive, TypeOK
<1>3. i \in Nat /\ k \in Nat
  BY <1>1 DEF TypeOK
<1> QED
  BY <1>1, <1>2, <1>3 DEF LoopsInStep, ClosersOfTermination

LEMMA LoopNext == TypeOK /\ LoopsInStep /\ [Next]_winVars => LoopsInStep'
<1> SUFFICES ASSUME TypeOK, LoopsInStep, [Next]_winVars
             PROVE  LoopsInStep'
  OBVIOUS
<1> TypeOK'
  BY TypeNext
<1>1. CASE Launch
  <2>1. /\ pc = "setup" /\ pc' = "setup" /\ k' = k + 1 /\ k <= Len(servers)
        /\ k \in Nat /\ Len(servers) \in Nat /\ servers' = servers
    BY <1>1, WindowAssumption DEF Launch, SetupOver, TypeOK
  <2>2. /\ Len(tasks') = Len(tasks) + 1
        /\ \A t \in DOMAIN tasks : tasks'[t] = tasks[t]
        /\ tasks'[Len(tasks) + 1] = NewTask(servers[k])
        /\ DOMAIN tasks' = DOMAIN tasks \cup {Len(tasks) + 1}
    BY <1>1 DEF Launch, TypeOK
  <2>3. /\ Len(active') = Len(active) + 1
        /\ \A i \in DOMAIN active : active'[i] = active[i]
        /\ active'[Len(active) + 1] = Len(tasks) + 1
        /\ DOMAIN active' = DOMAIN active \cup {Len(active) + 1}
    BY <1>1 DEF Launch, TypeOK
  <2>4. Len(active) = k - 1
    BY <2>1 DEF LoopsInStep, ServesUpTo
  <2>5. Len(tasks) + 1 \notin DOMAIN tasks
    BY ListedIsTask
  <2>6. ToSet(active') = ToSet(active) \cup {Len(tasks) + 1}
    BY <2>3 DEF ToSet
  <2>7. ASSUME NEW t \in DOMAIN tasks'
        PROVE  /\ tasks'[t].closer \in {"get", "getAgain", "done"} => Finished(t)'
               /\ tasks'[t].closer \in {"getAgain", "done"}
                    <=> tasks'[t].future = "invalid"
               /\ t \notin ToSet(active') => tasks'[t].closer = "done"
    BY <2>2, <2>6 DEF LoopsInStep, Finished, NewTask
  <2>8. \A i, j \in DOMAIN active' : active'[i] = active'[j] => i = j
    BY <2>3, <2>5, ListedIsTask DEF LoopsInStep
  <2>9. ServesUpTo(k - 1)'
    <3>1. Len(active') = k' - 1 /\ k' - 1 <= Len(servers')
      BY <2>1, <2>3, <2>4
    <3>2. \A i \in DOMAIN active : tasks'[active'[i]].server = servers[i]
      BY <2>1, <2>2, <2>3, ListedIsTask DEF LoopsInStep, ServesUpTo
    <3>3. tasks'[active'[k]].server = servers[k]
      BY <2>1, <2>2, <2>3, <2>4 DEF NewTask
    <3> QED
      BY <2>1, <2>3, <2>4, <3>1, <3>2, <3>3 DEF ServesUpTo
  <2>10. \A i \in DOMAIN active' : tasks'[active'[i]].closer = "none"
    BY <2>1, <2>2, <2>3, ListedIsTask DEF LoopsInStep, NewTask
  <2> QED
    BY <2>1, <2>7, <2>8, <2>9, <2>10 DEF LoopsInStep
<1>2. CASE SetupDone
  BY <1>2 DEF SetupDone, SetupOver, TypeOK, LoopsInStep, ServesUpTo, Finished
<1>3. CASE SpawnCloser
  BY <1>3, ListedIsTask DEF SpawnCloser, TypeOK, LoopsInStep, ClosersOfTermination, Finished, ToSet, Task
<1>4. CASE JoinCloser
  BY <1>4, ListedIsTask DEF JoinCloser, CloserJoined, TypeOK, LoopsInStep, ClosersOfTermination, Finished
<1>5. CASE ClearConnections
  BY <1>5, ListedIsTask DEF ClearConnections, ActiveCleared, TypeOK, LoopsInStep, ClosersOfTermination, ServesUpTo, Finished
<1>6. ASSUME NEW t \in DOMAIN tasks, Connect(t)
      PROVE  LoopsInStep'
  <2>1. /\ DOMAIN tasks' = DOMAIN tasks
        /\ \A u \in DOMAIN tasks : /\ tasks'[u].closer = tasks[u].closer
                                   /\ tasks'[u].future = tasks[u].future
                                   /\ tasks'[u].server = tasks[u].server
                                   /\ Finished(u) => Finished(u)'
    <3>1. tasks[t] \in Task
      BY DEF TypeOK
    <3>2. PICK w \in Worker \ {"running"} :
            tasks' = [tasks EXCEPT ![t] = [tasks[t] EXCEPT !.worker = w]]
      BY <1>6 DEF Connect, TypeOK, Worker
    <3>3. /\ DOMAIN tasks' = DOMAIN tasks
          /\ tasks'[t] = [tasks[t] EXCEPT !.worker = w]
          /\ \A u \in DOMAIN tasks \ {t} : tasks'[u] = tasks[u]
      BY <3>2 DEF TypeOK
    <3> QED
      BY <3>1, <3>2, <3>3, OtherFields DEF Finished
  <2>2. UNCHANGED <<pc, k, servers, active>>
    BY <1>6 DEF Connect
  <2> QED
    BY <2>1, <2>2, ListedIsTask
       DEF LoopsInStep, ClosersOfTermination, ServesUpTo
<1>7. ASSUME NEW t \in DOMAIN tasks, Terminate(t)
      PROVE  LoopsInStep'
  <2>1. /\ Alive /\ tasks[t].closer \in {"check", "wait", "get", "getAgain"}
        /\ UNCHANGED <<k, servers, active>>
    BY <1>7 DEF Terminate, CheckReady, Await, GetFirst, GetAgain
  <2>2. pc = "join" /\ k \in DOMAIN active /\ t = active[k]
    BY <2>1, CloserAtWork
  <2> DEFINE Moved(task) ==
               /\ task.closer # "none"
               /\ task.closer \in {"get", "getAgain", "done"}
                    => task.worker # "running"
               /\ task.closer \in {"getAgain", "done"}
                    <=> task.future = "invalid"
  <2>3. \E task : Moved(task) /\ tasks' = [tasks EXCEPT ![t] = task]
    <3>1. /\ tasks[t] \in Task
          /\ tasks[t].closer \in {"getAgain", "done"}
               <=> tasks[t].future = "invalid"
          /\ tasks[t].closer \in {"get", "getAgain", "done"} => Finished(t)
      BY DEF TypeOK, LoopsInStep
    <3>2. CASE CheckReady(t)
      <4>1. PICK c \in {"get", "wait"} :
              /\ c = "get" => Finished(t)
              /\ tasks' = [tasks EXCEPT ![t] = [tasks[t] EXCEPT !.closer = c]]
        BY <3>2 DEF CheckReady, TypeOK
      <4>2. tasks[t].future # "invalid"
        BY <3>1, <3>2 DEF CheckReady
      <4>3. Moved([tasks[t] EXCEPT !.closer = c])
        BY <3>1, <4>1, <4>2, OtherFields DEF Finished
      <4> QED
        BY <4>1, <4>3
    <3>3. CASE Await(t)
      <4>1. /\ Finished(t) /\ tasks[t].closer = "wait"
            /\ tasks' = [tasks EXCEPT ![t] = [tasks[t] EXCEPT !.closer = "get"]]
        BY <3>3 DEF Await, WaitOver, TypeOK
      <4>2. Moved([tasks[t] EXCEPT !.closer = "get"])
        BY <3>1, <4>1, OtherFields DEF Finished
      <4> QED
        BY <4>1, <4>2
    <3>4. CASE GetFirst(t)
      <4>1. PICK c \in {"getAgain", "done"} :
              tasks' = [tasks EXCEPT ![t] =
                          [tasks[t] EXCEPT !.future = "invalid", !.closer = c]]
        BY <3>4 DEF GetFirst, TypeOK
      <4>2. Moved([tasks[t] EXCEPT !.future = "invalid", !.closer = c])
        BY <3>1, <3>4, OtherFields DEF Finished, GetFirst
      <4> QED
        BY <4>1, <4>2
    <3>5. CASE GetAgain(t)
      <4>1. tasks[t].closer = "getAgain"
        BY <3>5 DEF GetAgain
      <4>2. CASE tasks' = [tasks EXCEPT ![t].closer = "done"]
        <5>1. tasks' = [tasks EXCEPT ![t] = [tasks[t] EXCEPT !.closer = "done"]]
          BY <4>2 DEF TypeOK
        <5>2. Moved([tasks[t] EXCEPT !.closer = "done"])
          BY <3>1, <4>1, OtherFields DEF Finished
        <5> QED
          BY <5>1, <5>2
      <4>3. CASE tasks' = tasks
        <5>1. tasks' = [tasks EXCEPT ![t] = tasks[t]]
          BY <4>3 DEF TypeOK
        <5> QED
          BY <3>1, <4>1, <5>1 DEF Finished
      <4> QED
        BY <3>5, <4>2, <4>3 DEF GetAgain
    <3> QED
      BY <1>7, <3>2, <3>3, <3>4, <3>5 DEF Terminate
  <2>4. /\ DOMAIN tasks' = DOMAIN tasks
        /\ \A u \in DOMAIN tasks \ {t} : tasks'[u] = tasks[u]
        /\ tasks'[t].closer # "none"
        /\ tasks'[t].closer \in {"get", "getAgain", "done"} => Finished(t)'
        /\ tasks'[t].closer \in {"getAgain", "done"}
             <=> tasks'[t].future = "invalid"
    BY <2>3 DEF TypeOK, Finished
  <2>5. pc' \in {"join", "crashed"}
    BY <1>7, <2>2 DEF Terminate, CheckReady, Await, GetFirst, GetAgain
  <2>6. ASSUME NEW u \in DOMAIN tasks'
        PROVE  /\ tasks'[u].closer \in {"get", "getAgain", "done"} => Finished(u)'
               /\ tasks'[u].closer \in {"getAgain", "done"}
                    <=> tasks'[u].future = "invalid"
               /\ u \notin ToSet(active') => tasks'[u].closer = "done"
    <3>1. CASE u = t
      <4>1. t \in ToSet(active')
        BY <2>1, <2>2, ListedIsTask
      <4> QED
        BY <2>4, <3>1, <4>1 DEF Finished
    <3>2. CASE u # t
      <4>1. ToSet(active') = ToSet(active) /\ tasks'[u] = tasks[u] /\ u \in DOMAIN tasks
        BY <2>1, <2>4, <3>2 DEF Finished
      <4> QED
        BY <4>1 DEF LoopsInStep, Finished
    <3> QED
      BY <3>1, <3>2
  <2>7. ClosersOfTermination'
    <3> SUFFICES ASSUME NEW i \in DOMAIN active
                 PROVE  /\ i < k => tasks'[active[i]].closer = "done"
                        /\ i > k => tasks'[active[i]].closer = "none"
                        /\ i = k => tasks'[active[i]].closer # "none"
      BY <2>1, <2>5 DEF ClosersOfTermination
    <3>1. i \in Nat /\ k \in Nat
      BY ListedIsTask DEF TypeOK
    <3>2. CASE i = k
      BY <2>2, <2>4, <3>1, <3>2 DEF Finished
    <3>3. CASE i # k
      <4>1. active[i] # t /\ active[i] \in DOMAIN tasks
        BY <2>2, <3>3, ListedIsTask DEF LoopsInStep
      <4> QED
        BY <2>2, <2>4, <3>1, <3>3, <4>1
           DEF LoopsInStep, ClosersOfTermination, Finished
    <3> QED
      BY <3>2, <3>3
  <2> QED
    BY <2>1, <2>2, <2>5, <2>6, <2>7 DEF LoopsInStep
<1>8. CASE OpenSettings
  BY <1>8 DEF OpenSettings, LoopsInStep, ServesUpTo, Finished
<1>9. CASE Quit
  BY <1>9, ListedIsTask DEF Quit, LoopsInStep, ServesUpTo, ClosersOfTermination, Finished, TypeOK
<1>10. ASSUME NEW list \in Lists, DialogClosed(list)
       PROVE  LoopsInStep'
  BY <1>10, ListedIsTask DEF DialogClosed, LoopsInStep, ServesUpTo, ClosersOfTermination, Finished, TypeOK
<1>11. CASE UNCHANGED winVars
  BY <1>11 DEF winVars, LoopsInStep, ServesUpTo, ClosersOfTermination, Finished
<1> QED
  BY <1>1, <1>2, <1>3, <1>4, <1>5, <1>6, <1>7, <1>8, <1>9, <1>10, <1>11
     DEF Next, Running, Gui

(* How far each loop has come, for every list: the invariant the theorems     *)
(* below rest on.                                                            *)
THEOREM LoopsStayInStep == Spec => []WindowInv
<1>1. Init => TypeOK /\ LoopsInStep
  BY TypeInit, LoopInit
<1>2. TypeOK /\ LoopsInStep /\ [Next]_winVars => TypeOK' /\ LoopsInStep'
  BY TypeNext, LoopNext
<1> QED
  BY <1>1, <1>2, PTL DEF Spec, WindowInv

(* No connecting and no terminating thread, however the program is left,     *)
(* outlives the node of active_connections it works on.                      *)
THEOREM ThreadsAlwaysListed == Spec => []ThreadsAreListed
<1>1. TypeOK /\ LoopsInStep => ThreadsAreListed
  <2> SUFFICES ASSUME TypeOK, LoopsInStep, NEW t \in DOMAIN tasks,
                      ~Finished(t) \/ tasks[t].closer \notin {"none", "done"}
               PROVE  t \in ToSet(active)
    BY DEF ThreadsAreListed
  <2>1. tasks[t].closer # "done"
    BY DEF LoopsInStep
  <2> QED
    BY <2>1 DEF LoopsInStep
<1> QED
  BY <1>1, LoopsStayInStep, PTL DEF WindowInv

(* Whenever the window serves its user, it has tried each server of its list *)
(* once, in order, and holds those attempts alone.                           *)
THEOREM IdleAlwaysServesList == Spec => []IdleServesList
<1>1. TypeOK /\ LoopsInStep => IdleServesList
  <2> SUFFICES ASSUME TypeOK, LoopsInStep, pc \in {"idle", "dialog"}
               PROVE  /\ [i \in DOMAIN active |-> tasks[active[i]].server] = servers
                      /\ \A i \in DOMAIN active :
                           tasks[active[i]].future = "valid"
    BY DEF IdleServesList
  <2>1. servers \in Seq(Server)
    BY WindowAssumption DEF TypeOK
  <2>2. DOMAIN servers = DOMAIN active
    BY <2>1, ListedIsTask DEF LoopsInStep, ServesUpTo
  <2>3. \A i \in DOMAIN active : tasks[active[i]].server = servers[i]
    BY DEF LoopsInStep, ServesUpTo
  <2>4. ASSUME NEW i \in DOMAIN active
        PROVE  tasks[active[i]].future = "valid"
    <3>1. tasks[active[i]] \in Task /\ active[i] \in DOMAIN tasks
      BY ListedIsTask DEF TypeOK
    <3>2. tasks[active[i]].future # "invalid"
      BY <3>1 DEF LoopsInStep
    <3> QED
      BY <3>1, <3>2 DEF Task, Future
  <2> QED
    BY <2>1, <2>2, <2>3, <2>4
<1> QED
  BY <1>1, LoopsStayInStep, PTL DEF WindowInv

-----------------------------------------------------------------------------
(* The window implements the rounds of ConnectionRounds. *)

LEMMA RoundShape ==
  ASSUME TypeOK
  PROVE  /\ DOMAIN RoundOf = DOMAIN active
         /\ RoundOf \in Seq(Rounds!Attempt) /\ Len(RoundOf) = Len(active)
         /\ \A i \in DOMAIN active :
              RoundOf[i] = [server |-> tasks[active[i]].server,
                            state |-> AttemptState(tasks[active[i]])]
<1>1. DOMAIN active = 1 .. Len(active) /\ Len(active) \in Nat
  BY ListedIsTask
<1>2. ASSUME NEW i \in DOMAIN active
      PROVE  RoundOf[i] \in Rounds!Attempt
  <2>1. tasks[active[i]] \in Task
    BY ListedIsTask DEF TypeOK
  <2>2. AttemptState(tasks[active[i]]) \in {"pending", "up", "down", "dropped"}
    BY <2>1 DEF AttemptState, Task, Future, Worker
  <2>3. tasks[active[i]].server \in Server
    BY <2>1 DEF Task
  <2> QED
    BY <2>2, <2>3 DEF RoundOf, Rounds!Attempt
<1> QED
  BY <1>1, <1>2 DEF RoundOf

(* The four states of an attempt. *)
LEMMA AttemptStates ==
  ASSUME NEW task \in Task
  PROVE  /\ task.future = "invalid" <=> AttemptState(task) = "dropped"
         /\ task.future = "valid" =>
              /\ task.worker = "running" => AttemptState(task) = "pending"
              /\ task.worker = "connected" => AttemptState(task) = "up"
              /\ task.worker = "failed" => AttemptState(task) = "down"
  BY DEF AttemptState, Task, Future, Worker

(* A step that changes neither the list nor the state of an attempt leaves   *)
(* the round as it is.                                                       *)
LEMMA RoundUnchanged ==
  ASSUME active' = active,
         \A i \in DOMAIN active :
           /\ tasks'[active[i]].server = tasks[active[i]].server
           /\ AttemptState(tasks'[active[i]]) = AttemptState(tasks[active[i]])
  PROVE  RoundOf' = RoundOf
  BY DEF RoundOf

LEMMA RoundsStart == Init => Rounds!RoundsInit
<1> SUFFICES ASSUME NEW list \in Lists, WindowInit(list)
             PROVE  Rounds!RoundsInit
  BY DEF Init
<1>1. DOMAIN active = {} /\ active = << >>
  BY DEF WindowInit
<1>2. RoundOf = << >>
  BY <1>1 DEF RoundOf
<1> QED
  BY <1>2 DEF WindowInit, Rounds!RoundsInit, RoundPhase

LEMMA RoundsStep ==
  TypeOK /\ LoopsInStep /\ [Next]_winVars
    => [Rounds!RoundsNext]_<<RoundPhase, servers, RoundOf>>
<1> SUFFICES ASSUME TypeOK, LoopsInStep, [Next]_winVars
             PROVE  Rounds!RoundsNext \/ UNCHANGED <<RoundPhase, servers, RoundOf>>
  OBVIOUS
<1> TypeOK' /\ LoopsInStep'
  BY TypeNext, LoopNext
<1>1. CASE Launch
  <2>1. /\ pc = "setup" /\ pc' = "setup" /\ k = Len(active) + 1
        /\ Len(active) < Len(servers) /\ servers' = servers
    BY <1>1, WindowAssumption
       DEF Launch, SetupOver, TypeOK, LoopsInStep, ServesUpTo
  <2>2. /\ \A t \in DOMAIN tasks : tasks'[t] = tasks[t]
        /\ tasks'[Len(tasks) + 1] = NewTask(servers[k])
    BY <1>1 DEF Launch, TypeOK
  <2>3. /\ Len(active') = Len(active) + 1
        /\ \A i \in DOMAIN active : active'[i] = active[i]
        /\ active'[Len(active) + 1] = Len(tasks) + 1
        /\ DOMAIN active' = DOMAIN active \cup {Len(active) + 1}
    BY <1>1 DEF Launch, TypeOK
  <2> DEFINE new == [server |-> servers[Len(RoundOf) + 1], state |-> "pending"]
  <2>4. AttemptState(NewTask(servers[k])) = "pending"
    BY DEF AttemptState, NewTask
  <2>5. RoundOf' = Append(RoundOf, new)
    <3>1. \A i \in DOMAIN active : RoundOf'[i] = RoundOf[i]
      BY <2>2, <2>3, ListedIsTask DEF RoundOf
    <3>2. RoundOf'[Len(active) + 1] = new
      BY <2>1, <2>2, <2>3, <2>4, RoundShape DEF RoundOf, NewTask
    <3>3. new \in Rounds!Attempt
      BY <2>1, WindowAssumption, RoundShape DEF TypeOK, Rounds!Attempt
    <3>4. \A i \in DOMAIN active : RoundOf[i] \in Rounds!Attempt
      BY RoundShape
    <3>5. DOMAIN RoundOf' = 1 .. (Len(active) + 1) /\ RoundOf' = [i \in DOMAIN RoundOf' |-> RoundOf'[i]]
      BY <2>3, ListedIsTask DEF RoundOf
    <3>6. /\ RoundOf' \in Seq(Rounds!Attempt) /\ Len(RoundOf') = Len(active) + 1
          /\ DOMAIN RoundOf' = DOMAIN active'
      BY <2>3, <3>1, <3>2, <3>3, <3>4, <3>5, ListedIsTask, SMTT(30)
    <3> QED
      BY <2>3, <3>1, <3>2, <3>3, <3>6, RoundShape, ListedIsTask
  <2> QED
    BY <2>1, <2>5, RoundShape DEF Rounds!RoundsNext, Rounds!Launch, RoundPhase
<1>2. CASE SetupDone
  <2>1. Len(active) = Len(servers)
    BY <1>2, WindowAssumption, ListedIsTask
       DEF SetupDone, SetupOver, TypeOK, LoopsInStep, ServesUpTo
  <2>2. RoundOf' = RoundOf
    BY <1>2 DEF SetupDone, RoundOf
  <2> QED
    BY <1>2, <2>1, <2>2, RoundShape
       DEF SetupDone, Rounds!RoundsNext, Rounds!Serve, RoundPhase
<1>3. CASE SpawnCloser
  <2>1. ASSUME NEW i \in DOMAIN active
        PROVE  /\ tasks'[active[i]].server = tasks[active[i]].server
               /\ AttemptState(tasks'[active[i]]) = AttemptState(tasks[active[i]])
    <3>1. tasks[active[i]] \in Task /\ active[i] \in DOMAIN tasks
      BY ListedIsTask DEF TypeOK
    <3>2. tasks'[active[i]] \in {tasks[active[i]],
                                 [tasks[active[i]] EXCEPT !.closer = "check"]}
      BY <1>3, <3>1 DEF SpawnCloser, TypeOK
    <3>3. /\ tasks'[active[i]].server = tasks[active[i]].server
          /\ tasks'[active[i]].future = tasks[active[i]].future
          /\ tasks'[active[i]].worker = tasks[active[i]].worker
      <4> DEFINE task == tasks[active[i]]
      <4>1. /\ [task EXCEPT !.closer = "check"].server = task.server
            /\ [task EXCEPT !.closer = "check"].future = task.future
            /\ [task EXCEPT !.closer = "check"].worker = task.worker
        BY <3>1, OtherFields
      <4> QED
        BY <3>2, <4>1
    <3> QED
      BY <3>3 DEF AttemptState
  <2>2. RoundOf' = RoundOf
    BY <1>3, <2>1, RoundUnchanged DEF SpawnCloser
  <2> QED
    BY <1>3, <2>2 DEF SpawnCloser, RoundPhase
<1>4. CASE JoinCloser
  BY <1>4 DEF JoinCloser, RoundPhase, RoundOf
<1>5. CASE ClearConnections
  <2>1. \A i \in DOMAIN RoundOf : RoundOf[i].state = "dropped"
    <3> SUFFICES ASSUME NEW i \in DOMAIN active
                 PROVE  tasks[active[i]].future = "invalid"
      BY RoundShape DEF AttemptState
    <3>1. i < k /\ active[i] \in DOMAIN tasks
      BY <1>5, ListedIsTask DEF ClearConnections, ActiveCleared, TypeOK
    <3> QED
      BY <1>5, <3>1 DEF ClearConnections, ActiveCleared, LoopsInStep, ClosersOfTermination
  <2>2. DOMAIN active' = {} /\ active' = << >>
    BY <1>5 DEF ClearConnections, ActiveCleared
  <2>3. RoundOf' = << >>
    BY <2>2 DEF RoundOf
  <2> QED
    BY <1>5, <2>1, <2>3
       DEF ClearConnections, ActiveCleared, Rounds!RoundsNext, Rounds!StopDropping,
           Rounds!AllDropped, RoundPhase
<1>6. ASSUME NEW t \in DOMAIN tasks, Connect(t)
      PROVE  Rounds!RoundsNext
  <2>1. /\ Alive /\ tasks[t].worker = "running" /\ tasks[t] \in Task
        /\ UNCHANGED <<pc, servers, active>>
    BY <1>6 DEF Connect, Finished, TypeOK
  <2>2. PICK w \in {"connected", "failed"} :
          tasks' = [tasks EXCEPT ![t] = [tasks[t] EXCEPT !.worker = w]]
    BY <1>6 DEF Connect, TypeOK
  <2>3. PICK i \in DOMAIN active : t = active[i]
    BY <2>1, ListedIsTask DEF LoopsInStep, Finished
  <2>4. tasks[t].future = "valid"
    BY <2>1 DEF LoopsInStep, Finished, Task, Future
  <2> DEFINE end == IF w = "connected" THEN "up" ELSE "down"
  <2>5. /\ tasks'[t].server = tasks[t].server
        /\ AttemptState(tasks'[t]) = end
    <3>1. /\ tasks'[t] = [tasks[t] EXCEPT !.worker = w]
          /\ tasks'[t] \in Task
      BY <2>2 DEF TypeOK
    <3>2. /\ tasks'[t].worker = w /\ tasks'[t].future = "valid"
          /\ tasks'[t].server = tasks[t].server
      BY <2>1, <2>4, <3>1, OtherFields
    <3> QED
      BY <3>1, <3>2, AttemptStates
  <2>6. \A j \in DOMAIN active \ {i} : tasks'[active[j]] = tasks[active[j]]
    BY <2>2, <2>3, ListedIsTask DEF LoopsInStep, TypeOK
  <2>7. RoundOf' = [RoundOf EXCEPT ![i].state = end]
    BY <2>1, <2>3, <2>5, <2>6, RoundShape DEF RoundOf
  <2>8. RoundOf[i].state = "pending"
    BY <2>1, <2>3, <2>4, AttemptStates, RoundShape
  <2>9. RoundPhase \in {"launching", "serving", "dropping"} /\ RoundPhase' = RoundPhase
    BY <2>1 DEF RoundPhase, Alive, TypeOK
  <2>10. end \in {"up", "down"} /\ i \in DOMAIN RoundOf
    BY RoundShape
  <2> QED
    BY <2>1, <2>7, <2>8, <2>9, <2>10 DEF Rounds!RoundsNext, Rounds!Resolve
<1>7. ASSUME NEW t \in DOMAIN tasks, Terminate(t)
      PROVE  Rounds!RoundsNext \/ UNCHANGED <<RoundPhase, servers, RoundOf>>
  <2>1. /\ tasks[t].closer \in {"check", "wait", "get", "getAgain"} /\ Alive
        /\ UNCHANGED <<servers, active>>
    BY <1>7 DEF Terminate, CheckReady, Await, GetFirst, GetAgain
  <2>2. pc = "join" /\ k \in DOMAIN active /\ t = active[k]
    BY <2>1, CloserAtWork
  <2>3. tasks[t] \in Task
    BY DEF TypeOK
  <2>4. ASSUME NEW c,
               tasks' \in {tasks, [tasks EXCEPT ![t] = [tasks[t] EXCEPT !.closer = c]]}
        PROVE  RoundOf' = RoundOf
    <3> SUFFICES ASSUME NEW i \in DOMAIN active
                 PROVE  /\ tasks'[active[i]].server = tasks[active[i]].server
                        /\ AttemptState(tasks'[active[i]]) =
                           AttemptState(tasks[active[i]])
      BY <2>1, RoundUnchanged
    <3>1. /\ tasks'[active[i]].server = tasks[active[i]].server
          /\ tasks'[active[i]].future = tasks[active[i]].future
          /\ tasks'[active[i]].worker = tasks[active[i]].worker
      <4>1. /\ [tasks[t] EXCEPT !.closer = c].server = tasks[t].server
            /\ [tasks[t] EXCEPT !.closer = c].future = tasks[t].future
            /\ [tasks[t] EXCEPT !.closer = c].worker = tasks[t].worker
        BY <2>3, OtherFields
      <4>2. \/ tasks'[active[i]] = tasks[active[i]]
            \/ /\ active[i] = t
               /\ tasks'[active[i]] = [tasks[t] EXCEPT !.closer = c]
        BY <2>4, ListedIsTask DEF TypeOK
      <4> QED
        BY <4>1, <4>2
    <3> QED
      BY <3>1 DEF AttemptState
  <2>5. CASE CheckReady(t) \/ Await(t)
    <3>1. pc' = pc
      BY <2>5 DEF CheckReady, Await
    <3>2. \E c : tasks' \in {tasks, [tasks EXCEPT ![t] =
                                      [tasks[t] EXCEPT !.closer = c]]}
      BY <2>5 DEF CheckReady, Await, TypeOK
    <3>3. RoundOf' = RoundOf
      BY <2>4, <3>2
    <3> QED
      BY <2>1, <3>1, <3>3 DEF RoundPhase
  <2>6. CASE GetFirst(t)
    <3>1. Finished(t) /\ tasks[t].closer = "get" /\ pc' = pc
      BY <2>6 DEF GetFirst
    <3>2. PICK c : tasks' = [tasks EXCEPT ![t] =
                      [tasks[t] EXCEPT !.future = "invalid", !.closer = c]]
      BY <2>6 DEF GetFirst, TypeOK
    <3>3. /\ tasks'[t].server = tasks[t].server
          /\ AttemptState(tasks'[t]) = "dropped"
      <4>1. /\ tasks'[t].future = "invalid" /\ tasks'[t] \in Task
            /\ tasks'[t].server = tasks[t].server
        <5> DEFINE new == [tasks[t] EXCEPT !.future = "invalid", !.closer = c]
        <5>1. new.future = "invalid" /\ new.server = tasks[t].server
          BY <2>3, OtherFields
        <5>2. tasks'[t] = new /\ t \in DOMAIN tasks'
          BY <3>2 DEF TypeOK
        <5>3. tasks'[t] \in Task
          BY <5>2 DEF TypeOK
        <5> HIDE DEF new
        <5> QED
          BY <5>1, <5>2, <5>3
      <4> QED
        BY <4>1, AttemptStates
    <3>4. \A j \in DOMAIN active \ {k} : tasks'[active[j]] = tasks[active[j]]
      BY <2>2, <3>2, ListedIsTask DEF LoopsInStep, TypeOK
    <3>5. RoundOf' = [RoundOf EXCEPT ![k].state = "dropped"]
      BY <2>1, <2>2, <3>3, <3>4, RoundShape DEF RoundOf
    <3>6. RoundOf[k].state \in {"up", "down"}
      <4>1. tasks[t].future = "valid"
        BY <2>3, <3>1 DEF LoopsInStep, Task, Future
      <4>2. tasks[t].worker \in {"connected", "failed"}
        BY <2>3, <3>1 DEF Finished, Task, Worker
      <4> QED
        BY <2>2, <2>3, <4>1, <4>2, AttemptStates, RoundShape
    <3> QED
      BY <2>1, <2>2, <3>1, <3>5, <3>6, RoundShape
         DEF Rounds!RoundsNext, Rounds!Drop, RoundPhase
  <2>7. CASE GetAgain(t)
    <3>1. \E c : tasks' \in {tasks, [tasks EXCEPT ![t] =
                                      [tasks[t] EXCEPT !.closer = c]]}
      BY <2>7 DEF GetAgain, TypeOK
    <3>2. RoundOf' = RoundOf
      BY <2>4, <3>1
    <3>3. pc' \in {pc, "crashed"}
      BY <2>7 DEF GetAgain
    <3> QED
      BY <2>1, <2>2, <3>2, <3>3
         DEF Rounds!RoundsNext, Rounds!Crash, RoundPhase
  <2> QED
    BY <1>7, <2>5, <2>6, <2>7 DEF Terminate
<1>8. CASE OpenSettings
  BY <1>8 DEF OpenSettings, RoundPhase, RoundOf
<1>9. CASE Quit
  <2>1. RoundOf' = RoundOf
    BY <1>9 DEF Quit, RoundOf
  <2> QED
    BY <1>9, <2>1
       DEF Quit, Rounds!RoundsNext, Rounds!StartDropping, RoundPhase, TypeOK
<1>10. ASSUME NEW list \in Lists, DialogClosed(list)
       PROVE  Rounds!RoundsNext
  <2>1. RoundOf' = RoundOf
    BY <1>10 DEF DialogClosed, RoundOf
  <2> QED
    BY <1>10, <2>1
       DEF DialogClosed, Rounds!RoundsNext, Rounds!StartDropping, RoundPhase
<1>11. CASE UNCHANGED winVars
  BY <1>11 DEF winVars, RoundPhase, RoundOf
<1> QED
  BY <1>1, <1>2, <1>3, <1>4, <1>5, <1>6, <1>7, <1>8, <1>9, <1>10, <1>11
     DEF Next, Running, Gui

(* The window implements the rounds: every attempt of a list is dropped, and *)
(* none before it has ended, before the first one of the next list.          *)
THEOREM WindowImplementsRounds == Spec => ImplementsRounds
  BY RoundsStart, RoundsStep, LoopsStayInStep, PTL
     DEF Spec, WindowInv, ImplementsRounds, Rounds!RoundsSpec, Rounds!roundVars

=============================================================================
