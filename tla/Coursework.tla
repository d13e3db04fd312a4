------------------------------ MODULE Coursework ------------------------------
(***************************************************************************)
(* The whole program: the main window, the settings dialog it opens, and   *)
(* the settings both read, over several runs of the process.               *)
(*                                                                         *)
(* MainWindow::openSettings creates the dialog, runs it, takes its list,   *)
(* terminates and sets up the connections, and only then destroys the      *)
(* dialog and with it the QSettings that saveServerList wrote to.  Until   *)
(* then a QSettings may hold its values back (external): no event loop     *)
(* runs, and every QSettings of a process reads the same cached values.    *)
(***************************************************************************)
EXTENDS ServerStore

CONSTANTS MaxServers, SavedLists,   (* See SettingsDialog.                  *)
          MaxOpens                  (* See MainWindow.                      *)

ASSUME CourseworkAssumption ==
  /\ MaxServers \in Nat /\ MaxOpens \in Nat
  /\ SavedLists \subseteq Seq(Server)

VARIABLES
  (* The dialog's; edited is SettingsDialog::servers. *)
  store, status, edited, initial, rows, current, form, mode, enabled,
  opened, onlyAdded,
  (* The window's. *)
  pc, k, quitting, opens, servers, active, tasks, sessions,
  disk       (* QSettings "db/servers" as the next process will read it.    *)

Dialog == INSTANCE SettingsDialog WITH servers <- edited

Window == INSTANCE MainWindow WITH Lists <- Seq(Server)

dialogVars == <<store, status, edited, initial, rows, current, form, mode,
                enabled, opened, onlyAdded>>
winVars    == <<pc, k, quitting, opens, servers, active, tasks, sessions>>
vars       == <<dialogVars, winVars, disk>>

-----------------------------------------------------------------------------
(* SettingsDialog settings_win; settings_win.exec(); *)
OpenSettings ==
  /\ Window!OpenSettings /\ Dialog!Open
  /\ UNCHANGED disk

(* The dialog's event loop. *)
EditSettings ==
  /\ pc = "dialog"
  /\ \/ Dialog!Type \/ Dialog!ClickClear
     \/ Dialog!ClickRow \/ Dialog!MoveCurrent
     \/ Dialog!ClickAdd \/ Dialog!ClickEdit
     \/ Dialog!ClickRemove \/ Dialog!ClickSave
  /\ UNCHANGED <<winVars, disk>>

(* exec returns; servers = settings_win.getServers().  The values may be on  *)
(* disk already.                                                             *)
CloseSettings ==
  /\ Dialog!Close \/ Dialog!Reject
  /\ Window!DialogClosed(GetServers(edited, store'))
  /\ disk' \in {disk, store'}

(* Mutant: the dialog's QSettings is never destroyed, as that of loadServers *)
(* never is.                                                                 *)
KeptBack == disk

(* What is on disk once a QSettings is destroyed. *)
WrittenBack == store

(* The end of setupConnections.  In openSettings it is followed by the       *)
(* dialog's destructor.                                                      *)
SetupDone ==
  /\ Window!SetupDone
  /\ disk' = WrittenBack
  /\ UNCHANGED dialogVars

(* The threads of the program, and the user who quits. *)
Work ==
  /\ \/ Window!Launch \/ Window!SpawnCloser \/ Window!JoinCloser
     \/ Window!ClearConnections \/ Window!Quit
     \/ \E t \in DOMAIN tasks : Window!Connect(t) \/ Window!Terminate(t)
  /\ UNCHANGED <<dialogVars, disk>>

(* The program is started again. *)
Restart ==
  /\ ~Window!Alive
  /\ store' = disk /\ servers' = LoadServers(disk)
  /\ pc' = IF servers' = << >> THEN "idle" ELSE "setup"
  /\ k' = 1 /\ quitting' = FALSE
  /\ active' = << >> /\ tasks' = << >> /\ sessions' = {}
  /\ status' = "unchanged"
  /\ UNCHANGED <<opens, edited, initial, rows, current, form, mode, enabled,
                 opened, onlyAdded, disk>>

Init ==
  /\ Dialog!Init
  /\ Window!WindowInit(LoadServers(store))
  /\ disk = store

Next ==
  \/ OpenSettings \/ EditSettings \/ CloseSettings
  \/ SetupDone \/ Work
  \/ Restart

Spec == Init /\ [][Next]_vars

-----------------------------------------------------------------------------
(* Properties that hold. *)

(* Unless the user declined to save or pressed Escape, the window serves the *)
(* stored list, though the dialog's copy is never filled from the store.     *)
WindowServesStored ==
  pc = "idle" /\ status \in {"saved", "unchanged"}
    => servers = LoadServers(store)

(* While the window waits for its user, and after it ended, what was saved   *)
(* is on disk.                                                               *)
StoredWhenIdle == pc \in {"idle", "exited"} => disk = store

=============================================================================
