--------------------------- MODULE CourseworkProofs ---------------------------
(* Proofs about the whole program, for every set of addresses and passwords, *)
(* every stored list and any number of crashes and restarts.                 *)
EXTENDS Coursework, SequenceTheorems, TLAPS

(* What is proved of the dialog, said of the dialog in the program. *)
D == INSTANCE SettingsDialogProofs WITH servers <- edited

(***************************************************************************)
(* The inductive invariant.  The dialog's own is needed because the list   *)
(* it returns is stored: that it is a list of servers rests on its buttons.*)
(***************************************************************************)

(* The dialog is open exactly while the window waits for it, unless the      *)
(* process died.                                                             *)
DialogIsModal ==
  /\ pc = "dialog" => status = "open"
  /\ status = "open" => pc \in {"dialog", "crashed"}

(* main() lets nothing but the end follow. *)
QuittingEnds == quitting => pc \in {"terminate", "join", "exited", "crashed"}

(* What QSettings holds back, it holds back only while no event loop runs. *)
DiskIsStore == quitting \/ pc \in {"idle", "dialog", "exited"} => disk = store

(* The window has the stored list, wherever its loops are. *)
ListIsStored == status \in {"saved", "unchanged"} => servers = LoadServers(store)

CourseworkInv ==
  /\ D!DialogInv /\ D!NothingLoaded /\ disk \in Store
  /\ DialogIsModal /\ QuittingEnds /\ DiskIsStore /\ ListIsStored

-----------------------------------------------------------------------------
(* The dialog of the program is that of SettingsDialogProofs.  Its           *)
(* definitions are there under both names.                                   *)
LEMMA SameDialog ==
  /\ Dialog!Init => D!Init
  /\ Dialog!Open => D!Next
  /\ Dialog!Type \/ Dialog!ClickClear \/ Dialog!ClickRow \/ Dialog!MoveCurrent => D!Next
  /\ Dialog!ClickAdd \/ Dialog!ClickEdit \/ Dialog!ClickRemove \/ Dialog!ClickSave => D!Next
  /\ Dialog!Close <=> D!Close
  /\ Dialog!Reject <=> D!Reject
<1> USE DEF Dialog!SetForm, D!SetForm, Dialog!CheckFormFill, D!CheckFormFill,
           Dialog!Filled, D!Filled, Dialog!Form, D!Form, Dialog!BlankForm,
           D!BlankForm, Dialog!listVars, D!listVars, Dialog!history, D!history,
           Dialog!formVars, D!formVars, Dialog!ClearInputFields, D!ClearInputFields,
           Dialog!GetServerFromString, D!GetServerFromString, Dialog!CurrentText,
           D!CurrentText, Dialog!ListStrings, D!ListStrings,
           Dialog!ConstructServerListString, D!ConstructServerListString,
           Dialog!NoText, D!NoText, Dialog!SelectInSeq, D!SelectInSeq, Dialog!Min,
           D!Min, Dialog!RemoveAt, D!RemoveAt, Dialog!RowsAfterRemove,
           D!RowsAfterRemove, Dialog!CurrentAfterRemove, D!CurrentAfterRemove,
           Dialog!InitialList, D!InitialList, Dialog!ListEq, D!ListEq,
           Dialog!ServerEq, D!ServerEq, Dialog!SaveServerList, D!SaveServerList,
           Dialog!Button, D!Button
<1>1. Dialog!Init => D!Init
  BY DEF Dialog!Init, D!Init, Dialog!EmptyStore, D!EmptyStore
<1>2. Dialog!Open => D!Open
  BY DEF Dialog!Open, D!Open
<1>3. Dialog!Type => D!Type
  BY DEF Dialog!Type, D!Type
<1>4. Dialog!ClickClear => D!ClickClear
  BY DEF Dialog!ClickClear, D!ClickClear
<1>5. Dialog!ClickRow => D!ClickRow
  BY DEF Dialog!ClickRow, D!ClickRow
<1>6. Dialog!MoveCurrent => D!MoveCurrent
  BY DEF Dialog!MoveCurrent, D!MoveCurrent
<1>7. Dialog!ClickAdd => D!ClickAdd
  BY DEF Dialog!ClickAdd, D!ClickAdd
<1>8. Dialog!ClickEdit => D!ClickEdit
  BY DEF Dialog!ClickEdit, D!ClickEdit
<1>9. Dialog!ClickRemove => D!ClickRemove
  BY DEF Dialog!ClickRemove, D!ClickRemove
<1>10. Dialog!ClickSave => D!ClickSave
  BY DEF Dialog!ClickSave, D!ClickSave
<1>11. Dialog!Close <=> D!Close
  BY DEF Dialog!Close, D!Close
<1>12. Dialog!Reject <=> D!Reject
  BY DEF Dialog!Reject, D!Reject
<1> QED
  BY <1>1, <1>2, <1>3, <1>4, <1>5, <1>6, <1>7, <1>8, <1>9, <1>10, <1>11, <1>12
     DEF D!Next

(* The same list, the same store. *)
LEMMA SameStore ==
  /\ D!Store = Store /\ D!Server = Server
  /\ \A st : D!LoadServers(st) = LoadServers(st)
  /\ \A st, list : D!SaveServerList(st, list) = SaveServerList(st, list)
  BY DEF D!Store, Store, D!Server, Server, D!LoadServers, LoadServers,
         D!SaveServerList, SaveServerList

(* A step of the dialog, or one that leaves it alone, keeps its invariant. *)
LEMMA DialogKeeps ==
  ASSUME D!DialogInv, D!NothingLoaded, D!Next \/ UNCHANGED dialogVars
  PROVE  D!DialogInv' /\ D!NothingLoaded'
<1>1. [D!Next]_(D!vars)
  BY DEF dialogVars, D!vars, D!listVars, D!formVars, D!history
<1> QED
  BY <1>1, D!DialogNext, D!NothingLoadedNext, StoreAssumption, CourseworkAssumption
     DEF D!Server, Server, D!NoText, NoText

(* While the dialog is open its handlers store nothing. *)
LEMMA EditingStoresNothing ==
  ASSUME EditSettings
  PROVE  store' = store /\ status' = status /\ status = "open"
  BY DEF EditSettings, Dialog!Type, Dialog!ClickClear, Dialog!ClickRow,
         Dialog!MoveCurrent, Dialog!ClickAdd, Dialog!ClickEdit, Dialog!ClickRemove,
         Dialog!ClickSave

(* What the dialog is dismissed with.  An unchanged list is empty, so that   *)
(* the window loads the stored one.                                          *)
LEMMA DismissedList ==
  ASSUME D!DialogInv, D!NothingLoaded, Dialog!Close
  PROVE  /\ store' \in Store
         /\ status' \in {"saved", "unchanged", "declined"}
         /\ status' \in {"saved", "unchanged"} =>
              GetServers(edited, store') = LoadServers(store')
<1>1. D!Close
  BY SameDialog
<1>2. store \in Store /\ edited \in Seq(Server)
  BY SameStore DEF D!DialogInv, D!TypeOK
<1>3. LoadServers(SaveServerList(store, edited)) = edited
  BY <1>2, D!LoadAfterSave, SameStore, StoreAssumption, CourseworkAssumption
     DEF D!Server, Server, D!NoText, NoText
<1>4. SaveServerList(store, edited) \in Store
  BY <1>2, D!SavedStoreIsStore, SameStore, StoreAssumption, CourseworkAssumption
     DEF D!Server, Server, D!NoText, NoText
<1>5. CASE status' = "unchanged"
  <2>1. edited = << >>
    BY <1>1, <1>5, D!CloseUnchanged, StoreAssumption, CourseworkAssumption
       DEF D!Server, Server, D!NoText, NoText, D!DialogInv, D!NothingLoaded
  <2>2. store' = store
    BY <1>5 DEF Dialog!Close
  <2> QED
    BY <1>2, <1>5, <2>1, <2>2 DEF GetServers
<1>6. CASE status' = "saved"
  <2>1. store' = SaveServerList(store, edited)
    BY <1>1, <1>6, SameStore DEF D!Close
  <2> QED
    BY <1>3, <1>4, <1>6, <2>1 DEF GetServers
<1>7. CASE status' = "declined"
  BY <1>2, <1>7 DEF Dialog!Close
<1> QED
  BY <1>5, <1>6, <1>7 DEF Dialog!Close

(* The steps of the window's own threads. *)
LEMMA WorkKeeps ==
  ASSUME Work
  PROVE  /\ servers' = servers /\ UNCHANGED <<dialogVars, disk>>
         /\ pc' \in {"dialog", "idle"} => pc' = pc
         /\ pc \in {"dialog", "crashed"} => pc' \in {"dialog", "crashed"}
         /\ pc' = "exited" => quitting \/ pc = "exited"
         /\ quitting' => quitting \/ (pc = "idle" /\ pc' = "terminate")
         /\ quitting /\ pc \in {"terminate", "join", "exited", "crashed"} =>
              pc' \in {"terminate", "join", "exited", "crashed"}
<1>1. UNCHANGED <<dialogVars, disk>>
  BY DEF Work
<1>2. ASSUME Window!Launch PROVE UNCHANGED <<servers, pc, quitting>>
  BY <1>2 DEF Window!Launch
<1>3. ASSUME Window!SpawnCloser \/ Window!JoinCloser
      PROVE  /\ UNCHANGED <<servers, quitting>>
             /\ \/ pc = "terminate" /\ pc' = "join"
                \/ pc = "join" /\ pc' = "terminate"
  BY <1>3 DEF Window!SpawnCloser, Window!JoinCloser
<1>4. ASSUME Window!ClearConnections
      PROVE  /\ UNCHANGED <<servers, quitting>> /\ pc = "terminate"
             /\ pc' = IF quitting THEN "exited" ELSE "setup"
  BY <1>4 DEF Window!ClearConnections
<1>5. ASSUME Window!Quit
      PROVE  UNCHANGED servers /\ pc = "idle" /\ pc' = "terminate"
  BY <1>5 DEF Window!Quit
<1>6. ASSUME NEW t \in DOMAIN tasks, Window!Connect(t)
      PROVE  UNCHANGED <<servers, pc, quitting>>
  BY <1>6 DEF Window!Connect
<1>7. ASSUME NEW t \in DOMAIN tasks, Window!Terminate(t)
      PROVE  /\ UNCHANGED <<servers, quitting>>
             /\ pc' = pc \/ pc' = "crashed"
  BY <1>7 DEF Window!Terminate, Window!CheckReady, Window!Await, Window!GetFirst,
              Window!GetAgain
<1>8. \/ UNCHANGED <<servers, pc, quitting>>
      \/ UNCHANGED <<servers, quitting>> /\ pc = "terminate" /\ pc' = "join"
      \/ UNCHANGED <<servers, quitting>> /\ pc = "join" /\ pc' = "terminate"
      \/ UNCHANGED <<servers, quitting>> /\ pc = "terminate" /\ quitting /\ pc' = "exited"
      \/ UNCHANGED <<servers, quitting>> /\ pc = "terminate" /\ ~quitting /\ pc' = "setup"
      \/ UNCHANGED servers /\ pc = "idle" /\ pc' = "terminate"
      \/ UNCHANGED <<servers, quitting>> /\ pc' = "crashed"
  <2>1. \/ Window!Launch \/ Window!SpawnCloser \/ Window!JoinCloser
        \/ Window!ClearConnections \/ Window!Quit
        \/ \E t \in DOMAIN tasks : Window!Connect(t) \/ Window!Terminate(t)
    BY DEF Work
  <2> QED
    BY <2>1, <1>2, <1>3, <1>4, <1>5, <1>6, <1>7
<1> QED
  BY <1>1, <1>8

-----------------------------------------------------------------------------
LEMMA CourseworkInit == Init => CourseworkInv
<1> SUFFICES ASSUME Init PROVE CourseworkInv
  OBVIOUS
<1>1. D!Init
  BY SameDialog DEF Init
<1>2. D!DialogInv
  BY <1>1, D!DialogInit, StoreAssumption, CourseworkAssumption
     DEF D!Server, Server, D!NoText, NoText
<1>3. D!NothingLoaded /\ status = "unchanged"
  BY <1>1 DEF D!Init, D!NothingLoaded
<1>4. store \in Store
  BY <1>2, SameStore DEF D!DialogInv, D!TypeOK
<1>5. /\ disk = store /\ servers = LoadServers(store) /\ ~quitting
      /\ pc \in {"idle", "setup"}
  BY DEF Init, Window!WindowInit
<1> QED
  BY <1>2, <1>3, <1>4, <1>5
     DEF CourseworkInv, DialogIsModal, QuittingEnds, DiskIsStore, ListIsStored

LEMMA CourseworkNext == CourseworkInv /\ [Next]_vars => CourseworkInv'
<1> SUFFICES ASSUME CourseworkInv, [Next]_vars
             PROVE  CourseworkInv'
  OBVIOUS
<1> USE DEF DialogIsModal, QuittingEnds, DiskIsStore, ListIsStored
<1>1. store \in Store
  BY SameStore DEF CourseworkInv, D!DialogInv, D!TypeOK
<1>2. CASE OpenSettings
  <2>1. D!DialogInv' /\ D!NothingLoaded'
    BY <1>2, SameDialog, DialogKeeps DEF CourseworkInv, OpenSettings
  <2>2. /\ pc = "idle" /\ pc' = "dialog" /\ status' = "open"
        /\ UNCHANGED <<store, quitting, servers, disk>>
    BY <1>2 DEF OpenSettings, Window!OpenSettings, Dialog!Open
  <2> QED
    BY <2>1, <2>2 DEF CourseworkInv
<1>3. CASE EditSettings
  <2>1. D!DialogInv' /\ D!NothingLoaded'
    BY <1>3, SameDialog, DialogKeeps DEF CourseworkInv, EditSettings
  <2>2. UNCHANGED <<pc, quitting, servers, disk>>
    BY <1>3 DEF EditSettings, winVars
  <2> QED
    BY <1>3, <2>1, <2>2, EditingStoresNothing DEF CourseworkInv
<1>4. CASE CloseSettings
  <2>1. D!DialogInv' /\ D!NothingLoaded'
    BY <1>4, SameDialog, DialogKeeps DEF CourseworkInv, CloseSettings, D!Next
  <2>2. /\ pc = "dialog" /\ pc' = "terminate" /\ quitting' = quitting
        /\ servers' = GetServers(edited, store')
        /\ disk' \in {disk, store'}
    BY <1>4 DEF CloseSettings, Window!DialogClosed
  <2>3. ~quitting
    BY <2>2 DEF CourseworkInv
  <2>4. CASE Dialog!Close
    BY <2>1, <2>2, <2>3, <2>4, DismissedList DEF CourseworkInv
  <2>5. CASE Dialog!Reject
    <3>1. status' = "escaped" /\ store' = store
      BY <2>5 DEF Dialog!Reject
    <3> QED
      BY <1>1, <2>1, <2>2, <2>3, <3>1 DEF CourseworkInv
  <2> QED
    BY <1>4, <2>4, <2>5 DEF CloseSettings
<1>5. CASE SetupDone
  <2>1. UNCHANGED dialogVars /\ disk' = store
    BY <1>5 DEF SetupDone, WrittenBack
  <2>2. D!DialogInv' /\ D!NothingLoaded' /\ UNCHANGED <<store, status>>
    BY <2>1, DialogKeeps DEF CourseworkInv, dialogVars
  <2>3. pc = "setup" /\ pc' = "idle" /\ UNCHANGED <<quitting, servers>>
    BY <1>5 DEF SetupDone, Window!SetupDone
  <2> QED
    BY <1>1, <2>1, <2>2, <2>3 DEF CourseworkInv
<1>6. CASE Work
  <2>1. D!DialogInv' /\ D!NothingLoaded'
    BY <1>6, WorkKeeps, DialogKeeps DEF CourseworkInv
  <2>2. UNCHANGED <<store, status, servers, disk>>
    BY <1>6, WorkKeeps DEF dialogVars
  <2>3. DialogIsModal'
    BY <1>6, <2>2, WorkKeeps DEF CourseworkInv
  <2>4. QuittingEnds'
    BY <1>6, WorkKeeps DEF CourseworkInv
  <2>5. DiskIsStore'
    BY <1>6, <2>2, WorkKeeps DEF CourseworkInv
  <2>6. ListIsStored'
    BY <2>2 DEF CourseworkInv
  <2> QED
    BY <2>1, <2>2, <2>3, <2>4, <2>5, <2>6 DEF CourseworkInv
<1>7. CASE Restart
  <2>1. /\ ~quitting' /\ pc' \in {"idle", "setup"} /\ status' = "unchanged"
        /\ store' = disk /\ servers' = LoadServers(disk) /\ disk' = disk
    BY <1>7 DEF Restart
  <2>2. D!DialogInv' /\ D!NothingLoaded'
    <3>1. UNCHANGED <<edited, initial, rows, current, form, mode, enabled, opened,
                      onlyAdded>>
      BY <1>7 DEF Restart
    <3>2. D!Store = Store /\ disk \in Store
      BY SameStore DEF CourseworkInv
    <3>3. D!TypeOK'
      BY <2>1, <3>1, <3>2 DEF CourseworkInv, D!DialogInv, D!TypeOK
    <3>4. D!RowsMatchServers'
      BY <3>1 DEF CourseworkInv, D!DialogInv, D!RowsMatchServers, D!Occurrences,
                  D!ListStrings
    <3> QED
      BY <2>1, <3>1, <3>3, <3>4
         DEF CourseworkInv, D!DialogInv, D!NothingLoaded, D!ButtonsMatchForm
  <2> QED
    BY <2>1, <2>2 DEF CourseworkInv
<1>8. CASE UNCHANGED vars
  <2>1. UNCHANGED <<dialogVars, store, status, pc, quitting, servers, disk>>
    BY <1>8 DEF vars, dialogVars, winVars
  <2>2. D!DialogInv' /\ D!NothingLoaded'
    BY <2>1, DialogKeeps DEF CourseworkInv
  <2> QED
    BY <2>1, <2>2 DEF CourseworkInv
<1> QED
  BY <1>2, <1>3, <1>4, <1>5, <1>6, <1>7, <1>8 DEF Next

LEMMA CourseworkAlways == Spec => []CourseworkInv
  BY CourseworkInit, CourseworkNext, PTL DEF Spec

(* Whatever was saved or lost by a crash before, an idle window serves the   *)
(* stored list, unless the user refused to save (MainWindow::openSettings,   *)
(* SettingsDialog::closeEvent, getServers).                                  *)
THEOREM WindowAlwaysServesStored == Spec => []WindowServesStored
<1>1. CourseworkInv => WindowServesStored
  BY DEF CourseworkInv, ListIsStored, WindowServesStored
<1> QED
  BY <1>1, CourseworkAlways, PTL

(* Nothing that was saved is only in memory while the user has the window,   *)
(* or after the program ended (QSettings, openSettings).                     *)
THEOREM AlwaysStoredWhenIdle == Spec => []StoredWhenIdle
<1>1. CourseworkInv => StoredWhenIdle
  BY DEF CourseworkInv, DiskIsStore, StoredWhenIdle
<1> QED
  BY <1>1, CourseworkAlways, PTL

=============================================================================
