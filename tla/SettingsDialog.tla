---------------------------- MODULE SettingsDialog ----------------------------
(***************************************************************************)
(* The settings dialog, settingsDialog.hxx: the form of line edits, the    *)
(* list view and its item model, the five buttons, and the close event     *)
(* that asks whether to save.                                              *)
(*                                                                         *)
(* The dialog runs on the GUI thread; an action is one event, handled to   *)
(* the end, the textChanged signals it raises included.  Two facts of Qt   *)
(* are external: the row that is current after a row is removed, and       *)
(* QDialog::reject, which hides the dialog without a close event.          *)
(***************************************************************************)
EXTENDS ServerStore, FiniteSets

CONSTANTS
  MaxServers,  (* Bound: how many servers a dialog may hold.               *)
  SavedLists   (* The lists an earlier run of the program may have saved.  *)

ASSUME DialogAssumption ==
  /\ MaxServers \in Nat
  /\ SavedLists \subseteq Seq(Server)

VARIABLES
  store,       (* QSettings "db/servers".                                  *)
  status,      (* "open", or how the last dialog was dismissed.            *)
  servers,     (* SettingsDialog::servers.                                 *)
  initial,     (* servers_initial_values.                                  *)
  rows,        (* itemModel: the text of each row.                         *)
  current,     (* servers_list->currentIndex().row() + 1; 0 is no row.     *)
  form,        (* The texts of the line edits.                             *)
  mode,        (* "add" or "edit": which of addServer_btn and              *)
               (* saveServer_btn is visible; they share a cell and every   *)
               (* handler flips both.                                      *)
  enabled,     (* Which buttons are enabled.                               *)
  opened,      (* History: the index in servers of the server the form was *)
               (* filled from; 0 when it was not, or that server is gone.  *)
  onlyAdded    (* History: this dialog removed and overwrote no server.    *)

listVars == <<servers, initial, rows, current>>
formVars == <<form, mode, enabled>>
history  == <<opened, onlyAdded>>
vars     == <<store, status, listVars, formVars, history>>

-----------------------------------------------------------------------------
(* The form. *)

Form == [addr : Addr \cup {NoText}, password : Password \cup {NoText}]

BlankForm == [addr |-> NoText, password |-> NoText]

(* Mutant: checkFormFill forgets a field. *)
FilledButPassword(f) == f.addr # NoText

Filled(f) == f.addr # NoText /\ f.password # NoText

Button == {"add", "save", "clear", "edit", "remove"}

(* Mutant: a form that is not filled any more disables nothing. *)
CheckFormFillOnlyEnables(f, buttons) ==
  [buttons EXCEPT !["add"]   = @ \/ Filled(f),
                  !["save"]  = @ \/ Filled(f),
                  !["clear"] = f # BlankForm]

(* checkFormFill: the slot of every textChanged signal. *)
CheckFormFill(f, buttons) ==
  [buttons EXCEPT !["add"]   = Filled(f),
                  !["save"]  = Filled(f),
                  !["clear"] = f # BlankForm]

(* Give the line edits the texts f.  A line edit raises textChanged only    *)
(* when its text changes; buttons is what the handler made of them before.  *)
SetForm(f, buttons) ==
  /\ form' = f
  /\ enabled' = IF f = form THEN buttons ELSE CheckFormFill(f, buttons)

ClearInputFields(buttons) == SetForm(BlankForm, buttons)

-----------------------------------------------------------------------------
(* The list. *)

ListStrings(list) ==
  [i \in DOMAIN list |-> ConstructServerListString(list[i])]

(* What a row may show. *)
ListText == {ListString[a] : a \in Addr}

(* itemModel->index(currentIndex().row(), 0).data(): empty with no row. *)
CurrentText == IF current = 0 THEN NoText ELSE rows[current]

(* getServerFromString and the search loop of removeServerFromList: the      *)
(* first server that prints as text; 0 is nullptr.                           *)
GetServerFromString(text) ==
  SelectInSeq(servers, LAMBDA srv : ConstructServerListString(srv) = text)

(* Mutant: the last row is missed by one. *)
RowsAfterRemoveOffByOne(i) ==
  IF current = 0 THEN rows
  ELSE RemoveAt(rows, IF current = Len(rows) THEN current - 1 ELSE current)

(* itemModel->removeRow(currentIndex().row()), whichever server i goes.      *)
(* removeRow ignores an index out of range.                                  *)
RowsAfterRemove(i) == IF current = 0 THEN rows ELSE RemoveAt(rows, current)

(* Qt: when the current row goes, the row below becomes current, or the row  *)
(* above if there is none below.                                             *)
CurrentAfterRemove == IF current = Len(rows) THEN current - 1 ELSE current

-----------------------------------------------------------------------------
(* The handlers. *)

(* Mutant: the constructor's TODO is done, and ServerEq stays as it is. *)
InitialListLoaded == LoadServers(store)

(* The list the constructor shows.  Nothing is loaded: "TODO getServers()".  *)
InitialList == << >>

(* The constructor. *)
Open ==
  /\ status # "open"
  /\ status' = "open"
  /\ servers' = InitialList /\ initial' = InitialList
  /\ rows' = ListStrings(InitialList) /\ current' = 0
  /\ form' = BlankForm /\ mode' = "add"
  /\ enabled' = [b \in Button |-> FALSE]
  /\ opened' = 0 /\ onlyAdded' = TRUE
  /\ UNCHANGED store

(* The user edits the texts; checkFormFill runs. *)
Type ==
  /\ status = "open"
  /\ \E f \in Form \ {form} : SetForm(f, enabled)
  /\ UNCHANGED <<store, status, listVars, mode, history>>

(* clearData_btn: clearInputFields. *)
ClickClear ==
  /\ status = "open"
  /\ enabled["clear"]
  /\ ClearInputFields(enabled)
  /\ UNCHANGED <<store, status, listVars, mode, history>>

(* servers_list clicked: Qt makes the row current, then                      *)
(* enableEditAndRemoveButtons.                                               *)
ClickRow ==
  /\ status = "open"
  /\ \E r \in DOMAIN rows : current' = r
  /\ ClearInputFields([enabled EXCEPT !["edit"] = TRUE, !["remove"] = TRUE])
  /\ mode' = "add"
  /\ opened' = 0
  /\ UNCHANGED <<store, status, servers, initial, rows, onlyAdded>>

(* The arrow keys, or the focus arriving, make a row current.  No slot of    *)
(* the dialog is connected to that: clicked is a mouse signal.               *)
MoveCurrent ==
  /\ status = "open"
  /\ \E r \in DOMAIN rows \ {current} : current' = r
  /\ UNCHANGED <<store, status, servers, initial, rows, formVars, history>>

(* addServer_btn: addServer. *)
ClickAdd ==
  /\ status = "open"
  /\ mode = "add" /\ enabled["add"]
  /\ Len(servers) < MaxServers
  /\ servers' = Append(servers, form)
  /\ rows' = Append(rows, ConstructServerListString(form))
  /\ ClearInputFields(enabled)
  /\ UNCHANGED <<store, status, initial, current, mode, history>>

(* editServer_btn: fillInputFields. *)
ClickEdit ==
  /\ status = "open"
  /\ enabled["edit"]
  /\ mode' = "edit"
  /\ LET i == GetServerFromString(CurrentText)
     IN /\ IF i = 0 THEN ClearInputFields(enabled)
                    ELSE SetForm(servers[i], enabled)
        /\ opened' = i
  /\ UNCHANGED <<store, status, listVars, onlyAdded>>

(* removeServer_btn: removeServerFromList.  QList::removeAt ignores an index *)
(* out of range.                                                             *)
ClickRemove ==
  /\ status = "open"
  /\ enabled["remove"]
  /\ LET i == GetServerFromString(CurrentText)
     IN /\ servers' = IF i = 0 THEN servers ELSE RemoveAt(servers, i)
        /\ onlyAdded' = (onlyAdded /\ i = 0)
        /\ opened' = CASE i = 0 \/ opened < i -> opened
                       [] opened = i          -> 0
                       [] opened > i          -> opened - 1
        /\ rows' = RowsAfterRemove(i)
  /\ current' = IF current = 0 THEN 0 ELSE CurrentAfterRemove
  /\ enabled' = [enabled EXCEPT !["edit"] = FALSE, !["remove"] = FALSE]
  /\ UNCHANGED <<store, status, initial, form, mode>>

(* saveServer_btn: saveServerEdit.  The server is looked up again, by the    *)
(* row that is current now; fillServerList rebuilds the rows, and a rebuilt  *)
(* model has no current row.                                                 *)
ClickSave ==
  /\ status = "open"
  /\ mode = "edit" /\ enabled["save"]
  /\ mode' = "add"
  /\ ClearInputFields([enabled EXCEPT !["add"] = FALSE, !["save"] = FALSE])
  /\ LET i == GetServerFromString(CurrentText)
     IN \/ /\ i = 0
           /\ UNCHANGED <<servers, rows, current, onlyAdded>>
        \/ /\ i # 0
           /\ servers' = [servers EXCEPT ![i] = form]
           /\ rows' = ListStrings(servers')
           /\ current' = 0
           /\ onlyAdded' = FALSE
  /\ opened' = 0
  /\ UNCHANGED <<store, status, initial>>

(* closeEvent: ask only if the list differs from servers_initial_values;     *)
(* yes runs saveServerList, and either answer closes the dialog.             *)
Close ==
  /\ status = "open"
  /\ \/ /\ ListEq(initial, servers)
        /\ status' = "unchanged"
        /\ UNCHANGED store
     \/ /\ ~ListEq(initial, servers)
        /\ status' = "saved"
        /\ store' = SaveServerList(store, servers)
     \/ /\ ~ListEq(initial, servers)
        /\ status' = "declined"
        /\ UNCHANGED store
  /\ UNCHANGED <<listVars, formVars, history>>

(* Escape: QDialog::reject hides the dialog; closeEvent does not run. *)
Reject ==
  /\ status = "open"
  /\ status' = "escaped"
  /\ UNCHANGED <<store, listVars, formVars, history>>

-----------------------------------------------------------------------------
Init ==
  /\ store \in {SaveServerList(EmptyStore, list) : list \in SavedLists}
  /\ status = "unchanged"
  /\ servers = << >> /\ initial = << >> /\ rows = << >> /\ current = 0
  /\ form = BlankForm /\ mode = "add"
  /\ enabled = [b \in Button |-> FALSE]
  /\ opened = 0 /\ onlyAdded = TRUE

Next ==
  \/ Open
  \/ Type \/ ClickClear
  \/ ClickRow \/ MoveCurrent
  \/ ClickAdd \/ ClickEdit \/ ClickRemove \/ ClickSave
  \/ Close \/ Reject

Spec == Init /\ [][Next]_vars

-----------------------------------------------------------------------------
(* Properties that hold. *)

(* Every variable has its type; the current row is a row of the model, and   *)
(* the server the form was filled from is a server of the list.              *)
TypeOK ==
  /\ store \in Store
  /\ status \in {"open", "unchanged", "saved", "declined", "escaped"}
  /\ servers \in Seq(Server) /\ initial \in Seq(Server)
  /\ rows \in Seq(ListText) /\ current \in 0 .. Len(rows)
  /\ form \in Form /\ mode \in {"add", "edit"}
  /\ enabled \in [Button -> BOOLEAN]
  /\ opened \in 0 .. Len(servers) /\ onlyAdded \in BOOLEAN

(* Between two events the buttons tell the truth about the form, whichever   *)
(* handler changed it: addServer and saveServerEdit never take an incomplete *)
(* server.                                                                   *)
ButtonsMatchForm ==
  status = "open" =>
    /\ enabled["add"] = Filled(form)
    /\ enabled["save"] = Filled(form)
    /\ enabled["clear"] = (form # BlankForm)

Occurrences(seq, text) == Cardinality({i \in DOMAIN seq : seq[i] = text})

(* The view and the list hold the same servers: as many rows show a text as  *)
(* servers print as it.  Their ORDER may differ: removeServerFromList takes  *)
(* the current row and the first server that prints like it.                 *)
RowsMatchServers ==
  \A text \in ListText :
    Occurrences(rows, text) = Occurrences(ListStrings(servers), text)

(* What saveServerList writes is what the next loadServers reads, although   *)
(* the groups of a longer list saved before are still there.                 *)
StoreRoundTrip ==
  [][status' = "saved" /\ status = "open" => LoadServers(store') = servers]_vars

(* The close event never drops a change in silence: a list that differs from *)
(* the one the dialog opened with is saved or the user declined.             *)
CloseAsks ==
  [][status = "open" /\ status' = "unchanged" => servers = initial]_vars

-----------------------------------------------------------------------------
(* What the comments and messages of the code say, and the code does not.    *)

(* fillInputFields: the form is filled for "the element that will be         *)
(* edited"; saveServerEdit changes that server and no other.                 *)
SaveHitsOpened ==
  [][ClickSave => \A i \in DOMAIN servers :
                    servers'[i] # servers[i] => i = opened]_vars

(* "Fascinating... how could this even happen?": saveServerEdit and          *)
(* fillInputFields always find a server for the current row.                 *)
LookupNeverFails ==
  [][ClickEdit \/ ClickSave => GetServerFromString(CurrentText) # 0]_vars

(* saveServerList "saves settings changes": a user who only added servers    *)
(* finds the servers of earlier sessions still there.                        *)
SaveKeepsStored ==
  [][status = "open" /\ status' = "saved" /\ onlyAdded
       => ToSet(LoadServers(store)) \subseteq ToSet(LoadServers(store'))]_vars

=============================================================================
