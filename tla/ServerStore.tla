----------------------------- MODULE ServerStore -----------------------------
(***************************************************************************)
(* The server list and its place on disk: server_manager.hpp and           *)
(* SettingsDialog::saveServerList.                                         *)
(*                                                                         *)
(* A Server of the program has five strings.  Two pieces are told apart    *)
(* here: addr, which stands for the host, port, user and database that     *)
(* constructServerListString prints, and password, which it does not       *)
(* print.  ListString is that function on addresses.  It need not be       *)
(* injective: user "a@b" at host "c" prints like user "a" at host "b@c".   *)
(***************************************************************************)
EXTENDS Integers, Sequences, SequencesExt

CONSTANTS
  Addr,        (* The addresses a user may type.                           *)
  Password,    (* The passwords a user may type.                           *)
  ListString   (* What constructServerListString prints for an address.    *)

NoText == ""   (* An empty line edit, or the text of a row that is not there. *)

ASSUME StoreAssumption ==
  /\ Addr \subseteq STRING \ {NoText}
  /\ Password \subseteq STRING \ {NoText}
  /\ ListString \in [Addr -> STRING \ {NoText}]

Server == [addr : Addr, password : Password]

ConstructServerListString(srv) == ListString[srv.addr]

(* Server::operator== compares the password with itself: *)
(* every pair of passwords is equal.                     *)
ServerEq(lhs, rhs) ==
  /\ lhs.addr = rhs.addr
  /\ lhs.password = lhs.password

(* QList<Server>::operator== over ServerEq. *)
ListEq(s, t) ==
  /\ Len(s) = Len(t)
  /\ \A i \in DOMAIN s : ServerEq(s[i], t[i])

(***************************************************************************)
(* A QSettings array "db/servers": a size and one group of keys per index. *)
(* Writing an array sets the groups it visits and the size; a group beyond *)
(* the new size stays where it is, out of sight.                           *)
(***************************************************************************)
Store == [size : Nat, slots : Seq(Server)]

EmptyStore == [size |-> 0, slots |-> << >>]

(* Mutant: the groups beyond the new list still count. *)
SaveServerListKeepsSize(store, list) ==
  [size  |-> IF Len(list) < store.size THEN store.size ELSE Len(list),
   slots |-> list \o SubSeq(store.slots, Len(list) + 1, Len(store.slots))]

SaveServerList(store, list) ==
  [size  |-> Len(list),
   slots |-> list \o SubSeq(store.slots, Len(list) + 1, Len(store.slots))]

LoadServers(store) == SubSeq(store.slots, 1, store.size)

(* Mutant: the empty list is returned like any other. *)
GetServersNeverLoads(list, store) == list

(* getServers: a list that was filled before is returned as it is; an empty *)
(* one is loaded first.                                                     *)
GetServers(list, store) == IF list # << >> THEN list ELSE LoadServers(store)

=============================================================================
