------------------------- MODULE SettingsDialogProofs -------------------------
(* Proofs about the settings dialog, for every set of addresses, passwords   *)
(* and saved lists and every number of servers.                              *)
EXTENDS SettingsDialog, SequenceTheorems, FunctionTheorems,
        FiniteSetTheorems, WellFoundedInduction, TLAPS

-----------------------------------------------------------------------------
(* The operators of the library the dialog is built from. *)

(* A non-empty set of positions has a first one. *)
LEMMA MinInSet ==
  ASSUME NEW S \in SUBSET Nat, S # {}
  PROVE  Min(S) \in S /\ \A y \in S : Min(S) <= y
<1>1. \E x \in S : \A y \in S : ~(<<y, x>> \in OpToRel(<, Nat))
  BY NatLessThanWellFounded, WFMin
<1>2. \A x, y \in Nat : <<y, x>> \in OpToRel(<, Nat) <=> y < x
  BY DEF OpToRel
<1>3. \E x \in S : \A y \in S : x <= y
  <2>1. PICK x \in S : \A y \in S : ~(<<y, x>> \in OpToRel(<, Nat))
    BY <1>1
  <2>2. \A y \in S : ~(y < x)
    BY <1>2, <2>1
  <2> QED
    BY <2>2
<1> QED
  BY <1>3 DEF Min

(* The search finds the first server that prints as the text, or none. *)
LEMMA LookupFinds ==
  ASSUME servers \in Seq(Server), NEW text
  PROVE  /\ GetServerFromString(text) \in 0 .. Len(servers)
         /\ GetServerFromString(text) # 0 =>
              ConstructServerListString(servers[GetServerFromString(text)]) = text
         /\ GetServerFromString(text) = 0 =>
              \A i \in DOMAIN servers :
                ConstructServerListString(servers[i]) # text
<1> DEFINE I == {i \in 1 .. Len(servers) :
                   ConstructServerListString(servers[i]) = text}
<1>1. GetServerFromString(text) = IF I # {} THEN Min(I) ELSE 0
  BY DEF GetServerFromString, SelectInSeq
<1>2. I \in SUBSET Nat
  OBVIOUS
<1>3. I # {} => Min(I) \in I
  BY <1>2, MinInSet
<1> QED
  BY <1>1, <1>3

(* Removing a position leaves a sequence that is one shorter. *)
LEMMA RemoveAtShortens ==
  ASSUME NEW S, NEW s \in Seq(S), NEW i \in 1 .. Len(s)
  PROVE  /\ RemoveAt(s, i) \in Seq(S)
         /\ Len(RemoveAt(s, i)) = Len(s) - 1
         /\ \A j \in 1 .. Len(s) - 1 :
              RemoveAt(s, i)[j] = IF j < i THEN s[j] ELSE s[j + 1]
<1> DEFINE front == SubSeq(s, 1, i - 1)
           back  == SubSeq(s, i + 1, Len(s))
<1>1. /\ front \in Seq(S) /\ Len(front) = i - 1
      /\ \A j \in 1 .. i - 1 : front[j] = s[j]
  OBVIOUS
<1>2. /\ back \in Seq(S) /\ Len(back) = Len(s) - i
      /\ \A j \in 1 .. Len(s) - i : back[j] = s[j + i]
  OBVIOUS
<1>3. RemoveAt(s, i) = front \o back
  BY DEF RemoveAt
<1> HIDE DEF front, back
<1>4. /\ front \o back \in Seq(S)
      /\ Len(front \o back) = Len(front) + Len(back)
      /\ \A j \in 1 .. Len(front) + Len(back) :
           (front \o back)[j] =
             IF j <= Len(front) THEN front[j] ELSE back[j - Len(front)]
  BY <1>1, <1>2, ConcatProperties
<1>5. ASSUME NEW j \in 1 .. Len(s) - 1
      PROVE  (front \o back)[j] = IF j < i THEN s[j] ELSE s[j + 1]
  <2>1. CASE j < i
    BY <1>1, <1>2, <1>4, <2>1
  <2>2. CASE ~(j < i)
    <3>1. (front \o back)[j] = back[j - (i - 1)]
      BY <1>1, <1>2, <1>4, <2>2
    <3>2. j - (i - 1) \in 1 .. Len(s) - i /\ (j - (i - 1)) + i = j + 1
      BY <2>2
    <3> QED
      BY <1>2, <2>2, <3>1, <3>2
  <2> QED
    BY <2>1, <2>2
<1> QED
  BY <1>1, <1>2, <1>3, <1>4, <1>5

-----------------------------------------------------------------------------
(* How often a text occurs. *)

Positions(seq, text) == {i \in DOMAIN seq : seq[i] = text}

LEMMA PositionsFinite ==
  ASSUME NEW S, NEW s \in Seq(S), NEW text
  PROVE  IsFiniteSet(Positions(s, text)) /\ Occurrences(s, text) \in Nat
<1>1. IsFiniteSet(1 .. Len(s)) /\ Positions(s, text) \in SUBSET (1 .. Len(s))
  BY FS_Interval DEF Positions
<1>2. IsFiniteSet(Positions(s, text))
  BY <1>1, FS_Subset
<1> QED
  BY <1>2, FS_CardinalityType DEF Occurrences, Positions

(* Appending a text adds one occurrence of it and none of another. *)
LEMMA OccurrencesAppend ==
  ASSUME NEW S, NEW s \in Seq(S), NEW e \in S, NEW text
  PROVE  Occurrences(Append(s, e), text) =
         Occurrences(s, text) + IF e = text THEN 1 ELSE 0
<1>1. Len(s) + 1 \notin Positions(s, text)
  BY DEF Positions
<1>2. Positions(Append(s, e), text) =
      IF e = text THEN Positions(s, text) \cup {Len(s) + 1}
                  ELSE Positions(s, text)
  BY DEF Positions
<1>3. Occurrences(s, text) = Cardinality(Positions(s, text)) /\ Occurrences(s, text) \in Nat
  BY PositionsFinite DEF Occurrences, Positions
<1>4. Occurrences(Append(s, e), text) = Cardinality(Positions(Append(s, e), text))
  BY DEF Occurrences, Positions
<1>5. Cardinality(Positions(s, text) \cup {Len(s) + 1}) = Cardinality(Positions(s, text)) + 1
  BY <1>1, PositionsFinite, FS_AddElement
<1> QED
  BY <1>2, <1>3, <1>4, <1>5

(* Removing a position takes one occurrence of its text and none of another. *)
LEMMA OccurrencesRemoveAt ==
  ASSUME NEW S, NEW s \in Seq(S), NEW i \in 1 .. Len(s), NEW text
  PROVE  Occurrences(RemoveAt(s, i), text) =
         Occurrences(s, text) - IF s[i] = text THEN 1 ELSE 0
<1> DEFINE P == Positions(s, text)
           R == Positions(RemoveAt(s, i), text)
           f == [j \in R |-> IF j < i THEN j ELSE j + 1]
<1>1. /\ RemoveAt(s, i) \in Seq(S) /\ DOMAIN RemoveAt(s, i) = 1 .. Len(s) - 1
      /\ \A j \in 1 .. Len(s) - 1 :
           RemoveAt(s, i)[j] = IF j < i THEN s[j] ELSE s[j + 1]
  BY RemoveAtShortens, LenProperties
<1>2. f \in [R -> P \ {i}]
  BY <1>1 DEF Positions
<1>3. \A a, b \in R : f[a] = f[b] => a = b
  BY <1>1 DEF Positions
<1>4. \A p \in P \ {i} : \E j \in R : f[j] = p
  <2> SUFFICES ASSUME NEW p \in P \ {i}
               PROVE  \E j \in R : f[j] = p
    OBVIOUS
  <2> DEFINE j == IF p < i THEN p ELSE p - 1
  <2>1. p \in 1 .. Len(s) /\ p # i /\ s[p] = text
    BY DEF Positions
  <2>2. j \in 1 .. Len(s) - 1 /\ RemoveAt(s, i)[j] = text
    BY <1>1, <2>1
  <2>3. j \in R
    BY <1>1, <2>2 DEF Positions
  <2>4. f[j] = p
    BY <2>1, <2>3
  <2> QED
    BY <2>3, <2>4
<1>5. ExistsBijection(R, P \ {i})
  <2>1. f \in Bijection(R, P \ {i})
    BY <1>2, <1>3, <1>4, Fun_IsBij DEF Surjection
  <2> QED
    BY <2>1, Fun_ExistsBij
<1>6. IsFiniteSet(P) /\ IsFiniteSet(R) /\ Cardinality(P) \in Nat
  BY <1>1, PositionsFinite, FS_CardinalityType
<1>7. Cardinality(P \ {i}) = Cardinality(R)
  BY <1>5, <1>6, FS_Bijection
<1>8. Cardinality(P \ {i}) = IF i \in P THEN Cardinality(P) - 1 ELSE Cardinality(P)
  BY <1>6, FS_RemoveElement
<1>9. i \in P <=> s[i] = text
  BY DEF Positions
<1> QED
  BY <1>6, <1>7, <1>8, <1>9 DEF Occurrences, Positions

(* A text that occurs has a positive number of occurrences. *)
LEMMA OccurrencesPositive ==
  ASSUME NEW S, NEW s \in Seq(S), NEW i \in DOMAIN s
  PROVE  Occurrences(s, s[i]) # 0
<1>1. i \in Positions(s, s[i])
  BY DEF Positions
<1>2. Cardinality(Positions(s, s[i])) # 0
  BY <1>1, PositionsFinite, FS_EmptySet
<1> QED
  BY <1>2 DEF Occurrences, Positions

-----------------------------------------------------------------------------
(* The dialog.  Its three invariants are inductive together: a complete form *)
(* is a server, and a row names a server, only because of the other two.     *)

DialogInv == TypeOK /\ ButtonsMatchForm /\ RowsMatchServers

LEMMA TextOfServer ==
  ASSUME NEW srv \in Server
  PROVE  ConstructServerListString(srv) \in ListText
  BY DEF Server, ListText, ConstructServerListString

LEMMA FilledFormIsServer ==
  ASSUME NEW f \in Form, Filled(f)
  PROVE  f \in Server
  BY DEF Form, Filled, Server

LEMMA BlankFormIsForm == BlankForm \in Form /\ ~Filled(BlankForm)
  BY DEF BlankForm, Form, Filled

(* The printed list is as long as the list, and changes with it. *)
LEMMA ListStringsShape ==
  ASSUME NEW list \in Seq(Server)
  PROVE  /\ ListStrings(list) \in Seq(ListText)
         /\ Len(ListStrings(list)) = Len(list)
         /\ DOMAIN ListStrings(list) = DOMAIN list
         /\ \A i \in DOMAIN list :
              ListStrings(list)[i] = ConstructServerListString(list[i])
  BY TextOfServer DEF ListStrings

LEMMA ListStringsAppend ==
  ASSUME NEW list \in Seq(Server), NEW srv \in Server
  PROVE  ListStrings(Append(list, srv)) =
         Append(ListStrings(list), ConstructServerListString(srv))
<1> DEFINE s == ListStrings(Append(list, srv))
           t == Append(ListStrings(list), ConstructServerListString(srv))
<1>1. s \in Seq(ListText) /\ t \in Seq(ListText) /\ Len(s) = Len(t)
  <2>1. Append(list, srv) \in Seq(Server) /\ Len(Append(list, srv)) = Len(list) + 1
    OBVIOUS
  <2>2. s \in Seq(ListText) /\ Len(s) = Len(list) + 1
    BY <2>1, ListStringsShape
  <2>3. ListStrings(list) \in Seq(ListText) /\ Len(ListStrings(list)) = Len(list)
    BY ListStringsShape
  <2>4. t \in Seq(ListText) /\ Len(t) = Len(list) + 1
    BY <2>3, TextOfServer
  <2> QED
    BY <2>2, <2>4
<1>2. ASSUME NEW i \in 1 .. Len(s)
      PROVE  s[i] = t[i]
  BY ListStringsShape, TextOfServer DEF ListStrings
<1> HIDE DEF s, t
<1>3. s = t
  BY <1>1, <1>2, SeqEqual
<1> QED
  BY <1>3 DEF s, t

LEMMA ListStringsRemoveAt ==
  ASSUME NEW list \in Seq(Server), NEW i \in 1 .. Len(list)
  PROVE  ListStrings(RemoveAt(list, i)) = RemoveAt(ListStrings(list), i)
<1> DEFINE s == ListStrings(RemoveAt(list, i))
           t == RemoveAt(ListStrings(list), i)
<1>1. /\ ListStrings(list) \in Seq(ListText) /\ Len(ListStrings(list)) = Len(list)
      /\ \A j \in 1 .. Len(list) :
           ListStrings(list)[j] = ConstructServerListString(list[j])
  BY ListStringsShape
<1>2. /\ RemoveAt(list, i) \in Seq(Server) /\ Len(RemoveAt(list, i)) = Len(list) - 1
      /\ \A j \in 1 .. Len(list) - 1 :
           RemoveAt(list, i)[j] = IF j < i THEN list[j] ELSE list[j + 1]
  BY RemoveAtShortens
<1>3. /\ t \in Seq(ListText) /\ Len(t) = Len(list) - 1
      /\ \A j \in 1 .. Len(list) - 1 :
           t[j] = IF j < i THEN ListStrings(list)[j] ELSE ListStrings(list)[j + 1]
  BY <1>1, RemoveAtShortens
<1>4. /\ s \in Seq(ListText) /\ Len(s) = Len(list) - 1
      /\ \A j \in 1 .. Len(list) - 1 :
           s[j] = ConstructServerListString(RemoveAt(list, i)[j])
  BY <1>2, ListStringsShape
<1>5. \A j \in 1 .. Len(s) : s[j] = t[j]
  BY <1>1, <1>2, <1>3, <1>4
<1> HIDE DEF s, t
<1>6. s = t
  BY <1>3, <1>4, <1>5, SeqEqual
<1> QED
  BY <1>6 DEF s, t

LEMMA SavedStoreIsStore ==
  ASSUME NEW st \in Store, NEW list \in Seq(Server)
  PROVE  SaveServerList(st, list) \in Store
<1>1. SubSeq(st.slots, Len(list) + 1, Len(st.slots)) \in Seq(Server)
  BY DEF Store
<1>2. list \o SubSeq(st.slots, Len(list) + 1, Len(st.slots)) \in Seq(Server)
  BY <1>1
<1> QED
  BY <1>2 DEF SaveServerList, Store

(* Setting the form leaves the buttons as checkFormFill wants them, if they  *)
(* were so for a form that does not change.                                  *)
Matches(f, buttons) ==
  /\ buttons["add"] = Filled(f)
  /\ buttons["save"] = Filled(f)
  /\ buttons["clear"] = (f # BlankForm)

LEMMA SetFormMatches ==
  ASSUME NEW f \in Form, NEW buttons \in [Button -> BOOLEAN],
         f = form => Matches(f, buttons), SetForm(f, buttons)
  PROVE  /\ form' \in Form /\ form' = f
         /\ enabled' \in [Button -> BOOLEAN] /\ Matches(form', enabled')
<1>1. CASE f = form
  BY <1>1 DEF SetForm, Matches, Filled
<1>2. CASE f # form
  <2>1. enabled' = [[[buttons EXCEPT !["add"] = Filled(f)]
                       EXCEPT !["save"] = Filled(f)]
                       EXCEPT !["clear"] = f # BlankForm]
    BY <1>2 DEF SetForm, CheckFormFill
  <2>2. Filled(f) \in BOOLEAN /\ (f # BlankForm) \in BOOLEAN
    BY DEF Filled
  <2> HIDE DEF Filled, BlankForm
  <2>3. enabled' \in [Button -> BOOLEAN]
    BY <2>1, <2>2
  <2>4. Matches(f, enabled')
    BY <2>1, <2>2 DEF Matches, Button
  <2> QED
    BY <2>3, <2>4 DEF SetForm
<1> QED
  BY <1>1, <1>2

LEMMA DialogInit == Init => DialogInv
<1> SUFFICES ASSUME Init
             PROVE  DialogInv
  OBVIOUS
<1>1. EmptyStore \in Store
  BY DEF EmptyStore, Store
<1>2. store \in Store
  BY <1>1, SavedStoreIsStore, DialogAssumption DEF Init
<1>3. enabled \in [Button -> BOOLEAN]
  BY DEF Init
<1>4. /\ servers \in Seq(Server) /\ initial \in Seq(Server)
      /\ rows \in Seq(ListText) /\ current \in 0 .. Len(rows)
      /\ opened \in 0 .. Len(servers)
  BY DEF Init
<1>5. form \in Form /\ mode \in {"add", "edit"} /\ status = "unchanged"
  BY BlankFormIsForm DEF Init
<1>6. onlyAdded \in BOOLEAN
  BY DEF Init
<1>7. TypeOK
  BY <1>2, <1>3, <1>4, <1>5, <1>6 DEF TypeOK
<1>8. ButtonsMatchForm
  BY <1>5 DEF ButtonsMatchForm
<1>9. RowsMatchServers
  BY DEF Init, RowsMatchServers, Occurrences, ListStrings
<1> QED
  BY <1>7, <1>8, <1>9 DEF DialogInv

(* A handler that leaves the list and its rows alone. *)
LEMMA RowsUntouched ==
  ASSUME RowsMatchServers, rows' = rows, servers' = servers
  PROVE  RowsMatchServers'
  BY DEF RowsMatchServers, Occurrences, ListStrings

(* Rows that were built from the list match it. *)
LEMMA RowsRebuilt ==
  ASSUME rows' = ListStrings(servers')
  PROVE  RowsMatchServers'
  BY DEF RowsMatchServers, Occurrences, ListStrings

(* removeServerFromList takes one row and one server of the same text. *)
LEMMA RemoveStep == DialogInv /\ ClickRemove => DialogInv'
<1> SUFFICES ASSUME TypeOK, ButtonsMatchForm, RowsMatchServers, ClickRemove
             PROVE  DialogInv'
  BY DEF DialogInv
<1> DEFINE text == CurrentText
           i == GetServerFromString(text)
<1>1. /\ servers \in Seq(Server) /\ rows \in Seq(ListText)
      /\ current \in 0 .. Len(rows) /\ opened \in 0 .. Len(servers)
      /\ Len(rows) \in Nat /\ Len(servers) \in Nat
  BY DEF TypeOK
<1>2. /\ i \in 0 .. Len(servers)
      /\ i # 0 => ConstructServerListString(servers[i]) = text
      /\ i = 0 => \A j \in DOMAIN servers :
                    ConstructServerListString(servers[j]) # text
  BY <1>1, LookupFinds
<1>3. i = 0 <=> current = 0
  <2>1. CASE current = 0
    <3>1. text = NoText /\ NoText \notin ListText
      BY <2>1, StoreAssumption DEF CurrentText, ListText
    <3>2. \A j \in DOMAIN servers :
            ConstructServerListString(servers[j]) \in ListText
      BY <1>1, TextOfServer
    <3> QED
      BY <1>1, <1>2, <2>1, <3>1, <3>2
  <2>2. CASE current # 0
    <3>1. text = rows[current] /\ current \in DOMAIN rows /\ text \in ListText
      BY <1>1, <2>2 DEF CurrentText
    <3>2. Occurrences(rows, text) # 0
      BY <1>1, <3>1, OccurrencesPositive
    <3>3. Occurrences(ListStrings(servers), text) # 0
      BY <3>1, <3>2 DEF RowsMatchServers
    <3>4. ASSUME i = 0
          PROVE  FALSE
      <4>1. {j \in DOMAIN ListStrings(servers) : ListStrings(servers)[j] = text} = {}
        BY <1>1, <1>2, <3>4, ListStringsShape
      <4>2. Occurrences(ListStrings(servers), text) = 0
        BY <4>1, FS_EmptySet DEF Occurrences
      <4> QED
        BY <3>3, <4>2
    <3> QED
      BY <2>2, <3>4
  <2> QED
    BY <2>1, <2>2
<1>4. /\ servers' = IF i = 0 THEN servers ELSE RemoveAt(servers, i)
      /\ rows' = IF current = 0 THEN rows ELSE RemoveAt(rows, current)
      /\ current' = IF current = 0 THEN 0 ELSE CurrentAfterRemove
      /\ opened' = CASE i = 0 \/ opened < i -> opened
                     [] opened = i          -> 0
                     [] opened > i          -> opened - 1
      /\ onlyAdded' \in {onlyAdded, FALSE}
  BY DEF ClickRemove, RowsAfterRemove
<1>5. /\ enabled' = [[enabled EXCEPT !["edit"] = FALSE] EXCEPT !["remove"] = FALSE]
      /\ UNCHANGED <<store, status, initial, form, mode>> /\ status = "open"
  BY DEF ClickRemove
<1> HIDE DEF i, text
<1>6. /\ i # 0 => /\ RemoveAt(servers, i) \in Seq(Server)
                  /\ Len(RemoveAt(servers, i)) = Len(servers) - 1
      /\ current # 0 => /\ RemoveAt(rows, current) \in Seq(ListText)
                        /\ Len(RemoveAt(rows, current)) = Len(rows) - 1
  BY <1>1, <1>2, RemoveAtShortens
<1>7. servers' \in Seq(Server) /\ rows' \in Seq(ListText)
  BY <1>1, <1>4, <1>6
<1>8. current' \in 0 .. Len(rows')
  BY <1>1, <1>4, <1>6 DEF CurrentAfterRemove
<1>9. opened' \in 0 .. Len(servers')
  BY <1>1, <1>2, <1>4, <1>6
<1>10. enabled' \in [Button -> BOOLEAN]
  BY <1>5 DEF TypeOK
<1>11. onlyAdded' \in BOOLEAN
  BY <1>4 DEF TypeOK
<1>12. TypeOK'
  BY <1>5, <1>7, <1>8, <1>9, <1>10, <1>11 DEF TypeOK
<1>13. ButtonsMatchForm'
  BY <1>5 DEF ButtonsMatchForm, TypeOK, Button, Filled, BlankForm
<1>14. RowsMatchServers'
  <2>1. CASE current = 0
    BY <1>3, <1>4, <2>1, RowsUntouched
  <2>2. CASE current # 0
    <3>1. /\ rows[current] = text /\ current \in 1 .. Len(rows)
          /\ i \in 1 .. Len(servers) /\ ListStrings(servers)[i] = text
      BY <1>1, <1>2, <1>3, <2>2, ListStringsShape DEF text, CurrentText
    <3>2. /\ rows' = RemoveAt(rows, current)
          /\ servers' = RemoveAt(servers, i)
      BY <1>3, <1>4, <2>2
    <3>3. ListStrings(servers') = RemoveAt(ListStrings(servers), i)
      BY <1>1, <3>1, <3>2, ListStringsRemoveAt
    <3>4. ListStrings(servers) \in Seq(ListText) /\ Len(ListStrings(servers)) = Len(servers)
      BY <1>1, ListStringsShape
    <3>5. ASSUME NEW other \in ListText
          PROVE  Occurrences(rows', other) = Occurrences(ListStrings(servers'), other)
      <4>1. Occurrences(rows', other) =
            Occurrences(rows, other) - IF text = other THEN 1 ELSE 0
        BY <1>1, <3>1, <3>2, OccurrencesRemoveAt
      <4>2. Occurrences(ListStrings(servers'), other) =
            Occurrences(ListStrings(servers), other) - IF text = other THEN 1 ELSE 0
        BY <3>1, <3>3, <3>4, OccurrencesRemoveAt
      <4> QED
        BY <4>1, <4>2 DEF RowsMatchServers
    <3> QED
      BY <3>5 DEF RowsMatchServers, Occurrences, ListStrings
  <2> QED
    BY <2>1, <2>2
<1> QED
  BY <1>12, <1>13, <1>14 DEF DialogInv

(* addServer appends one row and one server of the same text. *)
LEMMA AddStep == DialogInv /\ ClickAdd => DialogInv'
<1> SUFFICES ASSUME TypeOK, ButtonsMatchForm, RowsMatchServers, ClickAdd
             PROVE  DialogInv'
  BY DEF DialogInv
<1> DEFINE text == ConstructServerListString(form)
<1>1. /\ servers \in Seq(Server) /\ rows \in Seq(ListText) /\ form \in Form
      /\ enabled \in [Button -> BOOLEAN]
  BY DEF TypeOK
<1>2. /\ status = "open" /\ servers' = Append(servers, form)
      /\ rows' = Append(rows, text) /\ SetForm(BlankForm, enabled)
      /\ UNCHANGED <<store, status, initial, current, mode, opened, onlyAdded>>
  BY DEF ClickAdd, ClearInputFields, history
<1>3. Filled(form) /\ Matches(form, enabled)
  BY <1>2 DEF ClickAdd, ButtonsMatchForm, Matches
<1>4. form \in Server /\ text \in ListText
  BY <1>1, <1>3, FilledFormIsServer, TextOfServer
<1> HIDE DEF text
<1>5. /\ servers' \in Seq(Server) /\ Len(servers') = Len(servers) + 1
      /\ rows' \in Seq(ListText) /\ Len(rows') = Len(rows) + 1
  BY <1>1, <1>2, <1>4
<1>6. /\ form' \in Form /\ enabled' \in [Button -> BOOLEAN]
      /\ Matches(form', enabled')
  BY <1>1, <1>2, <1>3, BlankFormIsForm, SetFormMatches
<1>7. current' \in 0 .. Len(rows') /\ opened' \in 0 .. Len(servers')
  BY <1>1, <1>2, <1>5 DEF TypeOK
<1>8. TypeOK'
  BY <1>2, <1>5, <1>6, <1>7 DEF TypeOK
<1>9. ButtonsMatchForm'
  BY <1>6 DEF ButtonsMatchForm, Matches
<1>10. ListStrings(servers') = Append(ListStrings(servers), text)
  BY <1>1, <1>2, <1>4, ListStringsAppend DEF text
<1>11. ASSUME NEW other \in ListText
       PROVE  Occurrences(rows', other) = Occurrences(ListStrings(servers'), other)
  <2>1. Occurrences(rows', other) =
        Occurrences(rows, other) + IF text = other THEN 1 ELSE 0
    BY <1>1, <1>2, <1>4, OccurrencesAppend
  <2>2. Occurrences(ListStrings(servers'), other) =
        Occurrences(ListStrings(servers), other) + IF text = other THEN 1 ELSE 0
    BY <1>1, <1>4, <1>10, ListStringsShape, OccurrencesAppend
  <2> QED
    BY <2>1, <2>2 DEF RowsMatchServers
<1>12. RowsMatchServers'
  BY <1>11 DEF RowsMatchServers, Occurrences, ListStrings
<1> QED
  BY <1>8, <1>9, <1>12 DEF DialogInv

LEMMA DialogNext == DialogInv /\ [Next]_vars => DialogInv'
<1> SUFFICES ASSUME TypeOK, ButtonsMatchForm, RowsMatchServers, [Next]_vars
             PROVE  DialogInv'
  BY DEF DialogInv
<1>1. CASE Open
  <2>1. /\ servers' = << >> /\ initial' = << >> /\ rows' = ListStrings(<< >>)
        /\ current' = 0 /\ form' = BlankForm /\ mode' = "add" /\ status' = "open"
        /\ enabled' = [b \in Button |-> FALSE] /\ opened' = 0
        /\ onlyAdded' = TRUE /\ store' = store
    BY <1>1 DEF Open, InitialList
  <2>2. /\ servers' \in Seq(Server) /\ initial' \in Seq(Server)
        /\ rows' \in Seq(ListText) /\ Len(rows') = 0
    <3>1. << >> \in Seq(Server) /\ Len(<< >>) = 0
      OBVIOUS
    <3>2. ListStrings(<< >>) \in Seq(ListText) /\ Len(ListStrings(<< >>)) = 0
      BY <3>1, ListStringsShape
    <3> QED
      BY <2>1, <3>1, <3>2
  <2>3. current' \in 0 .. Len(rows') /\ opened' \in 0 .. Len(servers')
    BY <2>1, <2>2
  <2>4. enabled' \in [Button -> BOOLEAN] /\ onlyAdded' \in BOOLEAN
    BY <2>1
  <2>5. TypeOK'
    BY <2>1, <2>2, <2>3, <2>4, BlankFormIsForm DEF TypeOK
  <2>6. ButtonsMatchForm'
    <3>1. enabled'["add"] = FALSE /\ enabled'["save"] = FALSE /\ enabled'["clear"] = FALSE
      BY <2>1 DEF Button
    <3> QED
      BY <2>1, <3>1 DEF ButtonsMatchForm, Filled, BlankForm
  <2>7. RowsMatchServers'
    BY <2>1, RowsRebuilt
  <2> QED
    BY <2>5, <2>6, <2>7 DEF DialogInv
<1>2. CASE Type \/ ClickClear
  <2>1. /\ \E f \in Form : SetForm(f, enabled)
        /\ status = "open"
        /\ UNCHANGED <<store, status, servers, initial, rows, current, mode,
                       opened, onlyAdded>>
    BY <1>2, BlankFormIsForm
       DEF Type, ClickClear, ClearInputFields, listVars, history
  <2>2. enabled \in [Button -> BOOLEAN] /\ Matches(form, enabled)
    BY <2>1 DEF TypeOK, ButtonsMatchForm, Matches
  <2>3. /\ form' \in Form /\ enabled' \in [Button -> BOOLEAN]
        /\ Matches(form', enabled')
    BY <2>1, <2>2, SetFormMatches
  <2> QED
    BY <2>1, <2>3, RowsUntouched
       DEF DialogInv, TypeOK, ButtonsMatchForm, Matches
<1>3. CASE ClickRow
  <2> DEFINE buttons == [[enabled EXCEPT !["edit"] = TRUE] EXCEPT !["remove"] = TRUE]
  <2>1. /\ status = "open" /\ SetForm(BlankForm, buttons)
        /\ current' \in DOMAIN rows /\ mode' = "add" /\ opened' = 0
        /\ UNCHANGED <<store, status, servers, initial, rows, onlyAdded>>
    BY <1>3 DEF ClickRow, ClearInputFields
  <2>2. buttons \in [Button -> BOOLEAN] /\ (BlankForm = form => Matches(BlankForm, buttons))
    BY <2>1 DEF TypeOK, ButtonsMatchForm, Matches, Button, Filled
  <2>3. /\ form' \in Form /\ enabled' \in [Button -> BOOLEAN]
        /\ Matches(form', enabled')
    BY <2>1, <2>2, BlankFormIsForm, SetFormMatches
  <2>4. current' \in 0 .. Len(rows') /\ opened' \in 0 .. Len(servers')
    BY <2>1 DEF TypeOK
  <2> QED
    BY <2>1, <2>3, <2>4, RowsUntouched
       DEF DialogInv, TypeOK, ButtonsMatchForm, Matches
<1>4. CASE MoveCurrent
  <2>1. /\ current' \in DOMAIN rows
        /\ UNCHANGED <<store, status, servers, initial, rows, form, mode, enabled,
                       opened, onlyAdded>>
    BY <1>4 DEF MoveCurrent, formVars, history
  <2>2. current' \in 0 .. Len(rows')
    BY <2>1 DEF TypeOK
  <2> QED
    BY <2>1, <2>2, RowsUntouched DEF DialogInv, TypeOK, ButtonsMatchForm
<1>5. CASE ClickAdd
  BY <1>5, AddStep DEF DialogInv
<1>6. CASE ClickEdit
  <2> DEFINE i == GetServerFromString(CurrentText)
             f == IF i = 0 THEN BlankForm ELSE servers[i]
  <2>1. /\ status = "open" /\ SetForm(f, enabled) /\ mode' = "edit" /\ opened' = i
        /\ UNCHANGED <<store, status, servers, initial, rows, current, onlyAdded>>
    BY <1>6 DEF ClickEdit, ClearInputFields, listVars
  <2>2. servers \in Seq(Server) /\ i \in 0 .. Len(servers)
    BY LookupFinds DEF TypeOK
  <2>3. f \in Form
    <3>1. Server \subseteq Form
      BY DEF Form, Server
    <3>2. i # 0 => servers[i] \in Server
      BY <2>2
    <3> QED
      BY <3>1, <3>2, BlankFormIsForm
  <2>4. enabled \in [Button -> BOOLEAN] /\ Matches(form, enabled)
    BY <2>1 DEF TypeOK, ButtonsMatchForm, Matches
  <2> HIDE DEF i, f
  <2>5. /\ form' \in Form /\ enabled' \in [Button -> BOOLEAN]
        /\ Matches(form', enabled')
    BY <2>1, <2>3, <2>4, SetFormMatches
  <2> QED
    BY <2>1, <2>2, <2>5, RowsUntouched
       DEF DialogInv, TypeOK, ButtonsMatchForm, Matches
<1>7. CASE ClickRemove
  BY <1>7, RemoveStep DEF DialogInv
<1>8. CASE ClickSave
  <2> DEFINE i == GetServerFromString(CurrentText)
             buttons == [[enabled EXCEPT !["add"] = FALSE] EXCEPT !["save"] = FALSE]
  <2>1. /\ status = "open" /\ enabled["save"] /\ SetForm(BlankForm, buttons)
        /\ mode' = "add" /\ opened' = 0
        /\ UNCHANGED <<store, status, initial>>
        /\ \/ UNCHANGED <<servers, rows, current, onlyAdded>>
           \/ /\ i # 0 /\ servers' = [servers EXCEPT ![i] = form]
              /\ rows' = ListStrings(servers') /\ current' = 0
              /\ onlyAdded' = FALSE
    BY <1>8 DEF ClickSave, ClearInputFields
  <2>2. Filled(form) /\ form \in Server /\ form # BlankForm
    BY <2>1, FilledFormIsServer, BlankFormIsForm DEF TypeOK, ButtonsMatchForm
  <2>3. servers \in Seq(Server) /\ i \in 0 .. Len(servers)
    BY LookupFinds DEF TypeOK
  <2>4. buttons \in [Button -> BOOLEAN]
    BY DEF TypeOK
  <2> HIDE DEF i, buttons
  <2>5. /\ form' \in Form /\ enabled' \in [Button -> BOOLEAN]
        /\ Matches(form', enabled')
    BY <2>1, <2>2, <2>4, BlankFormIsForm, SetFormMatches
  <2>6. CASE UNCHANGED <<servers, rows, current, onlyAdded>>
    <3>1. opened' \in 0 .. Len(servers')
      BY <2>1, <2>3, <2>6
    <3> QED
      BY <2>1, <2>5, <2>6, <3>1, RowsUntouched
         DEF DialogInv, TypeOK, ButtonsMatchForm, Matches
  <2>7. CASE /\ i # 0 /\ servers' = [servers EXCEPT ![i] = form]
             /\ rows' = ListStrings(servers') /\ current' = 0
             /\ onlyAdded' = FALSE
    <3>1. servers' \in Seq(Server)
      BY <2>2, <2>3, <2>7
    <3>2. rows' \in Seq(ListText)
      BY <2>7, <3>1, ListStringsShape
    <3>3. opened' \in 0 .. Len(servers') /\ current' \in 0 .. Len(rows')
      BY <2>1, <2>7, <3>1, <3>2
    <3>4. onlyAdded' \in BOOLEAN
      BY <2>7
    <3>5. TypeOK'
      BY <2>1, <2>5, <3>1, <3>2, <3>3, <3>4 DEF TypeOK
    <3>6. ButtonsMatchForm'
      BY <2>5 DEF ButtonsMatchForm, Matches
    <3>7. RowsMatchServers'
      BY <2>7, RowsRebuilt
    <3> QED
      BY <3>5, <3>6, <3>7 DEF DialogInv
  <2> QED
    BY <2>1, <2>6, <2>7
<1>9. CASE Close \/ Reject
  <2>1. /\ status' \in {"unchanged", "saved", "declined", "escaped"}
        /\ store' \in {store, SaveServerList(store, servers)}
        /\ UNCHANGED <<servers, initial, rows, current, form, mode, enabled,
                       opened, onlyAdded>>
    BY <1>9 DEF Close, Reject, listVars, formVars, history
  <2>2. store' \in Store
    BY <2>1, SavedStoreIsStore DEF TypeOK
  <2> QED
    BY <2>1, <2>2, RowsUntouched DEF DialogInv, TypeOK, ButtonsMatchForm
<1>10. CASE UNCHANGED vars
  BY <1>10, RowsUntouched
     DEF vars, listVars, formVars, history, DialogInv, TypeOK, ButtonsMatchForm
<1> QED
  BY <1>1, <1>2, <1>3, <1>4, <1>5, <1>6, <1>7, <1>8, <1>9, <1>10 DEF Next

LEMMA DialogAlways == Spec => []DialogInv
  BY DialogInit, DialogNext, PTL DEF Spec

(* Whatever the user does and however many servers there are, the dialog's   *)
(* variables keep their types; the current row is a row.                     *)
THEOREM TypeCorrect == Spec => []TypeOK
<1>1. DialogInv => TypeOK
  BY DEF DialogInv
<1> QED
  BY <1>1, DialogAlways, PTL

(* Add and Save are enabled exactly for a complete form, Clear for a form    *)
(* that is not blank, after every handler.                                   *)
THEOREM ButtonsAlwaysMatchForm == Spec => []ButtonsMatchForm
<1>1. DialogInv => ButtonsMatchForm
  BY DEF DialogInv
<1> QED
  BY <1>1, DialogAlways, PTL

(* However the orders of the view and of the list have parted, they hold the *)
(* same texts equally often.                                                 *)
THEOREM RowsAlwaysMatchServers == Spec => []RowsMatchServers
<1>1. DialogInv => RowsMatchServers
  BY DEF DialogInv
<1> QED
  BY <1>1, DialogAlways, PTL

-----------------------------------------------------------------------------
(* Closing. *)

(* What saveServerList writes is what loadServers reads, over whatever was   *)
(* there before.                                                             *)
LEMMA LoadAfterSave ==
  ASSUME NEW st \in Store, NEW list \in Seq(Server)
  PROVE  LoadServers(SaveServerList(st, list)) = list
<1> DEFINE left == SubSeq(st.slots, Len(list) + 1, Len(st.slots))
           all  == list \o left
<1>1. left \in Seq(Server)
  BY DEF Store
<1> HIDE DEF left
<1>2. /\ all \in Seq(Server) /\ Len(all) = Len(list) + Len(left)
      /\ \A j \in 1 .. Len(list) : all[j] = list[j]
  BY <1>1, ConcatProperties
<1>3. LoadServers(SaveServerList(st, list)) = SubSeq(all, 1, Len(list))
  BY DEF LoadServers, SaveServerList, all, left
<1> HIDE DEF all
<1>4. /\ SubSeq(all, 1, Len(list)) \in Seq(Server)
      /\ Len(SubSeq(all, 1, Len(list))) = Len(list)
      /\ \A j \in 1 .. Len(list) : SubSeq(all, 1, Len(list))[j] = list[j]
  BY <1>1, <1>2
<1> QED
  BY <1>3, <1>4, SeqEqual

(* The constructor loads nothing. *)
NothingLoaded == initial = << >>

(* A list that operator== takes for the empty one is empty. *)
LEMMA OnlyEmptyEqualsEmpty ==
  ASSUME NEW list \in Seq(Server), ListEq(<< >>, list)
  PROVE  list = << >>
  BY DEF ListEq

LEMMA NothingLoadedNext == NothingLoaded /\ [Next]_vars => NothingLoaded'
  BY DEF NothingLoaded, Next, Open, InitialList, Type, ClickClear, ClickRow, MoveCurrent,
         ClickAdd, ClickEdit, ClickRemove, ClickSave, Close, Reject, vars, listVars

(* The only handler that ends an open dialog as saved or as unchanged is the *)
(* close event.                                                              *)
LEMMA OnlyCloseDismisses ==
  ASSUME [Next]_vars, status = "open", status' \in {"saved", "unchanged"}
  PROVE  Close
  BY DEF Next, Open, Type, ClickClear, ClickRow, MoveCurrent, ClickAdd, ClickEdit,
         ClickRemove, ClickSave, Reject, vars

LEMMA CloseSaves ==
  ASSUME TypeOK, Close, status' = "saved"
  PROVE  LoadServers(store') = servers
  BY LoadAfterSave DEF TypeOK, Close

LEMMA CloseUnchanged ==
  ASSUME TypeOK, NothingLoaded, Close, status' = "unchanged"
  PROVE  servers = initial
  BY OnlyEmptyEqualsEmpty DEF TypeOK, NothingLoaded, Close

(* What Save stores is what the next start loads, also over a longer list    *)
(* (saveServerList, loadServers).                                            *)
THEOREM SavedAlwaysLoads == Spec => StoreRoundTrip
<1>1. TypeOK /\ [Next]_vars =>
        [status' = "saved" /\ status = "open" => LoadServers(store') = servers]_vars
  BY OnlyCloseDismisses, CloseSaves
<1> QED
  BY <1>1, TypeCorrect, PTL DEF Spec, StoreRoundTrip

(* closeEvent asks whenever the list is not the one the dialog opened with,  *)
(* though operator== overlooks passwords: the list it compares with is empty.*)
THEOREM CloseAlwaysAsks == Spec => CloseAsks
<1>1. Init => NothingLoaded
  BY DEF Init, NothingLoaded
<1>2. TypeOK /\ NothingLoaded /\ [Next]_vars =>
        [status = "open" /\ status' = "unchanged" => servers = initial]_vars
  BY OnlyCloseDismisses, CloseUnchanged
<1> QED
  BY <1>1, <1>2, NothingLoadedNext, TypeCorrect, PTL DEF Spec, CloseAsks

=============================================================================
