-------------------------- MODULE InstanceFormsProofs --------------------------
(***************************************************************************)
(* Theorems about InstanceForms: what a save writes is what was validated  *)
(* and probed, whatever other requests did while the probe ran.            *)
(***************************************************************************)
EXTENDS InstanceForms, TLAPS

(* What a handler holds across its probe, a toggle across its read, and     *)
(* what a row holds.                                                       *)
Submit(h) == h = [pc |-> h.pc, op |-> h.op, id |-> h.id, form |-> h.form, key |-> h.key,
                  enabled |-> h.enabled]
Toggle(h) == h.pc = "toggle" /\ h.id \in Ids
Saved(row) == row = [kind |-> "row", type |-> row.type, url |-> row.url, key |-> row.key,
                     enabled |-> row.enabled, policy |-> row.policy]

(* A form is validated before its probe, and only a save that is not a test *)
(* goes on to write.                                                       *)
Checked(h) ==
  /\ Submit(h) /\ h.pc \in {"probe", "write"} /\ h.op \in {"create", "update", "test"}
  /\ h.op # "test" => ValidForm(h.form)
  /\ h.op = "update" => h.id \in Ids
  /\ h.pc = "write" => h.op # "test"

Handling == \A q \in Requests : request[q].pc = "idle" \/ Toggle(request[q]) \/ Checked(request[q])
Table == \A i \in Ids : table[i] = NoRow \/ Saved(table[i])
IInv ==
  /\ request = [q \in Requests |-> request[q]] /\ Handling
  /\ table = [i \in Ids |-> table[i]] /\ Table
-----------------------------------------------------------------------------
LEMMA InitHolds == FormInit => IInv
<1> SUFFICES ASSUME FormInit PROVE IInv
  OBVIOUS
<1>1. request = [q \in Requests |-> request[q]] /\ table = [i \in Ids |-> table[i]]
  BY DEF FormInit
<1>2. Handling
  BY DEF FormInit, Handling, Free
<1>3. Table
  BY DEF FormInit, Table
<1> QED BY <1>1, <1>2, <1>3 DEF IInv

(* A handler moves on and leaves the others alone.                          *)
LEMMA HandlerMoves ==
  ASSUME IInv, NEW q \in Requests, NEW h, request' = [request EXCEPT ![q] = h],
         h.pc = "idle" \/ Toggle(h) \/ Checked(h)
  PROVE  request' = [p \in Requests |-> request'[p]] /\ Handling'
<1>1. request = [p \in Requests |-> request[p]] /\ Handling
  BY DEF IInv
<1>2. request' = [p \in Requests |-> request'[p]] /\ request'[q] = h
      /\ \A p \in Requests : p # q => request'[p] = request[p]
  BY <1>1
<1>3. ASSUME NEW p \in Requests
      PROVE  request'[p].pc = "idle" \/ Toggle(request'[p]) \/ Checked(request'[p])
  <2>1. CASE p = q
    BY <1>2, <2>1
  <2>2. CASE p # q
    <3>1. request'[p] = request[p]
      BY <1>2, <2>2
    <3> QED BY <1>1, <3>1 DEF Handling
  <2> QED BY <2>1, <2>2
<1> QED BY <1>2, <1>3 DEF Handling, Toggle, Checked, Submit

(* One row changes and the others do not.                                   *)
LEMMA RowChanges ==
  ASSUME IInv, NEW id \in Ids, NEW row, table' = [table EXCEPT ![id] = row],
         row = NoRow \/ Saved(row)
  PROVE  table' = [i \in Ids |-> table'[i]] /\ Table'
         /\ table'[id] = row /\ \A i \in Ids : i # id => table'[i] = table[i]
<1>1. table = [i \in Ids |-> table[i]] /\ Table
  BY DEF IInv
<1>2. table' = [i \in Ids |-> table'[i]] /\ table'[id] = row
      /\ \A i \in Ids : i # id => table'[i] = table[i]
  BY <1>1
<1>3. ASSUME NEW i \in Ids PROVE table'[i] = NoRow \/ Saved(table'[i])
  <2>1. CASE i = id
    BY <1>2, <2>1
  <2>2. CASE i # id
    <3>1. table'[i] = table[i]
      BY <1>2, <2>2
    <3> QED BY <1>1, <3>1 DEF Table
  <2> QED BY <2>1, <2>2
<1>4. Table'
  BY <1>3 DEF Table, NoRow, Saved
<1> QED BY <1>2, <1>4

(* What the save of a handler puts into the table is what it holds.         *)
LEMMA WritesWhatItHolds ==
  ASSUME NEW h, NEW old, Checked(h), h.pc = "write"
  PROVE  LET row == Written(h, old)
         IN /\ Saved(row) /\ row.policy = Policy(h.form) /\ ValidForm(h.form)
            /\ Connection(row) = [type |-> h.form.type, url |-> Cleaned(h.form.url), key |-> h.key]
<1>1. ValidForm(h.form)
  BY DEF Checked
<1> QED BY <1>1 DEF Written, Saved, Connection

Enters(i) ==
  table'[i].kind = "row" /\ (Row(i) => [table[i] EXCEPT !.enabled = TRUE] #
                                         [table'[i] EXCEPT !.enabled = TRUE])
Vouched(i) ==
  \E q \in Requests : /\ request[q].pc = "write"
                      /\ Tried(request[q]) = Connection(table'[i])
                      /\ ValidForm(request[q].form)
                      /\ table'[i].policy = Policy(request[q].form)

(* What every step owes: the invariant, and a voucher for what it enters.   *)
Sound == IInv' /\ \A i \in Ids : Enters(i) => Vouched(i)

LEMMA TableStays ==
  ASSUME table' = table
  PROVE  \A i \in Ids : Enters(i) => Vouched(i)
BY DEF Enters, Row

(* The steps of a handler that leave the table alone.                       *)
LEMMA HandlerSteps ==
  ASSUME IInv, NEW q \in Requests,
         \/ ProbePasses(q) \/ ProbeFails(q)
         \/ \E f \in Forms : StartCreate(q, f) \/ \E id \in Ids : StartUpdate(q, id, f)
                                                                 \/ StartTest(q, id, f)
         \/ \E id \in Ids : ToggleReads(q, id)
  PROVE  Sound
<1>1. ASSUME NEW h, request' = [request EXCEPT ![q] = h], table' = table,
             h.pc = "idle" \/ Toggle(h) \/ Checked(h)
      PROVE  Sound
  <2>1. request' = [p \in Requests |-> request'[p]] /\ Handling'
    BY <1>1, HandlerMoves
  <2>2. table' = [i \in Ids |-> table'[i]] /\ Table'
    BY <1>1 DEF IInv, Table, Saved
  <2> QED BY <1>1, <2>1, <2>2, TableStays DEF Sound, IInv
<1>2. CASE ProbePasses(q)
  <2>1. request[q].pc = "probe" /\ table' = table
    BY <1>2 DEF ProbePasses
  <2>2. Checked(request[q])
    BY <2>1 DEF IInv, Handling, Toggle
  <2>3. CASE request' = [request EXCEPT ![q] = Free]
    BY <1>1, <2>1, <2>3 DEF Free
  <2>4. CASE request[q].op # "test" /\ request' = [request EXCEPT ![q].pc = "write"]
    <3> DEFINE h == [request[q] EXCEPT !.pc = "write"]
    <3>1. h.op = request[q].op /\ h.form = request[q].form /\ h.id = request[q].id
          /\ h.pc = "write" /\ Submit(h)
      BY <2>2 DEF Checked, Submit
    <3>2. request' = [request EXCEPT ![q] = h]
      BY <2>4
    <3> HIDE DEF h
    <3>3. Checked(h)
      BY <2>2, <2>4, <3>1 DEF Checked
    <3> QED BY <1>1, <2>1, <3>2, <3>3
  <2> QED BY <1>2, <2>3, <2>4 DEF ProbePasses
<1>3. CASE ProbeFails(q)
  BY <1>1, <1>3 DEF ProbeFails, Free
<1>4. ASSUME NEW f \in Forms, StartCreate(q, f) PROVE Sound
  <2> DEFINE h == [pc |-> "probe", op |-> "create", id |-> 0, form |-> f, key |-> f.key,
                   enabled |-> TRUE]
  <2>1. ValidForm(f) /\ table' = table /\ request' = [request EXCEPT ![q] = h]
    BY <1>4 DEF StartCreate, Begin
  <2>2. Checked(h)
    BY <2>1 DEF Checked, Submit
  <2> HIDE DEF h
  <2> QED BY <1>1, <2>1, <2>2
<1>5. ASSUME NEW f \in Forms, NEW id \in Ids, StartUpdate(q, id, f) PROVE Sound
  <2> DEFINE h == [pc |-> "probe", op |-> "update", id |-> id, form |-> f, key |-> Resolved(id, f),
                   enabled |-> table[id].enabled]
  <2>1. ValidForm(f) /\ table' = table /\ request' = [request EXCEPT ![q] = h]
    BY <1>5 DEF StartUpdate, Begin
  <2>2. Checked(h)
    BY <2>1 DEF Checked, Submit
  <2> HIDE DEF h
  <2> QED BY <1>1, <2>1, <2>2
<1>6. ASSUME NEW f \in Forms, NEW id \in Ids, StartTest(q, id, f) PROVE Sound
  <2> DEFINE h == [pc |-> "probe", op |-> "test", id |-> id, form |-> f,
                   key |-> IF Row(id) THEN Resolved(id, f) ELSE f.key, enabled |-> TRUE]
  <2>1. table' = table /\ request' = [request EXCEPT ![q] = h]
    BY <1>6 DEF StartTest, Begin
  <2>2. Checked(h)
    BY DEF Checked, Submit
  <2> HIDE DEF h
  <2> QED BY <1>1, <2>1, <2>2
<1>7. ASSUME NEW id \in Ids, ToggleReads(q, id) PROVE Sound
  <2> DEFINE h == [pc |-> "toggle", id |-> id, enabled |-> ~table[id].enabled]
  <2>1. table' = table /\ request' = [request EXCEPT ![q] = h]
    BY <1>7 DEF ToggleReads, Begin
  <2>2. Toggle(h)
    BY DEF Toggle
  <2> HIDE DEF h
  <2> QED BY <1>1, <2>1, <2>2
<1> QED BY <1>2, <1>3, <1>4, <1>5, <1>6, <1>7

(* A save puts a row in, and the handler that does has vouched for it.      *)
LEMMA SaveSteps ==
  ASSUME IInv, NEW q \in Requests, Insert(q) \/ Update(q)
  PROVE  Sound
<1>1. request[q].pc = "write" /\ Checked(request[q])
  BY DEF Insert, Update, IInv, Handling, Toggle
<1>2. request' = [p \in Requests |-> request'[p]] /\ Handling'
  <2>1. request' = [request EXCEPT ![q] = Free] /\ Free.pc = "idle"
    BY DEF Insert, Update, Free
  <2> QED BY <2>1, HandlerMoves
<1>3. ASSUME NEW id \in Ids, NEW old,
             table' = [table EXCEPT ![id] = Written(request[q], old)]
      PROVE  Sound
  <2> DEFINE row == Written(request[q], old)
  <2>1. /\ Saved(row) /\ row.policy = Policy(request[q].form) /\ ValidForm(request[q].form)
        /\ Connection(row) = Tried(request[q])
    BY <1>1, WritesWhatItHolds DEF Tried
  <2>2. table' = [table EXCEPT ![id] = row]
    BY <1>3
  <2> HIDE DEF row
  <2>3. table' = [i \in Ids |-> table'[i]] /\ Table'
        /\ table'[id] = row /\ \A i \in Ids : i # id => table'[i] = table[i]
    BY <2>1, <2>2, RowChanges
  <2>4. Vouched(id)
    BY <1>1, <2>1, <2>3 DEF Vouched
  <2>5. \A i \in Ids : i # id => ~Enters(i)
    BY <2>3 DEF Enters, Row
  <2> QED BY <1>2, <2>3, <2>4, <2>5 DEF Sound, IInv
<1>4. CASE Insert(q)
  BY <1>3, <1>4 DEF Insert
<1>5. CASE Update(q) /\ Row(request[q].id)
  <2>1. request[q].id \in Ids
    BY <1>1, <1>5 DEF Update, Checked
  <2>2. table' = [table EXCEPT ![request[q].id] = Written(request[q], table[request[q].id])]
    BY <1>5 DEF Update
  <2> QED BY <1>3, <2>1, <2>2
<1>6. CASE Update(q) /\ ~Row(request[q].id)
  <2>1. table' = table
    BY <1>6 DEF Update
  <2>2. table' = [i \in Ids |-> table'[i]] /\ Table'
    BY <2>1 DEF IInv, Table, Saved
  <2> QED BY <1>2, <2>1, <2>2, TableStays DEF Sound, IInv
<1> QED BY <1>4, <1>5, <1>6

LEMMA OneColumn ==
  ASSUME NEW row, NEW on, NEW any, Saved(row)
  PROVE  /\ Saved([row EXCEPT !.enabled = on])
         /\ [[row EXCEPT !.enabled = on] EXCEPT !.enabled = any] = [row EXCEPT !.enabled = any]
<1>1. PICK t, u, k, e, p :
        row = [kind |-> "row", type |-> t, url |-> u, key |-> k, enabled |-> e, policy |-> p]
  BY DEF Saved
<1>2. [row EXCEPT !.enabled = on]
        = [kind |-> "row", type |-> t, url |-> u, key |-> k, enabled |-> on, policy |-> p]
  BY <1>1
<1>3. [[row EXCEPT !.enabled = on] EXCEPT !.enabled = any] = [row EXCEPT !.enabled = any]
  BY <1>1
<1> QED BY <1>2, <1>3 DEF Saved

(* A toggle changes the one column the property looks past.                 *)
LEMMA ToggleSteps ==
  ASSUME IInv, NEW q \in Requests, ToggleWrites(q)
  PROVE  Sound
<1> DEFINE id == request[q].id
<1>1. request[q].pc = "toggle" /\ id \in Ids
  BY DEF ToggleWrites, IInv, Handling, Checked, Toggle
<1>2. request' = [p \in Requests |-> request'[p]] /\ Handling'
  <2>1. request' = [request EXCEPT ![q] = Free] /\ Free.pc = "idle"
    BY DEF ToggleWrites, Free
  <2> QED BY <2>1, HandlerMoves
<1>3. CASE ~Row(id)
  <2>1. table' = table
    BY <1>3 DEF ToggleWrites
  <2>2. table' = [i \in Ids |-> table'[i]] /\ Table'
    BY <2>1 DEF IInv, Table, Saved
  <2> QED BY <1>2, <2>1, <2>2, TableStays DEF Sound, IInv
<1>4. CASE Row(id)
  <2> DEFINE row == [table[id] EXCEPT !.enabled = request[q].enabled]
  <2>1. table' = [table EXCEPT ![id] = row]
    BY <1>4 DEF ToggleWrites
  <2>2. Saved(table[id])
    BY <1>1, <1>4 DEF IInv, Table, Row, NoRow
  <2>3. Saved(row) /\ [row EXCEPT !.enabled = TRUE] = [table[id] EXCEPT !.enabled = TRUE]
    BY <2>2, OneColumn
  <2> HIDE DEF row, id
  <2>4. table' = [i \in Ids |-> table'[i]] /\ Table'
        /\ table'[id] = row /\ \A i \in Ids : i # id => table'[i] = table[i]
    BY <1>1, <2>1, <2>3, RowChanges
  <2>5. \A i \in Ids : ~Enters(i)
    BY <1>4, <2>3, <2>4 DEF Enters, Row
  <2> QED BY <1>2, <2>4, <2>5 DEF Sound, IInv
<1> QED BY <1>3, <1>4

LEMMA OtherSteps ==
  ASSUME IInv, (\E id \in Ids : Delete(id)) \/ (\E h \in Hosts, r \in Remotes : RemoteChanges(h, r))
               \/ UNCHANGED formVars
  PROVE  Sound
<1>1. request' = [p \in Requests |-> request'[p]] /\ Handling'
  <2>1. request' = request
    BY DEF Delete, RemoteChanges, formVars
  <2> QED BY <2>1 DEF IInv, Handling, Toggle, Checked, Submit
<1>2. ASSUME NEW id \in Ids, Delete(id) PROVE Sound
  <2>1. table' = [table EXCEPT ![id] = NoRow]
    BY <1>2 DEF Delete
  <2>2. table' = [i \in Ids |-> table'[i]] /\ Table'
        /\ table'[id] = NoRow /\ \A i \in Ids : i # id => table'[i] = table[i]
    BY <2>1, RowChanges
  <2>3. ASSUME NEW i \in Ids PROVE ~Enters(i)
    <3>1. CASE i = id
      BY <2>2, <3>1 DEF Enters, NoRow
    <3>2. CASE i # id
      <4>1. table'[i] = table[i]
        BY <2>2, <3>2
      <4> QED BY <4>1 DEF Enters, Row
    <3> QED BY <3>1, <3>2
  <2> QED BY <1>1, <2>2, <2>3 DEF Sound, IInv
<1>3. CASE (\E h \in Hosts, r \in Remotes : RemoteChanges(h, r)) \/ UNCHANGED formVars
  <2>1. table' = table
    BY <1>3 DEF RemoteChanges, formVars
  <2>2. table' = [i \in Ids |-> table'[i]] /\ Table'
    BY <2>1 DEF IInv, Table, Saved
  <2> QED BY <1>1, <2>1, <2>2, TableStays DEF Sound, IInv
<1> QED BY <1>2, <1>3

LEMMA EveryStep ==
  ASSUME IInv, [FormNext]_formVars
  PROVE  Sound
<1>1. ASSUME NEW q \in Requests,
             \/ ProbePasses(q) \/ ProbeFails(q) \/ Insert(q) \/ Update(q) \/ ToggleWrites(q)
             \/ \E f \in Forms : \/ StartCreate(q, f)
                                 \/ \E id \in Ids : StartUpdate(q, id, f) \/ StartTest(q, id, f)
             \/ \E id \in Ids : ToggleReads(q, id)
      PROVE  Sound
  BY <1>1, HandlerSteps, SaveSteps, ToggleSteps
<1> QED BY <1>1, OtherSteps DEF FormNext
-----------------------------------------------------------------------------
(* Type, address, key and controls enter the table as one combination that  *)
(* a handler validated as a whole and has probed, however many saves,       *)
(* toggles, deletes and changes of the *arr fall into its probe             *)
(* (services/instance_submit.py:428-526).                                   *)
THEOREM PairsAreVerified == FormSpec => VerifiedPair
<1> DEFINE Owed == \A i \in Ids : Enters(i) => Vouched(i)
<1>1. IInv /\ [FormNext]_formVars => IInv'
  BY EveryStep DEF Sound
<1>2. IInv /\ [FormNext]_formVars => [Owed]_formVars
  BY EveryStep DEF Sound
<1>3. FormSpec => [][Owed]_formVars
  BY <1>1, <1>2, InitHolds, PTL DEF FormSpec
<1> QED BY <1>3 DEF VerifiedPair, Enters, Vouched
================================================================================
