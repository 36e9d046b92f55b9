---------------------------- MODULE PrekeysProofs ----------------------------
(***************************************************************************)
(* Theorems about Prekeys, for any contacts, pool sizes and bounds.        *)
(***************************************************************************)
EXTENDS Prekeys, FiniteSetTheorems, TLAPS

-----------------------------------------------------------------------------
(* The inductive invariant.                                                *)

\* A contact has a key only once it has its bundle, and a message only once it
\* has sent it.
RequestsSound ==
    \A c \in Contacts :
        /\ request[c].pc \in {"new", "counted"} => request[c].id = 0
        /\ request[c].id # 0 => request[c].batch # NoBatch
        /\ message[c] # "none" => request[c].pc = "sent"

\* A reservation is held by a contact that has been given that very key.
ReservedFor ==
    \A i \in KeyIds : LET c == rows[i].by IN
        c # NoContact => request[c].id = i /\ request[c].batch = rows[i].batch

\* A key that a message uses is bound to that message, or used, or gone.
KeyKept ==
    \A c \in Contacts :
        InInbox(c) /\ Present(c) =>
            rows[request[c].id].msg = c \/ rows[request[c].id].used

\* A batch that is about to be uploaded is newer than all the server knows.
BatchesInOrder ==
    /\ \A i \in KeyIds : rows[i].batch <= batch
    /\ \A c \in Contacts : request[c].batch <= batch
    /\ rep.pc = "read" => batch < MaxBatches
    /\ rep.pc = "stored" =>
          /\ \A i \in KeyIds : rows[i].batch < batch
          /\ \A c \in Contacts : request[c].batch < batch

\* What the rows, the requests and the messages say of each other.
Ledger == RequestsSound /\ ReservedFor /\ BoundAsReserved /\ KeyKept /\ KeyServesOne

IInv == TypeOK /\ BatchesInOrder /\ Ledger

-----------------------------------------------------------------------------
(* Types.                                                                  *)

LEMMA FreeCount ==
    Cardinality(Free) \in 0..MaxKeyId
<1>1. IsFiniteSet(KeyIds) /\ Cardinality(KeyIds) = MaxKeyId
  BY FS_Interval, PrekeysAssumption DEF KeyIds
<1>2. Free \subseteq KeyIds
  BY DEF Free
<1>3. IsFiniteSet(Free) /\ Cardinality(Free) <= MaxKeyId
  BY <1>1, <1>2, FS_Subset
<1>4. Cardinality(Free) \in Nat
  BY <1>3, FS_CardinalityType
<1> QED
  BY <1>3, <1>4, PrekeysAssumption

LEMMA NewIdsType ==
    ASSUME NEW keys
    PROVE  NewIds(keys) \subseteq KeyIds
BY DEF NewIds

LEMMA FreshType ==
    ASSUME NEW b \in Batches \cup {NoBatch}
    PROVE  Fresh(b) \in Rows /\ NoRow \in Rows
BY DEF Fresh, NoRow, Rows, NoBatch

LEMMA RowEdits ==
    ASSUME NEW r \in Rows, NEW c \in Contacts
    PROVE  /\ Bound(r, c) \in Rows
           /\ [r EXCEPT !.by = c, !.expiry = "running"] \in Rows
           /\ [Fresh(r.batch) EXCEPT !.used = TRUE] \in Rows
BY DEF Bound, Fresh, Rows

LEMMA RequestEdits ==
    ASSUME NEW q \in Requests, NEW i \in KeyIds, NEW b \in Batches \cup {NoBatch}
    PROVE  [q EXCEPT !.pc = "issued", !.id = i, !.batch = b] \in Requests
BY DEF Requests

LEMMA RequestMoves ==
    ASSUME NEW q \in Requests, NEW n \in 0..MaxKeyId
    PROVE  /\ [q EXCEPT !.pc = "counted", !.free = n] \in Requests
           /\ [q EXCEPT !.pc = "issued"] \in Requests
           /\ [q EXCEPT !.pc = "sent"] \in Requests
           /\ [q EXCEPT !.pc = "refused"] \in Requests
BY DEF Requests

\* Binding a row changes its message and its expiry only.
LEMMA BoundFields ==
    ASSUME NEW r \in Rows, NEW c \in Contacts
    PROVE  /\ Bound(r, c).batch = r.batch /\ Bound(r, c).by = r.by
           /\ Bound(r, c).used = r.used /\ Bound(r, c).msg = c
           /\ Bound(r, c).expiry = "none"
BY DEF Bound, Rows

LEMMA Unbinding ==
    ASSUME NEW r \in Rows
    PROVE  [r EXCEPT !.msg = NoContact] \in Rows
BY DEF Rows

LEMMA IdleTypes ==
    /\ NoBoot \in [pc : {"idle", "read", "stored"}, seen : Keyrings]
    /\ NoRep \in [pc : {"idle", "read", "stored"}, seen : Keyrings,
                  new : SUBSET KeyIds]
BY DEF NoBoot, NoRep, NoKeys, Keyrings

LEMMA ReplenishType ==
    ASSUME TypeOK, BatchesInOrder, Replenish
    PROVE  TypeOK'
<1> USE DEF Batches, NoBatch
<1>1. CASE ReplenishRead
  BY <1>1, NewIdsType DEF ReplenishRead, TypeOK, contacts, device, bounds
<1>2. CASE ReplenishStore
  <2>1. batch' \in Batches /\ rep.new \subseteq KeyIds /\ rep.seen \in Keyrings
    BY <1>2, PrekeysAssumption DEF ReplenishStore, TypeOK, BatchesInOrder
  <2>2. priv' \in Keyrings
    BY <1>2, <2>1 DEF ReplenishStore, Keyrings
  <2>3. rep' \in [pc : {"idle", "read", "stored"}, seen : Keyrings,
                  new : SUBSET KeyIds]
    BY <1>2, <2>1 DEF ReplenishStore, NoRep, NoKeys, Keyrings
  <2> QED
    BY <1>2, <2>1, <2>2, <2>3 DEF ReplenishStore, TypeOK, contacts, bounds
<1>3. CASE ReplenishUpload
  <2>1. rows' \in [KeyIds -> Rows]
    BY <1>3, FreshType DEF ReplenishUpload, TypeOK
  <2>2. rep' \in [pc : {"idle", "read", "stored"}, seen : Keyrings,
                  new : SUBSET KeyIds]
    BY <1>3 DEF ReplenishUpload, NoRep, NoKeys, Keyrings
  <2> QED
    BY <1>3, <2>1, <2>2 DEF ReplenishUpload, TypeOK, contacts, device, bounds
<1>4. CASE ReplenishFails
  BY <1>4 DEF ReplenishFails, TypeOK, NoRep, NoKeys, Keyrings, contacts, device, bounds
<1>5. CASE LoseLow
  BY <1>5 DEF LoseLow, TypeOK, contacts, device, bounds
<1> QED
  BY <1>1, <1>2, <1>3, <1>4, <1>5 DEF Replenish

LEMMA RetentionType ==
    ASSUME TypeOK, Retention
    PROVE  TypeOK'
<1>1. ASSUME NEW i \in KeyIds, ExpireReservation(i)
      PROVE  TypeOK'
  <2>1. rows[i] \in Rows
    BY DEF TypeOK
  <2>2. [rows[i] EXCEPT !.expiry = "over"] \in Rows
    BY <2>1 DEF Rows
  <2>3. rows' \in [KeyIds -> Rows]
    BY <1>1, <2>2 DEF ExpireReservation, TypeOK
  <2> QED
    BY <1>1, <2>3 DEF ExpireReservation, TypeOK, contacts, refill, device, bounds
<1>2. ASSUME NEW i \in KeyIds, PurgeUsed(i)
      PROVE  TypeOK'
  BY <1>2, FreshType DEF PurgeUsed, TypeOK, NoBatch, contacts, refill, device, bounds
<1>3. CASE ClearExpired
  <2>1. \A i \in KeyIds : Fresh(rows[i].batch) \in Rows
    BY FreshType DEF TypeOK, Rows
  <2> QED
    BY <1>3, <2>1 DEF ClearExpired, TypeOK, contacts, refill, device, bounds
<1> QED
  BY <1>1, <1>2, <1>3 DEF Retention

LEMMA AckType ==
    ASSUME TypeOK, NEW c \in Contacts, AckOnServer(c)
    PROVE  /\ rows' \in [KeyIds -> Rows]
           /\ message' \in [Contacts -> {"none", "pending", "delivered", "read",
                                         "purged"}]
<1>1. ASSUME ConsumeKey(c)
      PROVE  rows' \in [KeyIds -> Rows]
  <2>1. \A i \in KeyIds : rows[i] \in Rows
    BY DEF TypeOK
  <2>2. \A i \in KeyIds : [Fresh(rows[i].batch) EXCEPT !.used = TRUE] \in Rows
    BY <2>1, RowEdits
  <2> QED
    BY <1>1, <2>1, <2>2 DEF ConsumeKey
<1> QED
  BY <1>1 DEF AckOnServer, TypeOK

LEMMA ContactType ==
    ASSUME TypeOK, NEW c \in Contacts, Contact(c)
    PROVE  TypeOK'
<1> USE DEF contacts, refill, device, bounds
<1>0. /\ [request[c] EXCEPT !.pc = "issued"] \in Requests
      /\ [request[c] EXCEPT !.pc = "sent"] \in Requests
      /\ [request[c] EXCEPT !.pc = "refused"] \in Requests
  BY FreeCount, RequestMoves DEF TypeOK
<1>1. CASE CountFree(c)
  <2>1. [request[c] EXCEPT !.pc = "counted", !.free = Cardinality(Free)] \in Requests
    BY FreeCount, RequestMoves DEF TypeOK
  <2>2. request' \in [Contacts -> Requests]
    BY <1>1, <2>1 DEF CountFree, TypeOK
  <2> QED
    BY <1>1, <2>2 DEF CountFree, TypeOK
<1>2. CASE IssueKey(c)
  <2>1. PICK i \in Free :
          /\ rows' = [rows EXCEPT ![i] = [@ EXCEPT !.by = c, !.expiry = "running"]]
          /\ request' = [request EXCEPT ![c] =
                           [@ EXCEPT !.pc = "issued", !.id = i,
                                     !.batch = rows[i].batch]]
    BY <1>2 DEF IssueKey
  <2>2. i \in KeyIds
    BY DEF Free
  <2>3. rows' \in [KeyIds -> Rows]
    BY <2>1, <2>2, RowEdits DEF TypeOK
  <2>4. request' \in [Contacts -> Requests]
    <3>1. rows[i].batch \in Batches \cup {NoBatch}
      BY <2>2 DEF TypeOK, Rows
    <3>2. [request[c] EXCEPT !.pc = "issued", !.id = i, !.batch = rows[i].batch]
            \in Requests
      BY <2>2, <3>1, RequestEdits DEF TypeOK
    <3> QED
      BY <2>1, <3>2 DEF TypeOK
  <2>5. low' \in BOOLEAN
    BY <1>2 DEF IssueKey
  <2> QED
    BY <1>2, <2>3, <2>4, <2>5 DEF IssueKey, TypeOK
<1>3. CASE IssueNoKey(c)
  <2>1. low' \in BOOLEAN
    BY <1>3 DEF IssueNoKey
  <2>2. request' \in [Contacts -> Requests]
    BY <1>3, <1>0 DEF IssueNoKey, TypeOK
  <2> QED
    BY <1>3, <2>1, <2>2 DEF IssueNoKey, TypeOK
<1>4. CASE Send(c)
  <2>1. rows' \in [KeyIds -> Rows]
    BY <1>4, RowEdits DEF Send, TypeOK
  <2>2. request' \in [Contacts -> Requests]
    BY <1>4, <1>0 DEF Send, TypeOK
  <2> QED
    BY <1>4, <2>1, <2>2 DEF Send, TypeOK
<1>5. CASE SendRefused(c)
  <2>1. request' \in [Contacts -> Requests]
    BY <1>5, <1>0 DEF SendRefused, TypeOK
  <2> QED
    BY <1>5, <2>1 DEF SendRefused, TypeOK
<1>6. CASE BootRead(c)
  BY <1>6 DEF BootRead, TypeOK, NoBoot, NoKeys, Keyrings
<1>7. CASE StoreKeys(c)
  BY <1>7 DEF StoreKeys, TypeOK, NoBoot, NoKeys, Keyrings
<1>8. CASE Settle(c)
  BY <1>8 DEF Settle, TypeOK, NoBoot, NoKeys, Keyrings
<1>9. CASE Ack(c)
  BY <1>9, AckType DEF Ack, TypeOK
<1>10. CASE AckResponseLost(c)
  BY <1>10, AckType DEF AckResponseLost, TypeOK
<1>11. CASE MarkMessageRead(c)
  BY <1>11 DEF MarkMessageRead, TypeOK
<1>12. CASE PurgeMessage(c)
  <2>1. \A i \in KeyIds : rows[i] \in Rows /\ [rows[i] EXCEPT !.msg = NoContact] \in Rows
    BY Unbinding DEF TypeOK
  <2>2. rows' \in [KeyIds -> Rows]
    BY <1>12, <2>1 DEF PurgeMessage
  <2> QED
    BY <1>12, <2>2 DEF PurgeMessage, TypeOK
<1> QED
  BY <1>1, <1>2, <1>3, <1>4, <1>5, <1>6, <1>7, <1>8, <1>9, <1>10, <1>11, <1>12
  DEF Contact

LEMMA TypeStep ==
    ASSUME TypeOK, BatchesInOrder, [Next]_vars
    PROVE  TypeOK'
<1>1. CASE Crash
  <2> DEFINE Boots == [pc : {"idle", "read", "stored"}, seen : Keyrings]
  <2>0. NoBoot \in Boots /\ boot' = [c \in Contacts |-> NoBoot]
    BY <1>1, IdleTypes DEF Crash
  <2>1. boot' \in [Contacts -> Boots]
    <3> HIDE DEF Boots
    <3> QED  BY <2>0
  <2>2. rep' \in [pc : {"idle", "read", "stored"}, seen : Keyrings,
                  new : SUBSET KeyIds]
    BY <1>1, IdleTypes DEF Crash
  <2> QED
    <3>1. /\ UNCHANGED <<rows, request, message, priv, processed, pendingAck,
                         opened, batch, purges>>
          /\ low' = FALSE /\ crashes' \in Nat
      BY <1>1 DEF Crash, TypeOK, contacts
    <3> QED
      BY <2>1, <2>2, <3>1 DEF TypeOK
<1>2. CASE UNCHANGED vars
  BY <1>2 DEF vars, TypeOK
<1> QED
  BY <1>1, <1>2, ContactType, ReplenishType, RetentionType DEF Next

-----------------------------------------------------------------------------
(* Every step keeps the batches in order.                                  *)

LEMMA BatchesStep ==
    ASSUME IInv, [Next]_vars
    PROVE  BatchesInOrder'
<1> USE DEF IInv, BatchesInOrder, Batches, NoBatch
<1>1. ASSUME UNCHANGED <<batch, rep>>,
             \A i \in KeyIds : rows'[i].batch \in {rows[i].batch, NoBatch},
             \A c \in Contacts : request'[c].batch = request[c].batch
      PROVE  BatchesInOrder'
  <2>1. batch \in Nat /\ batch > 0
    BY PrekeysAssumption DEF TypeOK
  <2> QED
    BY <1>1, <2>1
<1>2. ASSUME NEW c \in Contacts, Contact(c)
      PROVE  BatchesInOrder'
  <2> USE DEF contacts, refill, device, bounds
  <2>1. CASE CountFree(c)
    BY <1>1, <2>1 DEF CountFree, TypeOK, Requests
  <2>2. CASE IssueKey(c)
    <3>1. PICK i \in KeyIds :
            /\ rows' = [rows EXCEPT ![i] = [@ EXCEPT !.by = c, !.expiry = "running"]]
            /\ request' = [request EXCEPT ![c] =
                             [@ EXCEPT !.pc = "issued", !.id = i,
                                       !.batch = rows[i].batch]]
      BY <2>2 DEF IssueKey, Free
    <3>2. \A j \in KeyIds : rows'[j].batch = rows[j].batch
      BY <3>1 DEF TypeOK, Rows
    <3>3. \A d \in Contacts : request'[d].batch = IF d = c THEN rows[i].batch
                                                  ELSE request[d].batch
      BY <3>1 DEF TypeOK, Requests
    <3>4. UNCHANGED <<batch, rep>>
      BY <2>2 DEF IssueKey
    <3> QED
      BY <3>2, <3>3, <3>4 DEF TypeOK
  <2>3. CASE IssueNoKey(c)
    BY <1>1, <2>3 DEF IssueNoKey, TypeOK, Requests
  <2>4. CASE Send(c)
    <3>1. \A i \in KeyIds : Bound(rows[i], c).batch = rows[i].batch
      BY DEF Bound, TypeOK, Rows
    <3>2. \A i \in KeyIds : rows'[i].batch = rows[i].batch
      BY <2>4, <3>1 DEF Send
    <3>3. \A d \in Contacts : request'[d].batch = request[d].batch
      BY <2>4 DEF Send, TypeOK, Requests
    <3> QED
      BY <1>1, <2>4, <3>2, <3>3 DEF Send
  <2>5. CASE SendRefused(c)
    BY <1>1, <2>5 DEF SendRefused, TypeOK, Requests
  <2>6. CASE BootRead(c) \/ StoreKeys(c) \/ Settle(c) \/ MarkMessageRead(c)
    BY <1>1, <2>6 DEF BootRead, StoreKeys, Settle, MarkMessageRead
  <2>7. CASE Ack(c) \/ AckResponseLost(c)
    <3>1. \A i \in KeyIds : [Fresh(rows[i].batch) EXCEPT !.used = TRUE].batch
                               = rows[i].batch
      BY DEF Fresh
    <3>2. \A i \in KeyIds : rows'[i].batch = rows[i].batch
      BY <2>7, <3>1 DEF Ack, AckResponseLost, AckOnServer, ConsumeKey
    <3> QED
      BY <1>1, <2>7, <3>2 DEF Ack, AckResponseLost
  <2>8. CASE PurgeMessage(c)
    <3>1. \A i \in KeyIds : rows'[i].batch = rows[i].batch
      BY <2>8 DEF PurgeMessage, TypeOK, Rows
    <3> QED
      BY <1>1, <2>8, <3>1 DEF PurgeMessage
  <2> QED
    BY <1>2, <2>1, <2>2, <2>3, <2>4, <2>5, <2>6, <2>7, <2>8 DEF Contact
<1>3. CASE ReplenishRead \/ ReplenishFails \/ LoseLow \/ Crash
  BY <1>3 DEF ReplenishRead, ReplenishFails, LoseLow, Crash, NoRep, contacts, device,
              bounds
<1>4. CASE ReplenishStore
  <2>1. batch' = batch + 1 /\ rep'.pc = "stored" /\ UNCHANGED <<rows, request>>
    BY <1>4 DEF ReplenishStore, NoRep, contacts
  <2>2. /\ batch \in Nat /\ \A i \in KeyIds : rows[i].batch \in Nat
        /\ \A c \in Contacts : request[c].batch \in Nat
    BY PrekeysAssumption DEF TypeOK, Rows, Requests
  <2> QED
    BY <2>1, <2>2
<1>5. CASE ReplenishUpload
  <2>1. /\ rep.pc = "stored" /\ rep'.pc = "idle" /\ UNCHANGED <<batch, request>>
        /\ \A i \in KeyIds : rows'[i].batch \in {batch, rows[i].batch, NoBatch}
    BY <1>5 DEF ReplenishUpload, NoRep, NoRow, Fresh, contacts
  <2>2. batch \in Nat
    BY PrekeysAssumption DEF TypeOK
  <2> QED
    BY <2>1, <2>2
<1>6. CASE Retention
  <2>1. \A i \in KeyIds : rows'[i].batch \in {rows[i].batch, NoBatch}
    <3>1. ASSUME NEW k \in KeyIds, ExpireReservation(k) \/ PurgeUsed(k)
          PROVE  \A i \in KeyIds : rows'[i].batch \in {rows[i].batch, NoBatch}
      <4>1. rows[k] \in Rows /\ NoRow.batch = NoBatch
        BY DEF TypeOK, NoRow, Fresh
      <4>2. CASE ExpireReservation(k)
        BY <4>1, <4>2 DEF ExpireReservation, TypeOK, Rows
      <4>3. CASE PurgeUsed(k)
        BY <4>1, <4>3 DEF PurgeUsed, TypeOK
      <4> QED
        BY <3>1, <4>2, <4>3
    <3>2. CASE ClearExpired
      <4>1. \A b : Fresh(b).batch = b
        BY DEF Fresh
      <4>2. \A i \in KeyIds : rows'[i] \in {rows[i], Fresh(rows[i].batch)}
        BY <3>2 DEF ClearExpired
      <4> QED
        BY <4>1, <4>2
    <3> QED
      BY <1>6, <3>1, <3>2 DEF Retention
  <2>2. UNCHANGED <<batch, rep, request>>
    BY <1>6 DEF Retention, ExpireReservation, PurgeUsed, ClearExpired, refill, contacts
  <2> QED
    BY <1>1, <2>1, <2>2
<1>7. CASE UNCHANGED vars
  BY <1>7 DEF vars
<1> QED
  BY <1>2, <1>3, <1>4, <1>5, <1>6, <1>7 DEF Next, Replenish

-----------------------------------------------------------------------------
(* Every step keeps the ledger.  Each lemma first says, row by row and     *)
(* contact by contact, what its action does.                               *)

LEMMA LedgerUnmoved ==
    ASSUME Ledger, UNCHANGED <<rows, request, message>>
    PROVE  Ledger'
BY DEF Ledger, RequestsSound, ReservedFor, BoundAsReserved, KeyKept, KeyServesOne,
       InInbox, Present

\* A request that moves on and keeps its key, before a message is sent.
LEMMA LedgerRequest ==
    ASSUME TypeOK, Ledger, NEW c \in Contacts, UNCHANGED <<rows, message>>,
           request[c].pc # "sent", request'[c].pc # "new",
           request'[c].pc = "counted" => request[c].id = 0,
           \A d \in Contacts : d # c => request'[d] = request[d],
           request'[c].id = request[c].id, request'[c].batch = request[c].batch
    PROVE  Ledger'
<1>1. \A d \in Contacts : request'[d].id = request[d].id
                            /\ request'[d].batch = request[d].batch
  OBVIOUS
<1>2. RequestsSound'
  BY <1>1 DEF Ledger, RequestsSound
<1>3. ReservedFor' /\ BoundAsReserved'
  <2>1. \A i \in KeyIds : {rows[i].by, rows[i].msg} \subseteq Contacts \cup {NoContact}
    BY DEF TypeOK, Rows
  <2> QED
    BY <1>1, <2>1 DEF Ledger, ReservedFor, BoundAsReserved
<1>4. KeyKept' /\ KeyServesOne'
  BY <1>1 DEF Ledger, KeyKept, KeyServesOne, InInbox, Present
<1> QED
  BY <1>2, <1>3, <1>4 DEF Ledger

\* What a row refers to.
LEMMA RowRefs ==
    ASSUME TypeOK, NEW i \in KeyIds
    PROVE  /\ rows[i].by \in Contacts \cup {NoContact}
           /\ rows[i].msg \in Contacts \cup {NoContact}
           /\ rows[i].used \in BOOLEAN
           /\ i # 0
BY DEF TypeOK, Rows, KeyIds

LEMMA LedgerIssue ==
    ASSUME TypeOK, Ledger, NEW c \in Contacts, IssueKey(c)
    PROVE  Ledger'
<1> USE DEF Ledger
<1>1. PICK i \in Free :
        /\ rows' = [rows EXCEPT ![i] = [@ EXCEPT !.by = c, !.expiry = "running"]]
        /\ request' = [request EXCEPT ![c] =
                         [@ EXCEPT !.pc = "issued", !.id = i,
                                   !.batch = rows[i].batch]]
  BY DEF IssueKey
<1>2. i \in KeyIds /\ Available(rows[i])
  BY DEF Free
<1>3. request[c].id = 0 /\ message[c] = "none" /\ message' = message
  BY DEF IssueKey, RequestsSound
<1>4. /\ \A j \in KeyIds : j # i => rows'[j] = rows[j]
      /\ rows'[i].batch = rows[i].batch /\ rows'[i].by = c
      /\ rows'[i].msg = NoContact /\ rows'[i].used = rows[i].used
  BY <1>1, <1>2 DEF TypeOK, Rows, Available
<1>5. /\ \A d \in Contacts : d # c => request'[d] = request[d]
      /\ request'[c].pc = "issued" /\ request'[c].id = i
      /\ request'[c].batch = rows[i].batch
  BY <1>1 DEF TypeOK, Requests
<1>6. \A j \in KeyIds : rows[j].by # c /\ rows[j].msg # c
  BY <1>3, RowRefs, PrekeysAssumption DEF ReservedFor, BoundAsReserved
<1>7. RequestsSound'
  BY <1>2, <1>3, <1>5 DEF RequestsSound, Available
<1>8. ReservedFor'
  BY <1>4, <1>5, <1>6, RowRefs DEF ReservedFor
<1>9. BoundAsReserved'
  BY <1>3, <1>4, <1>5, <1>6, RowRefs DEF BoundAsReserved
<1>10. KeyKept'
  <2> SUFFICES ASSUME NEW d \in Contacts, InInbox(d)', Present(d)'
               PROVE  (rows[request[d].id].msg = d \/ rows[request[d].id].used)'
    BY DEF KeyKept
  <2>1. d # c /\ InInbox(d) /\ request'[d] = request[d]
    BY <1>3, <1>5 DEF InInbox
  <2>2. request[d].id \in KeyIds
    BY <2>1 DEF Present, TypeOK, Requests
  <2>3. Present(d)
    BY <1>4, <2>1, <2>2 DEF Present
  <2>4. rows[request[d].id].msg = d \/ rows[request[d].id].used
    BY <2>1, <2>3 DEF KeyKept
  <2>5. request[d].id # i
    BY <1>2, <2>4, PrekeysAssumption DEF Available
  <2> QED
    BY <1>4, <2>1, <2>2, <2>4, <2>5
<1>11. KeyServesOne'
  BY <1>3, <1>5 DEF KeyServesOne, InInbox
<1> QED
  BY <1>7, <1>8, <1>9, <1>10, <1>11

LEMMA LedgerSend ==
    ASSUME TypeOK, Ledger, NEW c \in Contacts, Send(c)
    PROVE  Ledger'
<1> USE DEF Ledger
<1> DEFINE k == request[c].id
<1>1. /\ request[c].pc = "issued" /\ message[c] = "none"
      /\ k # 0 => Bindable(rows[k], c)
  BY DEF Send, RequestsSound
<1>2. k \in KeyIds \cup {0}
  BY DEF TypeOK, Requests
<1>3. /\ \A d \in Contacts : /\ d # c => request'[d] = request[d]
                             /\ d # c => message'[d] = message[d]
      /\ request'[c].pc = "sent" /\ request'[c].id = k
      /\ request'[c].batch = request[c].batch /\ message'[c] = "pending"
  BY DEF Send, TypeOK, Requests
<1>4. \A j \in KeyIds : /\ j # k => rows'[j] = rows[j]
                        /\ rows'[j].batch = rows[j].batch
                        /\ rows'[j].by = rows[j].by
                        /\ rows'[j].used = rows[j].used
                        /\ j = k => rows'[j].msg = c /\ rows'[j].expiry = "none"
  <2>1. \A j \in KeyIds : /\ rows[j] \in Rows
                          /\ rows'[j] = IF j = k THEN Bound(rows[j], c) ELSE rows[j]
    BY DEF Send, TypeOK
  <2> HIDE DEF k
  <2> QED
    BY <2>1, BoundFields
<1>5. k # 0 => Present(c)
  BY <1>1, <1>2, PrekeysAssumption DEF Bindable, ReservedFor, Present
<1>6. \A d \in Contacts :
         d # c /\ InInbox(d) /\ k # 0 =>
           <<request[d].id, request[d].batch>> # <<k, request[c].batch>>
  BY <1>1, <1>5, PrekeysAssumption DEF KeyKept, Present, Bindable
<1>7. RequestsSound'
  BY <1>1, <1>3 DEF RequestsSound
<1>8. ReservedFor'
  BY <1>3, <1>4, RowRefs DEF ReservedFor
<1>9. BoundAsReserved'
  <2> SUFFICES ASSUME NEW i \in KeyIds, rows'[i].msg # NoContact
               PROVE  LET d == rows'[i].msg IN
                        /\ request'[d].id = i /\ request'[d].batch = rows'[i].batch
                        /\ rows'[i].by = d /\ rows'[i].expiry = "none"
                        /\ ~rows'[i].used /\ message'[d] \in {"pending", "read"}
    BY DEF BoundAsReserved
  <2>1. CASE i = k
    BY <1>1, <1>3, <1>4, <1>5, <2>1, RowRefs DEF Bindable, Present
  <2>2. CASE i # k
    <3>1. rows'[i] = rows[i] /\ rows[i].msg \in Contacts
      BY <1>4, <2>2, RowRefs
    <3>2. rows[i].msg # c
      BY <1>1, <3>1, PrekeysAssumption DEF BoundAsReserved
    <3> QED
      BY <1>3, <3>1, <3>2, PrekeysAssumption DEF BoundAsReserved
  <2> QED
    BY <2>1, <2>2
<1>10. KeyKept'
  <2> SUFFICES ASSUME NEW d \in Contacts, InInbox(d)', Present(d)'
               PROVE  (rows[request[d].id].msg = d \/ rows[request[d].id].used)'
    BY DEF KeyKept
  <2>1. request'[d].id = request[d].id /\ request'[d].batch = request[d].batch
    BY <1>3
  <2>2. request[d].id \in KeyIds
    BY <2>1 DEF Present, TypeOK, Requests
  <2>3. CASE d = c
    BY <1>4, <2>1, <2>2, <2>3
  <2>4. CASE d # c
    <3>1. InInbox(d) /\ Present(d)
      BY <1>3, <1>4, <2>1, <2>2, <2>4 DEF InInbox, Present
    <3>2. rows[request[d].id].msg = d \/ rows[request[d].id].used
      BY <3>1 DEF KeyKept
    <3>3. request[d].id = k => rows[k].used
      BY <1>1, <2>2, <3>2, RowRefs, PrekeysAssumption DEF Bindable
    <3> QED
      BY <1>4, <2>1, <2>2, <3>2, <3>3
  <2> QED
    BY <2>3, <2>4
<1>11. KeyServesOne'
  BY <1>3, <1>6 DEF KeyServesOne, InInbox
<1> QED
  BY <1>7, <1>8, <1>9, <1>10, <1>11

LEMMA LedgerAck ==
    ASSUME TypeOK, Ledger, NEW c \in Contacts, AckOnServer(c), UNCHANGED request
    PROVE  Ledger'
<1> USE DEF Ledger
<1> DEFINE k == request[c].id
<1>1. CASE UNCHANGED <<rows, message>>
  BY <1>1, LedgerUnmoved
<1>2. CASE /\ message[c] = "pending" /\ Committable(c)
           /\ message' = [message EXCEPT ![c] = "delivered"] /\ ConsumeKey(c)
  <2>1. \A d \in Contacts : message'[d] = IF d = c THEN "delivered" ELSE message[d]
    BY <1>2 DEF TypeOK
  <2>2. \A j \in KeyIds : /\ j # k => rows'[j] = rows[j]
                          /\ rows'[j].batch = rows[j].batch
                          /\ j = k => /\ rows'[j].by = NoContact
                                      /\ rows'[j].msg = NoContact
                                      /\ rows'[j].used
    <3>1. \A r \in Rows : LET u == [Fresh(r.batch) EXCEPT !.used = TRUE]
                          IN  /\ u.batch = r.batch /\ u.by = NoContact
                              /\ u.msg = NoContact /\ u.used
      BY DEF Fresh
    <3>2. \A j \in KeyIds : rows[j] \in Rows
      BY DEF TypeOK
    <3> QED
      BY <1>2, <3>1, <3>2 DEF ConsumeKey
  <2>3. \A j \in KeyIds : j # k => rows[j].msg # c
    BY PrekeysAssumption DEF BoundAsReserved
  <2>4. RequestsSound'
    BY <1>2, <2>1 DEF RequestsSound
  <2>5. ReservedFor'
    BY <2>2, RowRefs DEF ReservedFor
  <2>6. BoundAsReserved'
    BY <2>1, <2>2, <2>3, RowRefs DEF BoundAsReserved
  <2>7. KeyKept'
    <3> SUFFICES ASSUME NEW d \in Contacts, InInbox(d)', Present(d)'
                 PROVE  (rows[request[d].id].msg = d \/ rows[request[d].id].used)'
      BY DEF KeyKept
    <3>1. request[d].id \in KeyIds
      BY DEF Present, TypeOK, Requests
    <3>2. InInbox(d) /\ Present(d)
      BY <1>2, <2>1, <2>2, <3>1 DEF InInbox, Present
    <3> QED
      BY <2>2, <3>1, <3>2 DEF KeyKept
  <2>8. KeyServesOne'
    BY <1>2, <2>1 DEF KeyServesOne, InInbox
  <2> QED
    BY <2>4, <2>5, <2>6, <2>7, <2>8
<1> QED
  BY <1>1, <1>2 DEF AckOnServer

LEMMA LedgerRead ==
    ASSUME TypeOK, Ledger, NEW c \in Contacts, MarkMessageRead(c)
    PROVE  Ledger'
<1> USE DEF Ledger
<1>1. /\ message[c] = "pending" /\ UNCHANGED <<rows, request>>
      /\ \A d \in Contacts : message'[d] = IF d = c THEN "read" ELSE message[d]
  BY DEF MarkMessageRead, TypeOK
<1>2. RequestsSound' /\ ReservedFor'
  BY <1>1 DEF RequestsSound, ReservedFor
<1>3. BoundAsReserved'
  BY <1>1, RowRefs DEF BoundAsReserved
<1>4. KeyKept' /\ KeyServesOne'
  BY <1>1 DEF KeyKept, KeyServesOne, InInbox, Present
<1> QED
  BY <1>2, <1>3, <1>4

LEMMA LedgerPurge ==
    ASSUME TypeOK, Ledger, NEW c \in Contacts, PurgeMessage(c)
    PROVE  Ledger'
<1> USE DEF Ledger
<1>1. /\ message[c] # "none" /\ UNCHANGED request
      /\ \A d \in Contacts : message'[d] = IF d = c THEN "purged" ELSE message[d]
  BY DEF PurgeMessage, TypeOK
<1>2. \A j \in KeyIds : /\ rows'[j].batch = rows[j].batch /\ rows'[j].by = rows[j].by
                        /\ rows'[j].used = rows[j].used
                        /\ rows'[j].expiry = rows[j].expiry
                        /\ rows'[j].msg = IF rows[j].msg = c THEN NoContact
                                          ELSE rows[j].msg
  BY DEF PurgeMessage, TypeOK, Rows
<1>3. RequestsSound' /\ ReservedFor'
  BY <1>1, <1>2 DEF RequestsSound, ReservedFor
<1>4. BoundAsReserved'
  BY <1>1, <1>2, RowRefs DEF BoundAsReserved
<1>5. KeyKept'
  <2> SUFFICES ASSUME NEW d \in Contacts, InInbox(d)', Present(d)'
               PROVE  (rows[request[d].id].msg = d \/ rows[request[d].id].used)'
    BY DEF KeyKept
  <2>1. d # c /\ InInbox(d) /\ request[d].id \in KeyIds
    BY <1>1 DEF InInbox, Present, TypeOK, Requests
  <2>2. Present(d)
    BY <1>1, <1>2, <2>1 DEF Present
  <2> QED
    BY <1>1, <1>2, <2>1, <2>2 DEF KeyKept
<1>6. KeyServesOne'
  BY <1>1 DEF KeyServesOne, InInbox
<1> QED
  BY <1>3, <1>4, <1>5, <1>6

\* A row is left alone, emptied, or free again; or it holds a key that no contact
\* has been given yet.  A row that is bound is left alone or replaced.
LEMMA LedgerRows ==
    ASSUME TypeOK, Ledger, UNCHANGED <<request, message>>,
           \A j \in KeyIds :
              \/ rows'[j] = rows[j]
              \/ /\ rows'[j].by = NoContact /\ rows'[j].msg = NoContact
                 /\ rows[j].msg = NoContact /\ ~rows[j].used
                 /\ rows'[j].batch = rows[j].batch
              \/ /\ rows'[j].by = NoContact /\ rows'[j].msg = NoContact
                 /\ \A c \in Contacts :
                       request[c].id # 0 => request[c].batch # rows'[j].batch
    PROVE  Ledger'
<1> USE DEF Ledger
<1>1. RequestsSound' /\ KeyServesOne'
  BY DEF RequestsSound, KeyServesOne, InInbox
<1>2. ReservedFor' /\ BoundAsReserved'
  BY DEF ReservedFor, BoundAsReserved
<1>3. KeyKept'
  <2> SUFFICES ASSUME NEW d \in Contacts, InInbox(d)', Present(d)'
               PROVE  (rows[request[d].id].msg = d \/ rows[request[d].id].used)'
    BY DEF KeyKept
  <2>1. InInbox(d) /\ request[d].id \in KeyIds
    BY DEF InInbox, Present, TypeOK, Requests
  <2>2. rows'[request[d].id].batch = rows[request[d].id].batch /\ Present(d)
    BY <2>1 DEF Present
  <2>3. rows[request[d].id].msg = d \/ rows[request[d].id].used
    BY <2>1, <2>2 DEF KeyKept
  <2>4. rows'[request[d].id] = rows[request[d].id]
    BY <2>1, <2>2, <2>3, PrekeysAssumption DEF Present
  <2> QED
    BY <2>3, <2>4
<1> QED
  BY <1>1, <1>2, <1>3

LEMMA LedgerUpload ==
    ASSUME IInv, ReplenishUpload
    PROVE  Ledger'
<1> USE DEF IInv
<1>1. /\ rep.pc = "stored" /\ UNCHANGED <<request, message>>
      /\ \A i \in KeyIds : rows'[i] \in {Fresh(batch), rows[i], NoRow}
  BY DEF ReplenishUpload, contacts
<1>2. \A c \in Contacts : request[c].batch < batch /\ request[c].batch \in Nat
  BY <1>1, PrekeysAssumption DEF BatchesInOrder, TypeOK, Requests, Batches, NoBatch
<1>3. \A c \in Contacts : request[c].batch # batch
                            /\ (request[c].id # 0 => request[c].batch # NoBatch)
  BY <1>2 DEF Ledger, RequestsSound
<1>4. /\ Fresh(batch).batch = batch /\ NoRow.batch = NoBatch
      /\ Fresh(batch).by = NoContact /\ Fresh(batch).msg = NoContact
      /\ NoRow.by = NoContact /\ NoRow.msg = NoContact
  BY DEF NoRow, Fresh
<1> QED
  BY <1>1, <1>3, <1>4, LedgerRows

LEMMA LedgerRetention ==
    ASSUME IInv, Retention
    PROVE  Ledger'
<1> USE DEF IInv
<1>1. UNCHANGED <<request, message>>
  BY DEF Retention, ExpireReservation, PurgeUsed, ClearExpired, contacts
<1>2. ASSUME NEW i \in KeyIds, ExpireReservation(i)
      PROVE  Ledger'
  <2>1. \A j \in KeyIds : /\ rows'[j].batch = rows[j].batch /\ rows'[j].by = rows[j].by
                          /\ rows'[j].used = rows[j].used /\ rows'[j].msg = rows[j].msg
                          /\ rows[j].expiry = "none" => rows'[j].expiry = "none"
    BY <1>2 DEF ExpireReservation, TypeOK, Rows
  <2>2. RequestsSound' /\ ReservedFor' /\ BoundAsReserved' /\ KeyServesOne'
    BY <1>1, <2>1 DEF Ledger, RequestsSound, ReservedFor, BoundAsReserved,
                      KeyServesOne, InInbox
  <2>3. KeyKept'
    <3> SUFFICES ASSUME NEW d \in Contacts, InInbox(d)', Present(d)'
                 PROVE  (rows[request[d].id].msg = d \/ rows[request[d].id].used)'
      BY DEF KeyKept
    <3>1. InInbox(d) /\ request[d].id \in KeyIds
      BY <1>1 DEF InInbox, Present, TypeOK, Requests
    <3>2. Present(d)
      BY <1>1, <2>1, <3>1 DEF Present
    <3> QED
      BY <1>1, <2>1, <3>1, <3>2 DEF Ledger, KeyKept
  <2> QED
    BY <2>2, <2>3 DEF Ledger
<1>3. ASSUME NEW i \in KeyIds, PurgeUsed(i)
      PROVE  Ledger'
  <2>1. /\ NoRow.batch = NoBatch /\ NoRow.by = NoContact /\ NoRow.msg = NoContact
        /\ \A c \in Contacts : request[c].id # 0 => request[c].batch # NoBatch
    BY DEF NoRow, Fresh, Ledger, RequestsSound
  <2>2. \A j \in KeyIds : rows'[j] = rows[j] \/ rows'[j] = NoRow
    BY <1>3 DEF PurgeUsed, TypeOK
  <2> QED
    BY <1>1, <2>1, <2>2, LedgerRows
<1>4. CASE ClearExpired
  <2>1. \A j \in KeyIds :
           \/ rows'[j] = rows[j]
           \/ /\ rows'[j] = Fresh(rows[j].batch)
              /\ rows[j].expiry = "over" /\ ~rows[j].used
    BY <1>4 DEF ClearExpired
  <2>2. \A j \in KeyIds : rows[j].expiry = "over" => rows[j].msg = NoContact
    BY DEF Ledger, BoundAsReserved
  <2>3. \A b : Fresh(b).batch = b /\ Fresh(b).by = NoContact /\ Fresh(b).msg = NoContact
    BY DEF Fresh
  <2> QED
    BY <1>1, <2>1, <2>2, <2>3, LedgerRows
<1> QED
  BY <1>2, <1>3, <1>4 DEF Retention

LEMMA LedgerStep ==
    ASSUME IInv, [Next]_vars
    PROVE  Ledger'
<1> USE DEF IInv, contacts, refill, device, bounds
<1>1. ASSUME NEW c \in Contacts, Contact(c)
      PROVE  Ledger'
  <2>1. CASE CountFree(c)
    <3>1. /\ request[c].pc = "new" /\ UNCHANGED <<rows, message>>
          /\ request' = [request EXCEPT ![c] =
                           [@ EXCEPT !.pc = "counted", !.free = Cardinality(Free)]]
      BY <2>1 DEF CountFree
    <3>2. /\ request'[c].pc = "counted" /\ request'[c].id = request[c].id
          /\ request'[c].batch = request[c].batch
          /\ \A d \in Contacts : d # c => request'[d] = request[d]
      BY <3>1 DEF TypeOK, Requests
    <3>3. request[c].id = 0
      BY <3>1 DEF Ledger, RequestsSound
    <3> QED
      BY <3>1, <3>2, <3>3, LedgerRequest
  <2>2. CASE IssueKey(c)
    BY <2>2, LedgerIssue
  <2>3. CASE IssueNoKey(c) \/ SendRefused(c)
    <3>1. request[c].pc # "sent" /\ UNCHANGED <<rows, message>>
      BY <2>3 DEF IssueNoKey, SendRefused
    <3>2. /\ request'[c].pc \in {"issued", "refused"}
          /\ request'[c].id = request[c].id /\ request'[c].batch = request[c].batch
          /\ \A d \in Contacts : d # c => request'[d] = request[d]
      BY <2>3 DEF IssueNoKey, SendRefused, TypeOK, Requests
    <3> QED
      BY <3>1, <3>2, LedgerRequest
  <2>4. CASE Send(c)
    BY <2>4, LedgerSend
  <2>5. CASE BootRead(c) \/ StoreKeys(c) \/ Settle(c)
    BY <2>5, LedgerUnmoved DEF BootRead, StoreKeys, Settle
  <2>6. CASE Ack(c) \/ AckResponseLost(c)
    BY <2>6, LedgerAck DEF Ack, AckResponseLost
  <2>7. CASE MarkMessageRead(c)
    BY <2>7, LedgerRead
  <2>8. CASE PurgeMessage(c)
    BY <2>8, LedgerPurge
  <2> QED
    BY <1>1, <2>1, <2>2, <2>3, <2>4, <2>5, <2>6, <2>7, <2>8 DEF Contact
<1>2. CASE ReplenishRead \/ ReplenishStore \/ ReplenishFails \/ LoseLow \/ Crash
  BY <1>2, LedgerUnmoved DEF ReplenishRead, ReplenishStore, ReplenishFails, LoseLow,
                             Crash
<1>3. CASE ReplenishUpload
  BY <1>3, LedgerUpload
<1>4. CASE Retention
  BY <1>4, LedgerRetention
<1>5. CASE UNCHANGED vars
  BY <1>5, LedgerUnmoved DEF vars
<1> QED
  BY <1>1, <1>2, <1>3, <1>4, <1>5 DEF Next, Replenish

-----------------------------------------------------------------------------
(* The theorems.                                                           *)

LEMMA InvInit ==
    ASSUME Init
    PROVE  IInv
<1> USE PrekeysAssumption DEF Init
<1>1. /\ Fresh(1) \in Rows /\ NoRow \in Rows
      /\ \A b : Fresh(b).batch = b /\ Fresh(b).by = NoContact /\ Fresh(b).msg = NoContact
      /\ NoRow.batch = 0 /\ NoRow.by = NoContact /\ NoRow.msg = NoContact
  <2>1. 1 \in Batches
    BY DEF Batches
  <2> QED
    BY <2>1, FreshType DEF Fresh, NoRow, NoBatch
<1>2. TypeOK
  <2>1. rows \in [KeyIds -> Rows]
    BY <1>1
  <2>2. request \in [Contacts -> Requests]
    BY DEF Requests, NoBatch
  <2>3. boot \in [Contacts -> [pc : {"idle", "read", "stored"}, seen : Keyrings]]
    <3> DEFINE Boots == [pc : {"idle", "read", "stored"}, seen : Keyrings]
    <3>1. NoBoot \in Boots /\ boot = [c \in Contacts |-> NoBoot]
      BY IdleTypes
    <3> HIDE DEF Boots
    <3> QED  BY <3>1 DEF Boots
  <2>4. rep \in [pc : {"idle", "read", "stored"}, seen : Keyrings,
                 new : SUBSET KeyIds]
    BY IdleTypes
  <2>5. priv \in Keyrings /\ batch \in Batches
    BY DEF Keyrings, Batches, NoBatch
  <2> QED
    BY <2>1, <2>2, <2>3, <2>4, <2>5 DEF TypeOK
<1>3. BatchesInOrder
  <2>1. rep.pc = "idle" /\ batch = 1
    BY DEF NoRep
  <2>2. \A i \in KeyIds : rows[i].batch \in {0, 1}
    BY <1>1
  <2> QED
    BY <2>1, <2>2 DEF BatchesInOrder, NoBatch
<1>4. Ledger
  <2>1. \A i \in KeyIds : rows[i].by = NoContact /\ rows[i].msg = NoContact
    BY <1>1
  <2>2. \A c \in Contacts : request[c].id = 0 /\ message[c] = "none"
    OBVIOUS
  <2> QED
    BY <2>1, <2>2 DEF Ledger, RequestsSound, ReservedFor, BoundAsReserved, KeyKept,
                      KeyServesOne, InInbox, Present
<1> QED
  BY <1>2, <1>3, <1>4 DEF IInv

LEMMA Invariance == Spec => []IInv
<1>1. Init => IInv
  BY InvInit
<1>2. IInv /\ [Next]_vars => IInv'
  BY TypeStep, BatchesStep, LedgerStep DEF IInv
<1> QED
  BY <1>1, <1>2, PTL DEF Spec

\* Every reachable state is well typed (Prekeys, both sides).
THEOREM TypeCorrect == Spec => []TypeOK
<1>1. IInv => TypeOK
  BY DEF IInv
<1> QED
  BY <1>1, Invariance, PTL

\* A key is only ever bound to the message of the contact that holds its
\* reservation, under the very key the contact used (bindReservedOneTimePrekey).
THEOREM Binding == Spec => []BoundAsReserved
<1>1. IInv => BoundAsReserved
  BY DEF IInv, Ledger
<1> QED
  BY <1>1, Invariance, PTL

\* No two messages on the server have been made with one key, for any number of
\* contacts, batches and purges.
THEOREM SingleUse == Spec => []KeyServesOne
<1>1. IInv => KeyServesOne
  BY DEF IInv, Ledger
<1> QED
  BY <1>1, Invariance, PTL

\* The key of an acknowledged message is used or gone (the ACK transaction).
THEOREM Consumption == Spec => []AckedIsConsumed
<1>1. IInv => AckedIsConsumed
  <2> SUFFICES ASSUME IInv, NEW c \in Contacts, message[c] = "delivered", Present(c)
               PROVE  rows[request[c].id].used
    BY DEF AckedIsConsumed
  <2>1. request[c].id \in KeyIds
    BY DEF IInv, TypeOK, Requests, Present
  <2>2. rows[request[c].id].msg = c \/ rows[request[c].id].used
    BY DEF IInv, Ledger, KeyKept, InInbox
  <2>3. rows[request[c].id].msg # c
    BY <2>1, PrekeysAssumption DEF IInv, Ledger, BoundAsReserved
  <2> QED
    BY <2>2, <2>3
<1> QED
  BY <1>1, Invariance, PTL

\* The key of a message that the server keeps is not given out again: what the
\* bundle looks for is unused and unbound (next_otk), and this key is neither.
THEOREM KeptWithdrawn == Spec => []KeyIsWithdrawn
<1>1. IInv => KeyIsWithdrawn
  <2> SUFFICES ASSUME IInv, NEW c \in Contacts, InInbox(c), Present(c)
               PROVE  ~Available(rows[request[c].id])
    BY DEF KeyIsWithdrawn
  <2>1. request[c].id \in KeyIds
    BY DEF IInv, TypeOK, Requests, Present
  <2>2. rows[request[c].id].msg = c \/ rows[request[c].id].used
    BY <2>1 DEF IInv, Ledger, KeyKept
  <2> QED
    BY <2>2, PrekeysAssumption DEF Available
<1> QED
  BY <1>1, Invariance, PTL

-----------------------------------------------------------------------------
(* Without purges an open session keeps its key from being given out.      *)

\* Only a message that was sent is opened, and it stays as long as no retention
\* run deletes it.
OpenedIsSent ==
    /\ \A c \in Contacts : boot[c].pc # "idle" => message[c] # "none"
    /\ \A c \in opened : message[c] # "none"
    /\ MaxPurges = 0 => \A c \in Contacts : message[c] # "purged"

LEMMA OpenedStep ==
    ASSUME TypeOK, OpenedIsSent, [Next]_vars
    PROVE  OpenedIsSent'
<1> USE DEF OpenedIsSent, contacts, refill, device, bounds
<1>1. NoBoot.pc = "idle"
  BY DEF NoBoot
<1>2. ASSUME UNCHANGED <<boot, opened>>,
             \A c \in Contacts : message'[c] = message[c]
                \/ message'[c] \in {"pending", "delivered", "read"}
      PROVE  OpenedIsSent'
  BY <1>2 DEF TypeOK
<1>3. ASSUME NEW c \in Contacts, Contact(c)
      PROVE  OpenedIsSent'
  <2>1. CASE CountFree(c) \/ IssueKey(c) \/ IssueNoKey(c) \/ SendRefused(c)
    BY <1>2, <2>1 DEF CountFree, IssueKey, IssueNoKey, SendRefused
  <2>2. CASE Send(c) \/ MarkMessageRead(c)
    BY <1>2, <2>2 DEF Send, MarkMessageRead, TypeOK
  <2>3. CASE BootRead(c)
    BY <2>3 DEF BootRead, TypeOK
  <2>4. CASE StoreKeys(c) \/ Settle(c)
    BY <1>1, <2>4 DEF StoreKeys, Settle, TypeOK
  <2>5. CASE Ack(c) \/ AckResponseLost(c)
    <3>1. \A d \in Contacts : message'[d] = message[d] \/ message'[d] = "delivered"
      BY <2>5 DEF Ack, AckResponseLost, AckOnServer, TypeOK
    <3> QED
      BY <1>2, <2>5, <3>1 DEF Ack, AckResponseLost
  <2>6. CASE PurgeMessage(c)
    <3>1. purges < MaxPurges /\ purges \in Nat /\ MaxPurges \in Nat
      BY <2>6, PrekeysAssumption DEF PurgeMessage, TypeOK
    <3>2. MaxPurges # 0
      BY <3>1
    <3>3. \A d \in Contacts : message'[d] = message[d] \/ message'[d] = "purged"
      BY <2>6 DEF PurgeMessage, TypeOK
    <3> QED
      BY <2>6, <3>2, <3>3 DEF PurgeMessage, TypeOK
  <2> QED
    BY <1>3, <2>1, <2>2, <2>3, <2>4, <2>5, <2>6 DEF Contact
<1>4. CASE Replenish \/ Retention
  BY <1>2, <1>4 DEF Replenish, ReplenishRead, ReplenishStore, ReplenishUpload,
     ReplenishFails, LoseLow, Retention, ExpireReservation, ClearExpired, PurgeUsed
<1>5. CASE Crash
  BY <1>1, <1>5 DEF Crash, TypeOK
<1>6. CASE UNCHANGED vars
  BY <1>6 DEF vars
<1> QED
  BY <1>3, <1>4, <1>5, <1>6 DEF Next

\* The key of an open session is not given out again unless retention deletes the
\* message it came with: used, bound or gone is what is left of it.
THEOREM Withdrawal ==
    ASSUME MaxPurges = 0
    PROVE  Spec => []OpenedIsWithdrawn
<1>1. Init => OpenedIsSent
  BY DEF Init, OpenedIsSent, NoBoot
<1>2. IInv /\ OpenedIsSent /\ [Next]_vars => OpenedIsSent'
  BY OpenedStep DEF IInv
<1>3. IInv /\ OpenedIsSent => OpenedIsWithdrawn
  <2> SUFFICES ASSUME IInv, OpenedIsSent, NEW c \in opened, Present(c)
               PROVE  ~Available(rows[request[c].id])
    BY DEF OpenedIsWithdrawn
  <2>1. c \in Contacts /\ request[c].id \in KeyIds
    BY DEF IInv, TypeOK, Requests, Present
  <2>2. InInbox(c)
    BY <2>1 DEF OpenedIsSent, IInv, TypeOK, InInbox
  <2>3. rows[request[c].id].msg = c \/ rows[request[c].id].used
    BY <2>1, <2>2 DEF IInv, Ledger, KeyKept
  <2> QED
    BY <2>1, <2>3, PrekeysAssumption DEF Available
<1> QED
  BY <1>1, <1>2, <1>3, Invariance, PTL DEF Spec

=============================================================================
