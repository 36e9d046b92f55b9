------------------------------- MODULE Prekeys -------------------------------
(***************************************************************************)
(* The one-time prekeys of one device, on both sides: the rows of          *)
(* one_time_prekeys on the server, which reserves a key for a contact that *)
(* asks for a bundle, binds it to the contact's first message and consumes *)
(* it with the ACK; and the device, which keeps the private halves, opens  *)
(* sessions with them and uploads new batches.                             *)
(*                                                                         *)
(* A server transaction is one action, unless it reads and writes in two   *)
(* statements that do not lock what they read.  The device reads its key   *)
(* record, works through several awaits and writes the record it has read  *)
(* back: a read and a write are two actions.                               *)
(***************************************************************************)
EXTENDS Integers, FiniteSets

CONSTANTS
    Contacts,      \* devices of others; each opens one session with the device
    NoContact,
    Readers,       \* the contacts whose conversation the user may open
    Initial,       \* keys uploaded at registration
    Batch,         \* OTK_REPLENISH_BATCH
    MinReserved,   \* OTK_MIN_RESERVED
    LowThreshold,  \* OTK_LOW_THRESHOLD
    MaxKeyId,      \* bound: key ids
    MaxBatches,    \* bound: batches the device generates, the first included
    MaxPurges,     \* bound: messages that retention deletes
    MaxCrashes     \* bound: restarts of the client

ASSUME PrekeysAssumption ==
    /\ NoContact \notin Contacts /\ IsFiniteSet(Contacts) /\ Readers \subseteq Contacts
    /\ {Initial, Batch, MinReserved, LowThreshold, MaxKeyId, MaxBatches,
        MaxPurges, MaxCrashes} \subseteq Nat
    /\ Initial \in 1..MaxKeyId /\ MaxBatches > 0

KeyIds == 1..MaxKeyId

\* A key is an id and the batch it was generated in: a batch may use an id again.
Batches == 1..MaxBatches
NoBatch == 0

\* The private halves: for each id the batch of the key under it, if any.
Keyrings == [KeyIds -> Batches \cup {NoBatch}]
NoKeys   == [i \in KeyIds |-> NoBatch]

Rows == [batch  : Batches \cup {NoBatch},          \* NoBatch: no such row
         used   : BOOLEAN,
         by     : Contacts \cup {NoContact},       \* token hash, reserved_for
         expiry : {"none", "running", "over"},     \* reservation_expires_at
         msg    : Contacts \cup {NoContact}]       \* reserved_message_id

Fresh(b) == [batch |-> b, used |-> FALSE, by |-> NoContact, expiry |-> "none",
             msg |-> NoContact]
NoRow == Fresh(NoBatch)

Requests == [pc    : {"new", "counted", "issued", "sent", "refused"},
             free  : 0..MaxKeyId,                  \* remainingBeforeIssue
             id    : KeyIds \cup {0},              \* 0: a bundle without a key
             batch : Batches \cup {NoBatch}]

VARIABLES
    rows,        \* one_time_prekeys of the device
    request,     \* each contact's way from the bundle to the first message
    message,     \* the first message of each contact, on the server
    low,         \* a prekeys.low event is on its way
    priv,        \* otkPrivateKeys, in the device's storage
    boot,        \* the bootstrap of each contact's session
    processed,   \* processedMessageIds
    pendingAck,  \* pendingAckMessageIds
    rep,         \* the replenishment in flight
    batch,       \* the last batch generated
    opened,      \* history: the contacts whose session has been opened
    purges, crashes

contacts == <<request, message>>
device   == <<priv, boot, processed, pendingAck, opened>>
refill   == <<low, rep, batch>>
bounds   == <<purges, crashes>>
vars == <<rows, request, message, low, priv, boot, processed, pendingAck, rep,
          batch, opened, purges, crashes>>

TypeOK ==
    /\ rows \in [KeyIds -> Rows]
    /\ request \in [Contacts -> Requests]
    /\ message \in [Contacts -> {"none", "pending", "delivered", "read", "purged"}]
    /\ low \in BOOLEAN
    /\ priv \in Keyrings
    /\ boot \in [Contacts -> [pc : {"idle", "read", "stored"}, seen : Keyrings]]
    /\ processed \subseteq Contacts /\ pendingAck \subseteq Contacts
    /\ rep \in [pc : {"idle", "read", "stored"}, seen : Keyrings,
                new : SUBSET KeyIds]
    /\ batch \in Batches
    /\ opened \subseteq Contacts
    /\ purges \in Nat /\ crashes \in Nat

NoBoot == [pc |-> "idle", seen |-> NoKeys]
NoRep  == [pc |-> "idle", seen |-> NoKeys, new |-> {}]

\* The device has just registered with its first batch of keys.
Init ==
    /\ rows = [i \in KeyIds |-> IF i <= Initial THEN Fresh(1) ELSE NoRow]
    /\ request = [c \in Contacts |-> [pc |-> "new", free |-> 0, id |-> 0,
                                      batch |-> NoBatch]]
    /\ message = [c \in Contacts |-> "none"]
    /\ low = FALSE
    /\ priv = [i \in KeyIds |-> IF i <= Initial THEN 1 ELSE NoBatch]
    /\ boot = [c \in Contacts |-> NoBoot]
    /\ processed = {} /\ pendingAck = {} /\ opened = {}
    /\ rep = NoRep /\ batch = 1
    /\ purges = 0 /\ crashes = 0

-----------------------------------------------------------------------------
(* GET prekey-bundle: one transaction, two statements (READ COMMITTED).    *)

\* Mutation: a key that is bound to a message counts as free.
FreeThoughBound(r) == r.batch # NoBatch /\ ~r.used /\ r.expiry # "running"

\* Neither used, nor bound to a message, nor reserved.
Available(r) ==
    /\ r.batch # NoBatch /\ ~r.used /\ r.msg = NoContact
    /\ r.expiry # "running"

Free == {i \in KeyIds : Available(rows[i])}

\* SELECT COUNT(*): no row is locked.
CountFree(c) ==
    /\ request[c].pc = "new"
    /\ request' = [request EXCEPT ![c] =
                     [@ EXCEPT !.pc = "counted", !.free = Cardinality(Free)]]
    /\ UNCHANGED <<rows, message, refill, device, bounds>>

\* UPDATE ... FOR UPDATE SKIP LOCKED LIMIT 1: any row of the newest batch.
IssueKey(c) ==
    /\ request[c].pc = "counted" /\ request[c].free > MinReserved
    /\ \E i \in Free :
          /\ rows' = [rows EXCEPT ![i] =
                        [@ EXCEPT !.by = c, !.expiry = "running"]]
          /\ request' = [request EXCEPT ![c] =
                           [@ EXCEPT !.pc = "issued", !.id = i,
                                     !.batch = rows[i].batch]]
    /\ low' = (low \/ request[c].free - 1 < LowThreshold)
    /\ UNCHANGED <<message, rep, batch, device, bounds>>

\* A bundle without a one-time prekey.
IssueNoKey(c) ==
    /\ request[c].pc = "counted"
    /\ request[c].free <= MinReserved \/ Free = {}
    /\ request' = [request EXCEPT ![c] = [@ EXCEPT !.pc = "issued"]]
    /\ low' = (low \/ request[c].free < LowThreshold)
    /\ UNCHANGED <<rows, message, rep, batch, device, bounds>>

-----------------------------------------------------------------------------
(* POST /messages: the first message of a contact binds the reserved key.  *)

\* Mutation: the key id is looked up without the reservation token.
BindableById(r, c) == r.batch # NoBatch /\ ~r.used /\ r.msg = NoContact

Bindable(r, c) ==
    /\ r.batch # NoBatch /\ ~r.used /\ r.msg = NoContact
    /\ r.by = c /\ r.expiry = "running"

\* Mutation: the expiry of the reservation is not cleared.
BoundStillRunning(r, c) == [r EXCEPT !.msg = c]

\* bindReservedOneTimePrekey
Bound(r, c) == [r EXCEPT !.msg = c, !.expiry = "none"]

Send(c) ==
    /\ request[c].pc = "issued"
    /\ request[c].id # 0 => Bindable(rows[request[c].id], c)
    /\ rows' = [i \in KeyIds |-> IF i = request[c].id THEN Bound(rows[i], c)
                                 ELSE rows[i]]
    /\ message' = [message EXCEPT ![c] = "pending"]
    /\ request' = [request EXCEPT ![c] = [@ EXCEPT !.pc = "sent"]]
    /\ UNCHANGED <<refill, device, bounds>>

\* 409: the reservation is invalid or expired; the insert is rolled back.
SendRefused(c) ==
    /\ request[c].pc = "issued" /\ request[c].id # 0
    /\ ~Bindable(rows[request[c].id], c)
    /\ request' = [request EXCEPT ![c] = [@ EXCEPT !.pc = "refused"]]
    /\ UNCHANGED <<rows, message, refill, device, bounds>>

-----------------------------------------------------------------------------
(* The device opens the session (bootstrapInboundSession).                 *)

\* The private half of the key the contact used is in storage.
CanOpen(c) == request[c].id # 0 => priv[request[c].id] = request[c].batch

\* A pending message is delivered, or delivered again, and the key record is
\* read.  Without the private half the attempt fails and changes nothing.
BootRead(c) ==
    /\ message[c] = "pending" /\ c \notin processed
    /\ boot[c].pc = "idle" /\ CanOpen(c)
    /\ boot' = [boot EXCEPT ![c] =
                  IF request[c].id = 0 THEN [NoBoot EXCEPT !.pc = "stored"]
                  ELSE [pc |-> "read", seen |-> priv]]
    /\ opened' = IF request[c].id = 0 THEN opened \cup {c} ELSE opened
    /\ UNCHANGED <<rows, contacts, refill, priv, processed, pendingAck, bounds>>

\* The record that was read is written back without the key.
StoreKeys(c) ==
    /\ boot[c].pc = "read"
    /\ priv' = [boot[c].seen EXCEPT ![request[c].id] = NoBatch]
    /\ boot' = [boot EXCEPT ![c] = [NoBoot EXCEPT !.pc = "stored"]]
    /\ opened' = opened \cup {c}
    /\ UNCHANGED <<rows, contacts, refill, processed, pendingAck, bounds>>

\* Mutation: the message is not remembered for its ACK.
SettleNoAck(c) ==
    /\ boot[c].pc = "stored"
    /\ boot' = [boot EXCEPT ![c] = NoBoot]
    /\ processed' = processed \cup {c}
    /\ UNCHANGED <<rows, contacts, refill, priv, pendingAck, opened, bounds>>

\* commitTerminalMessageState
Settle(c) ==
    /\ boot[c].pc = "stored"
    /\ boot' = [boot EXCEPT ![c] = NoBoot]
    /\ processed' = processed \cup {c}
    /\ pendingAck' = pendingAck \cup {c}
    /\ UNCHANGED <<rows, contacts, refill, priv, opened, bounds>>

-----------------------------------------------------------------------------
(* POST /messages/:id/ack                                                  *)

\* The key of the message, if it has one, is still bound to it.
Committable(c) ==
    request[c].id # 0 =>
        LET r == rows[request[c].id]
        IN  r.batch # NoBatch /\ ~r.used /\ r.msg = c /\ r.by = c

\* Mutation: the key is left as it is.
LeaveKey(c) == UNCHANGED rows

ConsumeKey(c) ==
    rows' = [i \in KeyIds |-> IF i = request[c].id
                              THEN [Fresh(rows[i].batch) EXCEPT !.used = TRUE]
                              ELSE rows[i]]

\* The transaction: if the key cannot be committed nothing is (409), and a
\* message that is not pending is answered with 409 or 404.
AckOnServer(c) ==
    IF message[c] = "pending" /\ Committable(c)
    THEN message' = [message EXCEPT ![c] = "delivered"] /\ ConsumeKey(c)
    ELSE UNCHANGED <<rows, message>>

\* flushPendingAckForMessage: 200, 409 and 404 all clear the pending ACK.
Ack(c) ==
    /\ c \in pendingAck
    /\ AckOnServer(c)
    /\ pendingAck' = pendingAck \ {c}
    /\ UNCHANGED <<request, refill, priv, boot, processed, opened, bounds>>

\* The answer is lost: the ACK stays pending and is sent again.
AckResponseLost(c) ==
    /\ c \in pendingAck
    /\ AckOnServer(c)
    /\ UNCHANGED <<request, refill, device, bounds>>

\* markMessageRead: the user opens the conversation.  It delivers the message
\* without a word about its key.
MarkMessageRead(c) ==
    /\ c \in Readers /\ message[c] = "pending"
    /\ boot[c].pc = "stored" \/ c \in processed
    /\ message' = [message EXCEPT ![c] = "read"]
    /\ UNCHANGED <<rows, request, refill, device, bounds>>

-----------------------------------------------------------------------------
(* Replenishment: a read, a write, and an upload that replaces the pool.   *)

\* Mutation: the ids start at maxId, which is 0 when no key is left.
NewIdsFromMax(keys) ==
    LET held == {i \in KeyIds : keys[i] # NoBatch} \cup {0}
    IN  {i \in 0..MaxKeyId : /\ \A j \in held : j <= i
                             /\ \E j \in held : i < j + Batch}

\* maxId + 1 and the ids that follow.
NewIds(keys) ==
    LET held == {i \in KeyIds : keys[i] # NoBatch} \cup {0}
    IN  {i \in KeyIds : /\ \A j \in held : j < i
                        /\ \E j \in held : i <= j + Batch}

\* doReplenish reads the record; one replenishment runs at a time.
ReplenishRead ==
    /\ low /\ low' = FALSE
    /\ rep.pc = "idle" /\ batch < MaxBatches
    /\ rep' = [pc |-> "read", seen |-> priv, new |-> NewIds(priv)]
    /\ UNCHANGED <<rows, contacts, device, batch, bounds>>

\* The new private halves are stored before their public halves are uploaded.
ReplenishStore ==
    /\ rep.pc = "read"
    /\ batch' = batch + 1
    /\ priv' = [i \in KeyIds |-> IF i \in rep.new THEN batch + 1 ELSE rep.seen[i]]
    /\ rep' = [NoRep EXCEPT !.pc = "stored", !.new = rep.new]
    /\ UNCHANGED <<rows, contacts, low, boot, processed, pendingAck, opened, bounds>>

\* POST /devices/prekeys: all unused rows go, the new ones come.
ReplenishUpload ==
    /\ rep.pc = "stored"
    /\ rows' = [i \in KeyIds |-> IF i \in rep.new THEN Fresh(batch)
                                 ELSE IF rows[i].used THEN rows[i] ELSE NoRow]
    /\ rep' = NoRep
    /\ UNCHANGED <<contacts, low, batch, device, bounds>>

\* The upload fails; the new private halves stay where they are.
ReplenishFails ==
    /\ rep.pc = "stored"
    /\ rep' = NoRep
    /\ UNCHANGED <<rows, contacts, low, batch, device, bounds>>

\* The event is published while the device is not connected.
LoseLow ==
    /\ low /\ low' = FALSE
    /\ UNCHANGED <<rows, contacts, rep, batch, device, bounds>>

\* The client restarts: what it has stored stays.
Crash ==
    /\ crashes < MaxCrashes /\ crashes' = crashes + 1
    /\ boot' = [c \in Contacts |-> NoBoot]
    /\ rep' = NoRep /\ low' = FALSE
    /\ UNCHANGED <<rows, contacts, priv, processed, pendingAck, opened, batch, purges>>

-----------------------------------------------------------------------------
(* Time and the retention job.                                             *)

ExpireReservation(i) ==
    /\ rows[i].expiry = "running"
    /\ rows' = [rows EXCEPT ![i] = [@ EXCEPT !.expiry = "over"]]
    /\ UNCHANGED <<contacts, refill, device, bounds>>

\* r7: the reservation columns of unused keys whose reservation has expired.
ClearExpired ==
    LET expired == {i \in KeyIds : ~rows[i].used /\ rows[i].expiry = "over"}
    IN  /\ expired # {}
        /\ rows' = [i \in KeyIds |-> IF i \in expired THEN Fresh(rows[i].batch)
                                     ELSE rows[i]]
        /\ UNCHANGED <<contacts, refill, device, bounds>>

\* r4
PurgeUsed(i) ==
    /\ rows[i].used
    /\ rows' = [rows EXCEPT ![i] = NoRow]
    /\ UNCHANGED <<contacts, refill, device, bounds>>

\* r1 and r2; reserved_message_id is a foreign key ON DELETE SET NULL.
PurgeMessage(c) ==
    /\ message[c] \in {"pending", "delivered", "read"} /\ purges < MaxPurges
    /\ purges' = purges + 1
    /\ message' = [message EXCEPT ![c] = "purged"]
    /\ rows' = [i \in KeyIds |-> IF rows[i].msg = c
                                 THEN [rows[i] EXCEPT !.msg = NoContact]
                                 ELSE rows[i]]
    /\ UNCHANGED <<request, refill, device, crashes>>

Contact(c) ==
    \/ CountFree(c) \/ IssueKey(c) \/ IssueNoKey(c) \/ Send(c) \/ SendRefused(c)
    \/ BootRead(c) \/ StoreKeys(c) \/ Settle(c)
    \/ Ack(c) \/ AckResponseLost(c) \/ MarkMessageRead(c) \/ PurgeMessage(c)

Replenish ==
    ReplenishRead \/ ReplenishStore \/ ReplenishUpload \/ ReplenishFails \/ LoseLow

Retention ==
    \/ \E i \in KeyIds : ExpireReservation(i) \/ PurgeUsed(i)
    \/ ClearExpired

Next == (\E c \in Contacts : Contact(c)) \/ Replenish \/ Retention \/ Crash

Spec == Init /\ [][Next]_vars

\* A client that is open opens what is pending and sends its ACKs again.
Fairness ==
    \A c \in Contacts :
        /\ WF_vars(BootRead(c)) /\ WF_vars(StoreKeys(c)) /\ WF_vars(Settle(c))
        /\ WF_vars(Ack(c))

FairSpec == Spec /\ Fairness

-----------------------------------------------------------------------------
(* Properties.                                                             *)

\* The row of the key that the contact has been given still exists.
Present(c) ==
    request[c].id # 0 /\ rows[request[c].id].batch = request[c].batch

InInbox(c) == message[c] \in {"pending", "delivered", "read"}

\* A key is bound to the message of the very contact that holds its reservation,
\* under the key that contact has used: however reservations expire, are cleared
\* and given out again, and however often an id is used again by a new batch.
BoundAsReserved ==
    \A i \in KeyIds : LET c == rows[i].msg IN
        c # NoContact =>
            /\ request[c].id = i /\ request[c].batch = rows[i].batch
            /\ rows[i].by = c /\ rows[i].expiry = "none" /\ ~rows[i].used
            /\ message[c] \in {"pending", "read"}

\* No two messages that the server holds have been made with the same one-time
\* key (bundle, expiry, retention and bind race for the row).
KeyServesOne ==
    \A c, d \in Contacts :
        InInbox(c) /\ InInbox(d) /\ c # d /\ request[c].id # 0 =>
            <<request[c].id, request[c].batch>> # <<request[d].id, request[d].batch>>

\* Once a message has been acknowledged its key is used or gone: no later bundle
\* can contain it.
AckedIsConsumed ==
    \A c \in Contacts :
        message[c] = "delivered" /\ Present(c) => rows[request[c].id].used

\* The key of a message that the server keeps is not given out again: not when its
\* reservation would have expired, nor when the message is read before its ACK.
KeyIsWithdrawn ==
    \A c \in Contacts :
        InInbox(c) /\ Present(c) => ~Available(rows[request[c].id])

\* The row of the key was replaced by a new pool, or its private half was lost: by
\* the write of a stale key record, or in a restart before the message was settled.
KeyLost(c) ==
    /\ request[c].id # 0
    /\ \/ ~Present(c)
       \/ ~CanOpen(c) /\ boot[c].pc = "idle" /\ c \notin processed

\* A first message that has arrived is acknowledged in the end, whatever happens to
\* reservations, answers and the client, unless its key has been lost.
SentIsDelivered ==
    \A c \in Contacts : message[c] = "pending" ~> message[c] # "pending" \/ KeyLost(c)

\* The comment of the retention job: keys become available again whose reservations
\* "expired without being committed".  The key of an open session never does.
OpenedIsWithdrawn ==
    \A c \in opened : Present(c) => ~Available(rows[request[c].id])

=============================================================================
