------------------------------ MODULE GroupKeys ------------------------------
(***************************************************************************)
(* The sender key of one device in one group: its rotation when the member *)
(* devices change, its distribution over direct messages, the messages     *)
(* sealed with it, the server's membership and crypto epoch, and what the  *)
(* other members do with messages that overtake their key.  The sender     *)
(* stays a member; every other member has one device.                      *)
(***************************************************************************)
EXTENDS Integers, FiniteSets, FiniteSetsExt, SequencesExt

CONSTANTS
    Users,          \* the other users
    Readers,        \* those of them whose reading is followed
    MaxSends,       \* bound: messages the device sends, numbered as they are begun
    MaxPreparing,   \* bound: sends that prepare at once
    MaxChanges,     \* bound: changes of the membership
    MaxFailures     \* bound: requests and publications that fail

ASSUME GroupAssumption ==
    /\ IsFiniteSet(Users) /\ MaxSends \in Nat /\ Readers \subseteq Users
    /\ MaxPreparing \in Nat /\ MaxChanges \in Nat /\ MaxFailures \in Nat

Sends == 1..MaxSends

VARIABLES
    \* the server
    members,    \* active members
    epoch,      \* groups.crypto_epoch
    bumps,      \* additions committed whose epoch is still to be raised
    rows,       \* group_messages in the order of created_at, as the sends stored
    \* the sending device
    known,      \* cryptoEpoch of the group in its store
    record,     \* its local sender key: distribution, chain, fingerprint, distributed
    send,       \* where each send is
    \* the others
    remote,     \* sender keys: initial chain and chain of each distribution, or NoKey
    unsaved,    \* messages found to lack their key, not yet in the pending queue
    pending,    \* the pending decrypt queue
    retrying,   \* its items loaded for a retry
    opened, unreadable,
    \* between them
    shares,     \* distributions under way
    live,       \* messages under way on sockets
    changes, failures,
    during,     \* history: the memberships there were in each epoch
    overlap     \* history: two sends have been preparing at once

server  == <<members, epoch, bumps, rows>>
sender  == <<known, record, send>>
readers == <<remote, unsaved, pending, retrying, opened, unreadable>>
network == <<shares, live>>
bounds  == <<changes, failures>>
vars == <<server, sender, readers, network, bounds, during, overlap>>

\* A distribution is named by the send it was generated for.
Dists == Sends
Chain == 0..MaxSends
NoKey == [init |-> -1, chain |-> -1]
NoRecord == [dist |-> 0, chain |-> 0, print |-> {}, given |-> {}]
Idle == [at |-> "idle", epoch |-> 0, roster |-> {}, left |-> {}, target |-> {},
         dist |-> 0, chain |-> 0, given |-> {}]
Steps == {"idle", "details", "roster", "ensure", "share", "mark", "stamp",
          "post", "insert", "publish", "done", "failed", "refused", "dropped"}

Init ==
    /\ members \in SUBSET Users /\ epoch = 1 /\ bumps = 0 /\ rows = <<>>
    /\ known = 1  /\ record = NoRecord /\ send = [s \in Sends |-> Idle]
    /\ remote = [u \in Users |-> [d \in Dists |-> NoKey]]
    /\ unsaved = [u \in Users |-> {}] /\ pending = [u \in Users |-> {}]
    /\ retrying = [u \in Users |-> {}]
    /\ opened = [u \in Users |-> {}] /\ unreadable = [u \in Users |-> {}]
    /\ shares = {} /\ live = {} /\ changes = 0 /\ failures = 0
    /\ during = [e \in 1..(MaxChanges + 1) |-> IF e = 1 THEN {members} ELSE {}]
    /\ overlap = FALSE

-----------------------------------------------------------------------------
(* Membership and epoch on the server                                      *)

\* POST /groups/:id/members: the members are added in a transaction ...
AddMember(u) ==
    /\ u \notin members /\ changes < MaxChanges /\ changes' = changes + 1
    /\ members' = members \cup {u} /\ bumps' = bumps + 1
    /\ during' = [during EXCEPT ![epoch] = @ \cup {members'}]
    /\ UNCHANGED <<epoch, rows, sender, readers, network, failures, overlap>>

\* ... and the epoch is raised after it.
RaiseEpoch ==
    /\ bumps > 0 /\ bumps' = bumps - 1
    /\ epoch' = epoch + 1
    /\ during' = [during EXCEPT ![epoch'] = {members}]
    /\ UNCHANGED <<members, rows, sender, readers, network, bounds, overlap>>

LoseBump ==
    /\ bumps > 0 /\ bumps' = bumps - 1
    /\ failures < MaxFailures /\ failures' = failures + 1
    /\ UNCHANGED <<members, epoch, rows, sender, readers, network, changes, during, overlap>>

\* DELETE /groups/:id/members/:user: one transaction.
RemoveMember(u) ==
    /\ u \in members /\ changes < MaxChanges /\ changes' = changes + 1
    /\ members' = members \ {u} /\ epoch' = epoch + 1
    /\ during' = [during EXCEPT ![epoch'] = {members'}]
    /\ UNCHANGED <<bumps, rows, sender, readers, network, failures, overlap>>

-----------------------------------------------------------------------------
(* The sending device                                                      *)

\* group.member_added or group.member_removed: refreshGroup.
Notice ==
    /\ known # epoch /\ known' = epoch
    /\ UNCHANGED <<server, record, send, readers, network, bounds, during, overlap>>

Preparing(s) == send[s].at \in {"details", "roster", "ensure", "share", "mark"}

\* sendGroupText begins with refreshGroup.
Begin(s) ==
    /\ send[s].at = "idle" /\ \A q \in Sends : q < s => send[q].at # "idle"
    /\ Cardinality({q \in Sends : Preparing(q)}) < MaxPreparing
    /\ send' = [send EXCEPT ![s].at = "details", ![s].epoch = epoch]
    /\ overlap' = (overlap \/ \E q \in Sends : Preparing(q))
    /\ UNCHANGED <<server, known, record, readers, network, bounds, during>>

ApplyDetails(s) ==
    /\ send[s].at = "details"
    /\ known' = send[s].epoch
    /\ send' = [send EXCEPT ![s].at = "roster"]
    /\ UNCHANGED <<server, record, readers, network, bounds, during, overlap>>

\* fetchGroupMemberDeviceMap
ReadRoster(s) ==
    /\ send[s].at = "roster"
    /\ send' = [send EXCEPT ![s].at = "ensure", ![s].roster = members, ![s].left = members]
    /\ UNCHANGED <<server, known, record, readers, network, bounds, during, overlap>>

\* Mutation: the key is kept when members have left.
KeepUnlessJoined(s) ==
    IF record.dist # 0 /\ send[s].roster \subseteq record.print THEN record
    ELSE [dist |-> s, chain |-> 0, print |-> send[s].roster, given |-> {}]

\* ensureLocalSenderKeyRecordForMemberDevices: another roster, another key.
Rotated(s) ==
    IF record.dist # 0 /\ record.print = send[s].roster THEN record
    ELSE [dist |-> s, chain |-> 0, print |-> send[s].roster, given |-> {}]

\* The payload and the devices that have it, as the loop goes on with them.
Loaded(x, r) == [x EXCEPT !.at = "share", !.dist = r.dist, !.chain = r.chain, !.given = r.given]

Ensure(s) ==
    /\ send[s].at = "ensure"
    /\ record' = Rotated(s)
    /\ send' = [send EXCEPT ![s] = Loaded(@, record')]
    /\ UNCHANGED <<server, known, readers, network, bounds, during, overlap>>

ShareOf(s, u) == [to |-> u, dist |-> send[s].dist, chain |-> send[s].chain]

\* ensureSenderKeyDistributedToGroupMembers, one member: sendSenderKeyDistribution.
Share(s, u) ==
    /\ send[s].at = "share" /\ u \in send[s].left
    /\ IF u \in send[s].given
       THEN /\ send' = [send EXCEPT ![s].left = @ \ {u}]
            /\ UNCHANGED shares
       ELSE /\ send' = [send EXCEPT ![s].at = "mark", ![s].left = @ \ {u}, ![s].target = {u}]
            /\ shares' = shares \cup {ShareOf(s, u)}
    /\ UNCHANGED <<server, known, record, readers, live, bounds, during, overlap>>

\* Mutation: a failed distribution is marked too.
ShareFailsUnseen(s, u) ==
    /\ send[s].at = "share" /\ u \in send[s].left \ send[s].given
    /\ failures < MaxFailures /\ failures' = failures + 1
    /\ send' = [send EXCEPT ![s].at = "mark", ![s].left = @ \ {u}, ![s].target = {u}]
    /\ UNCHANGED <<server, known, record, readers, network, changes,
                   during, overlap>>

\* The POST of the distribution fails: so does the send, which is not queued yet; the
\* distribution is, and may still be delivered.
ShareFails(s, u) ==
    /\ send[s].at = "share" /\ u \in send[s].left \ send[s].given
    /\ failures < MaxFailures /\ failures' = failures + 1
    /\ send' = [send EXCEPT ![s] = [Idle EXCEPT !.at = "dropped"]]
    /\ shares' \in {shares, shares \cup {ShareOf(s, u)}}
    /\ UNCHANGED <<server, known, record, readers, live, changes, during, overlap>>

\* Mutation: the record of before the distribution is saved back.
MarkedStale(r, x) ==
    IF r.dist # x.dist THEN r
    ELSE [r EXCEPT !.given = @ \cup x.target, !.chain = x.chain]

\* markSenderKeyDistributedToDevices, unless the key has been rotated since.
Marked(r, x) ==
    IF r.dist # x.dist THEN r ELSE [r EXCEPT !.given = @ \cup x.target]

\* Then the record is loaded again.
Mark(s) ==
    /\ send[s].at = "mark"
    /\ record' = Marked(record, send[s])
    /\ send' = [send EXCEPT ![s] = [Loaded(@, record') EXCEPT !.target = {}]]
    /\ UNCHANGED <<server, known, readers, network, bounds, during, overlap>>

\* encryptGroupTextEnvelope, with the record as it is now, under the lock.
Encrypt(s) ==
    /\ send[s].at = "share" /\ send[s].left = {}
    /\ send' = [send EXCEPT ![s].at = "stamp", ![s].dist = record.dist,
                            ![s].chain = record.chain, ![s].given = {}]
    /\ record' = [record EXCEPT !.chain = @ + 1]
    /\ UNCHANGED <<server, known, readers, network, bounds, during, overlap>>

\* buildGroupMessagePayload takes the epoch from the store; the item is queued.
Stamp(s) ==
    /\ send[s].at = "stamp"
    /\ send' = [send EXCEPT ![s].at = "post", ![s].epoch = known]
    /\ UNCHANGED <<server, known, record, readers, network, bounds, during, overlap>>

\* retryGroupMessage or resumePendingGroupOutboundMessages: the same payload.
Retry(s) ==
    /\ send[s].at = "failed"
    /\ send' = [send EXCEPT ![s].at = "post"]
    /\ UNCHANGED <<server, known, record, readers, network, bounds, during, overlap>>

-----------------------------------------------------------------------------
(* POST /groups/:id/messages                                               *)

\* A refused message is retried with the same epoch, and refused again.
CheckEpoch(s) ==
    /\ send[s].at = "post"
    /\ send' = [send EXCEPT ![s].at = IF send[s].epoch = epoch THEN "insert" ELSE "refused"]
    /\ UNCHANGED <<server, known, record, readers, network, bounds, during, overlap>>

Stored == ToSet(rows)

\* A row that is already there is answered, and not published again.
Insert(s) ==
    /\ send[s].at = "insert"
    /\ rows' = IF s \in Stored THEN rows ELSE Append(rows, s)
    /\ send' = [send EXCEPT ![s].at = IF s \in Stored THEN "done" ELSE "publish"]
    /\ UNCHANGED <<members, epoch, bumps, known, record, readers, network, bounds,
                   during, overlap>>

Publish(s) ==
    /\ send[s].at = "publish"
    /\ live' = live \cup {[to |-> u, send |-> s] : u \in members \cap Readers}
    /\ send' = [send EXCEPT ![s].at = "done"]
    /\ UNCHANGED <<server, known, record, readers, shares, bounds, during, overlap>>

\* The request fails on its way, or its answer does.
PostFails(s) ==
    /\ send[s].at \in {"post", "insert", "publish"}
    /\ failures < MaxFailures /\ failures' = failures + 1
    /\ send' = [send EXCEPT ![s].at = "failed"]
    /\ UNCHANGED <<server, known, record, readers, network, changes, during, overlap>>

-----------------------------------------------------------------------------
(* The other members                                                       *)

KeyOf(u, s) == remote[u][send[s].dist]

\* senderKeyDecrypt with the stored key, which holds no skipped message keys.
Opens(key, s) == key.chain <= send[s].chain

\* Mutation: the chain moves one key too far.
AdvancedBeyond(key, s) == [key EXCEPT !.chain = send[s].chain + 2]

Advanced(key, s) == [key EXCEPT !.chain = send[s].chain + 1]

\* A message is shown, opened or as unreadable.
Decrypt(u, s) ==
    IF Opens(KeyOf(u, s), s)
    THEN /\ remote' = [remote EXCEPT ![u][send[s].dist] = Advanced(@, s)]
         /\ opened' = [opened EXCEPT ![u] = @ \cup {s}]
         /\ UNCHANGED unreadable
    ELSE /\ unreadable' = [unreadable EXCEPT ![u] = @ \cup {s}]
         /\ UNCHANGED <<remote, opened>>

\* handleIncomingGroupMessage
Receive(u, s) ==
    /\ [to |-> u, send |-> s] \in live
    /\ live' = live \ {[to |-> u, send |-> s]}
    /\ IF s \in opened[u] \cup unreadable[u] THEN UNCHANGED readers
       ELSE IF KeyOf(u, s) = NoKey
       THEN /\ unsaved' = [unsaved EXCEPT ![u] = @ \cup {s}]
            /\ UNCHANGED <<remote, pending, retrying, opened, unreadable>>
       ELSE /\ Decrypt(u, s) /\ pending' = [pending EXCEPT ![u] = @ \ {s}]
            /\ UNCHANGED <<unsaved, retrying>>
    /\ UNCHANGED <<server, sender, shares, bounds, during, overlap>>

\* commitPendingDecryptEnvelope
Persist(u, s) ==
    /\ s \in unsaved[u]
    /\ unsaved' = [unsaved EXCEPT ![u] = @ \ {s}]
    /\ pending' = [pending EXCEPT ![u] = @ \cup {s}]
    /\ UNCHANGED <<server, sender, remote, retrying, opened, unreadable, network, bounds,
                   during, overlap>>

\* The member is offline, or has been removed and cannot refresh the group.
Miss(u, s) ==
    /\ [to |-> u, send |-> s] \in live
    /\ failures < MaxFailures /\ failures' = failures + 1
    /\ live' = live \ {[to |-> u, send |-> s]}
    /\ UNCHANGED <<server, sender, readers, shares, changes, during, overlap>>

\* importSenderKeyDistribution: the first key stays the one history is read from, an
\* older one does not replace the current state.
Imported(key, share) ==
    [init |-> IF key = NoKey THEN share.chain ELSE key.init,
     chain |-> Max({key.chain, share.chain})]

Import(share) ==
    LET u == share.to IN
    /\ share \in shares /\ shares' = shares \ {share}
    /\ remote' = [remote EXCEPT ![u][share.dist] = Imported(@, share)]
    /\ retrying' = [retrying EXCEPT ![u] = @ \cup
         {s \in pending[u] : send[s].dist = share.dist}]
    /\ UNCHANGED <<server, sender, unsaved, pending, opened, unreadable, live, bounds,
                   during, overlap>>

\* Mutation: nothing is retried on a reconnect.
DueNever(u) == {}

\* retryPendingGroupDecryptMessages without a distribution
Due(u) == pending[u]

\* The socket of a member is opened again, or the client is started; a pass over the
\* queue that is still under way is gone on with.
Reconnect(u) ==
    /\ retrying[u] = {} /\ Due(u) # {}
    /\ retrying' = [retrying EXCEPT ![u] = Due(u)]
    /\ UNCHANGED <<server, sender, remote, unsaved, pending, opened, unreadable, network,
                   bounds, during, overlap>>

Position(s) == CHOOSE i \in DOMAIN rows : rows[i] = s

\* One item, the oldest first; it stays queued if its key is still missing.
RetryPending(u, s) ==
    /\ s \in retrying[u] /\ \A q \in retrying[u] : Position(s) <= Position(q)
    /\ retrying' = [retrying EXCEPT ![u] = @ \ {s}]
    /\ IF s \in opened[u] \cup unreadable[u]
       THEN pending' = [pending EXCEPT ![u] = @ \ {s}] /\ UNCHANGED <<remote, opened, unreadable>>
       ELSE IF KeyOf(u, s) = NoKey THEN UNCHANGED <<remote, pending, opened, unreadable>>
       ELSE Decrypt(u, s) /\ pending' = [pending EXCEPT ![u] = @ \ {s}]
    /\ UNCHANGED <<server, sender, unsaved, network, bounds, during, overlap>>

\* Mutation: history is read from where the live messages have got to.
ReplayedFromCurrent(u) == {s \in Stored : KeyOf(u, s) # NoKey /\ KeyOf(u, s).chain <= send[s].chain}

\* What can be read from the first key on, whatever was opened or missed live.
Replayed(u) == {s \in Stored : KeyOf(u, s) # NoKey /\ KeyOf(u, s).init <= send[s].chain}

\* The chain moves on to the last of them.
Reread(u, d) ==
    [remote[u][d] EXCEPT !.chain = Max({@} \cup
        {send[s].chain + 1 : s \in {q \in Replayed(u) : send[q].dist = d}})]

\* loadGroupMessages after a start of the client.
LoadHistory(u) ==
    LET keyed == {s \in Stored : KeyOf(u, s) # NoKey} IN
    /\ u \in members \cap Readers /\ ~Stored \subseteq opened[u]
    /\ opened' = [opened EXCEPT ![u] = @ \cup Replayed(u)]
    /\ unreadable' = [unreadable EXCEPT ![u] = (keyed \ Replayed(u)) \ opened[u]]
    /\ pending' = [pending EXCEPT ![u] = @ \cup (Stored \ keyed)]
    /\ remote' = [remote EXCEPT ![u] = [d \in Dists |-> Reread(u, d)]]
    /\ UNCHANGED <<server, sender, unsaved, retrying, network, bounds, during, overlap>>

-----------------------------------------------------------------------------

Sender(s) ==
    \/ Begin(s) \/ ApplyDetails(s) \/ ReadRoster(s) \/ Ensure(s) \/ Mark(s) \/ Encrypt(s)
    \/ Stamp(s) \/ Retry(s) \/ CheckEpoch(s) \/ Insert(s) \/ Publish(s) \/ PostFails(s)
    \/ \E u \in Users : Share(s, u) \/ ShareFails(s, u)

Reader(u, s) == Receive(u, s) \/ Persist(u, s) \/ Miss(u, s) \/ RetryPending(u, s)

Next ==
    \/ \E u \in Users : AddMember(u) \/ RemoveMember(u) \/ Reconnect(u) \/ LoadHistory(u)
    \/ RaiseEpoch \/ LoseBump \/ Notice
    \/ \E s \in Sends : Sender(s) \/ \E u \in Users : Reader(u, s)
    \/ \E share \in shares : Import(share)

Spec == Init /\ [][Next]_vars

\* What a client has begun it goes on with, direct messages arrive, sockets reconnect and
\* clients are started again.
FairSpec ==
    /\ Spec
    /\ \A u \in Readers : WF_vars(Reconnect(u)) /\ WF_vars(LoadHistory(u))
    /\ \A u \in Readers, s \in Sends : WF_vars(Persist(u, s)) /\ WF_vars(RetryPending(u, s))
    /\ WF_vars(\E share \in shares : Import(share))

-----------------------------------------------------------------------------
(* Properties.                                                             *)

Sealed(s) == send[s].at \in {"stamp", "post", "insert", "publish", "done", "failed", "refused"}

Holds(u, d) == remote[u][d] # NoKey \/ \E share \in shares : share.to = u /\ share.dist = d

\* Sends that run at once never seal two messages with the same key of the chain, though
\* distributing the key saves the record too.
NoKeyReuse ==
    \A s, q \in Sends : Sealed(s) /\ Sealed(q) /\ s # q =>
        <<send[s].dist, send[s].chain>> # <<send[q].dist, send[q].chain>>

\* The key a message is sealed with is held, or will be, by the devices of the roster its
\* send has read and by no other, unless two sends were preparing at once: a removed
\* member never gets the key of a later roster.
KeyStaysInRoster ==
    overlap \/ \A s \in Sends : Sealed(s) =>
        \A u \in Users : Holds(u, send[s].dist) => u \in send[s].roster

\* And every device of that roster has it, or will, from that message on or earlier.
RosterHoldsKey ==
    overlap \/ \A s \in Sends : Sealed(s) => \A u \in send[s].roster :
        /\ Holds(u, send[s].dist)
        /\ KeyOf(u, s) # NoKey => KeyOf(u, s).init <= send[s].chain

\* A message is unreadable to a device of the roster only if the device has opened a later
\* one of the same key.
UnreadableForCause ==
    overlap \/ \A u \in Users : \A s \in unreadable[u] : u \in send[s].roster =>
        \E q \in opened[u] : send[q].dist = send[s].dist /\ send[q].chain > send[s].chain

\* A queued message whose key has come is taken from the queue, also if the key came
\* between the failed attempt and the write to the queue.
PendingIsTaken ==
    \A u \in Readers, s \in Sends :
        s \in pending[u] /\ KeyOf(u, s) # NoKey ~> s \notin pending[u]

\* A stored message is opened in the end by every device of its roster that stays a
\* member, whatever overtook it.
StoredIsOpened ==
    \A u \in Readers, s \in Sends :
        s \in Stored /\ u \in send[s].roster ~> s \in opened[u] \/ u \notin members \/ overlap

\* VIOLATED: the key of a message is held only by members of the epoch it is stored with.
KeyIsOfEpoch ==
    \A s \in Stored : \A u \in Users :
        Holds(u, send[s].dist) => \E m \in during[send[s].epoch] : u \in m
=============================================================================
