---------------------------- MODULE DirectMessages ----------------------------
(***************************************************************************)
(* Encrypted direct messages between two devices: the ratchet session each *)
(* keeps in its storage, the queue of sealed envelopes it keeps until the  *)
(* server has accepted them, the rows of the server, and the receive       *)
(* pipeline that opens, stores and acknowledges what arrives.              *)
(*                                                                         *)
(* Every await between two writes of the client's storage is a point where *)
(* the client may be closed, and where another task may run unless both    *)
(* hold the lock of the session (withSessionLock).                         *)
(***************************************************************************)
EXTENDS Ratchet, FiniteSets

CONSTANTS
    Devs,          \* the two devices
    Openers,       \* devices whose user may write first
    NoSession, NoMsg, NoX3dh,
    Sends,         \* bound, for each device: messages it sends
    MaxRetries,    \* MAX_OUTBOUND_RETRIES
    Bundles,       \* whether a bundle carries a one-time key: some of {TRUE, FALSE}
    MaxInits,      \* bound: sessions one device starts
    MaxLosses,     \* bound: requests whose answer is lost
    MaxCrashes     \* bound: restarts of the clients

ASSUME MessagesAssumption ==
    /\ IsFiniteSet(Devs) /\ Cardinality(Devs) = 2 /\ Openers \subseteq Devs
    /\ Sends \in [Devs -> Nat] /\ Bundles \subseteq BOOLEAN
    /\ {MaxRetries, MaxInits, MaxLosses, MaxCrashes} \subseteq Nat

Peer(d) == CHOOSE e \in Devs : e # d

\* A message is known by its client id: the k-th message of a device.
Ids == UNION {{<<d, k>> : k \in 1..Sends[d]} : d \in Devs}
SentBy(d) == {m \in Ids : m[1] = d}
SentTo(d) == {m \in Ids : m[1] # d}

\* The signed prekey, and the key pairs generated for the ratchet after it.
Spk(d) == <<d, 0>>

KeyPairs == Devs \X Nat
Secrets  == [by : Devs, no : Nat, otk : BOOLEAN]
Chains   == Seq(Secrets \cup SUBSET KeyPairs)

\* RatchetState
Sessions ==
    [dhs : KeyPairs, dhr : KeyPairs \cup {NoPub}, rk : Chains, cks : Chains, ckr : Chains,
     ns : Nat, nr : Nat, pn : Nat,
     skipped : Seq([dh : KeyPairs \cup {NoPub}, n : Nat, key : Chains \X Nat])]

ASSUME SessionAssumption == NoSession \notin Sessions /\ NoPub \notin KeyPairs

VARIABLES
    session,     \* session:<peer> in each device's storage
    generated,   \* key pairs a device has generated
    inits,       \* sessions a device has started from a bundle
    wiped,       \* X3DH secrets whose one-time key the receiver has erased
    work,        \* the send that is under way
    env,         \* the sealed envelope of a message
    queue,       \* outbound-queue of each device
    commit, tries, \* sessionCommits and retryCount of the queued items
    bubble,      \* the sender's own message in its conversation
    posts,       \* POST /messages under way
    rows,        \* messages on the server
    live,        \* message.new events under way to a client that reads its history
    recv,        \* the receive pipeline of each device
    shown,       \* messages in the receiver's stored conversation
    tracked,     \* processed and pending-ACK ids in memory
    kept,        \* the same sets in storage
    restored,    \* the history has been read from storage
    cleared,     \* history: devices whose session an authentication failure has cleared
    forgotten,   \* history: stored message keys that were evicted before their use
    losses, crashes

sessions == <<session, generated, inits, wiped>>
items    == <<queue, commit, tries>>
outbound == <<work, env, items, bubble, posts>>
server   == <<rows, live>>
inbound  == <<recv, shown, tracked, kept, restored>>
history  == <<cleared, forgotten>>
bounds   == <<losses, crashes>>
vars == <<sessions, outbound, server, inbound, history, bounds>>

Idle == [pc |-> "idle", x3dh |-> NoX3dh, msg |-> NoMsg]
NoRecv == [pc |-> "idle", msg |-> NoMsg]
NoIds == [done |-> {}, ack |-> {}]

Init ==
    /\ session = [d \in Devs |-> NoSession]
    /\ generated = [d \in Devs |-> 0] /\ inits = [d \in Devs |-> 0] /\ wiped = {}
    /\ work = [d \in Devs |-> Idle] /\ queue = [d \in Devs |-> {}]
    /\ env = [m \in Ids |-> NoMsg] /\ commit = [m \in Ids |-> NoSession]
    /\ tries = [m \in Ids |-> 0] /\ bubble = [m \in Ids |-> "none"] /\ posts = {}
    /\ rows = [m \in Ids |-> "none"] /\ live = {}
    /\ recv = [d \in Devs |-> NoRecv] /\ shown = {}
    /\ tracked = [d \in Devs |-> NoIds] /\ kept = [d \in Devs |-> NoIds]
    /\ restored = [d \in Devs |-> TRUE]
    /\ cleared = {} /\ forgotten = {} /\ losses = 0 /\ crashes = 0

\* withSessionLock: a send and a receive exclude each other.
Locked(d) == work[d].pc \in {"ready", "queued"} \/ recv[d].pc # "idle"

Fresh(d) == <<d, generated[d] + 1>>

-----------------------------------------------------------------------------
(* Queued session commits (applyQueuedSessionCommits).                     *)

\* Mutation: the counter is not compared.
ShouldApplyAlways(current, queued) ==
    \/ current = NoSession
    \/ current.dhs = queued.dhs /\ current.dhr = queued.dhr

ShouldApply(current, queued) ==
    \/ current = NoSession
    \/ /\ current.dhs = queued.dhs /\ current.dhr = queued.dhr
       /\ current.ns < queued.ns

\* removeOutboundQueueItem
Unqueue(m) ==
    /\ queue' = [queue EXCEPT ![m[1]] = @ \ {m}]
    /\ commit' = [commit EXCEPT ![m] = NoSession]
    /\ tries' = [tries EXCEPT ![m] = 0]

\* The queued state replaces the stored one as a whole.
Applied(current, m) == IF ShouldApply(current, commit[m]) THEN commit[m] ELSE current

\* Mutation: what is still queued is not looked at.
QueuedIgnored(d) == session[d]

\* The commits of the queued items, the oldest first.
AllApplied(d) ==
    LET upto[k \in 0..Sends[d]] ==
          IF k = 0 THEN session[d]
          ELSE IF <<d, k>> \in queue[d] THEN Applied(upto[k - 1], <<d, k>>)
          ELSE upto[k - 1]
    IN  upto[Sends[d]]

-----------------------------------------------------------------------------
(* sendMessage                                                             *)

\* applyPendingSessionCommitsForRecipient, before the lock is taken for the send.
PrepareSend(d) ==
    /\ work[d].pc = "idle" /\ restored[d] /\ ~Locked(d)
    /\ \E m \in SentBy(d) : bubble[m] = "none"
    /\ session' = [session EXCEPT ![d] = AllApplied(d)]
    /\ work' = [work EXCEPT ![d].pc = "prepared"]
    /\ UNCHANGED <<generated, inits, wiped, env, items, bubble, posts,
                   server, inbound, history, bounds>>

\* getOrCreateOutboundSession: there is a session.
LoadSession(d) ==
    /\ work[d].pc = "prepared" /\ ~Locked(d) /\ session[d] # NoSession
    /\ work' = [work EXCEPT ![d].pc = "ready"]
    /\ UNCHANGED <<sessions, env, items, bubble, posts, server,
                   inbound, history, bounds>>

\* There is none: a bundle, with a one-time key or without.  The new session is
\* stored at once; its X3DH header is in memory.
StartSession(d) ==
    /\ work[d].pc = "prepared" /\ ~Locked(d) /\ session[d] = NoSession
    /\ d \in Openers /\ inits[d] < MaxInits
    /\ inits' = [inits EXCEPT ![d] = @ + 1]
    /\ generated' = [generated EXCEPT ![d] = @ + 1]
    /\ \E otk \in Bundles :
         LET secret == [by |-> d, no |-> inits[d] + 1, otk |-> otk] IN
         /\ session' = [session EXCEPT ![d] =
                          InitSender(secret, Fresh(d), Spk(Peer(d)))]
         /\ work' = [work EXCEPT ![d].pc = "ready", ![d].x3dh = secret]
    /\ UNCHANGED <<wiped, env, items, bubble, posts, server, inbound,
                   history, bounds>>

\* The envelope of the next message of a session.
Sealed(s, x3dh) == [dh |-> Header(s).dh, pn |-> Header(s).pn, n |-> Header(s).n,
                    key |-> SealKey(s), x3dh |-> x3dh]

\* The message is sealed with the session in memory, the bubble stored, then the
\* envelope and the advanced session in the queue.
Enqueue(d) ==
    /\ work[d].pc = "ready"
    /\ \E m \in SentBy(d) :
         /\ bubble[m] = "none" /\ \A x \in SentBy(d) : x[2] < m[2] => bubble[x] # "none"
         /\ bubble' = [bubble EXCEPT ![m] = "sending"]
         /\ env' = [env EXCEPT ![m] = Sealed(session[d], work[d].x3dh)]
         /\ commit' = [commit EXCEPT ![m] = AfterEncrypt(session[d])]
         /\ queue' = [queue EXCEPT ![d] = @ \cup {m}]
         /\ work' = [work EXCEPT ![d].pc = "queued", ![d].msg = m]
    /\ UNCHANGED <<sessions, tries, posts, server, inbound, history, bounds>>

Post(m, by) == posts' = posts \cup {[id |-> m, by |-> by, at |-> "client"]}

\* Mutation: the advanced session is not saved.
CommitNothing(d) ==
    /\ work[d].pc = "queued"
    /\ work' = [work EXCEPT ![d] = Idle]
    /\ Post(work[d].msg, "user")
    /\ UNCHANGED <<sessions, env, items, bubble, server, inbound, history, bounds>>

\* saveGeneratedSessionCommits, the lock is released, POST /messages.
CommitSession(d) ==
    /\ work[d].pc = "queued"
    /\ session' = [session EXCEPT ![d] = AfterEncrypt(@)]
    /\ work' = [work EXCEPT ![d] = Idle]
    /\ Post(work[d].msg, "user")
    /\ UNCHANGED <<generated, inits, wiped, env, items, bubble, server,
                   inbound, history, bounds>>

-----------------------------------------------------------------------------
(* POST /messages and its answer                                           *)

\* A row is made once for a client id; a repeated envelope is a duplicate.  The event
\* published after the commit reaches the receiver if it is there; once the history is
\* read it shows nothing that a fetch of the pending list does not.
Accept(p) ==
    /\ p \in posts /\ p.at = "client"
    /\ posts' = (posts \ {p}) \cup {[p EXCEPT !.at = "server"]}
    /\ IF rows[p.id] = "none"
       THEN /\ rows' = [rows EXCEPT ![p.id] = "pending"]
            /\ live' \in {live, IF restored[Peer(p.id[1])] THEN live
                                ELSE live \cup {p.id}}
       ELSE UNCHANGED server
    /\ UNCHANGED <<sessions, work, env, items, bubble, inbound, history,
                   bounds>>

\* Mutation: an item is taken off the queue when it is posted.
SettleUnanswered(p) ==
    /\ p \in posts /\ p.at = "client"
    /\ posts' = posts \ {p}
    /\ Unqueue(p.id)
    /\ bubble' = [bubble EXCEPT ![p.id] = "sent"]
    /\ UNCHANGED <<sessions, work, env, server, inbound, history, bounds>>

\* settleAcceptedDirectQueueItem, markDirectQueuedMessageStatus "sent".
Settle(p) ==
    /\ p \in posts /\ p.at = "server"
    /\ posts' = posts \ {p}
    /\ Unqueue(p.id)
    /\ bubble' = [bubble EXCEPT ![p.id] = "sent"]
    /\ UNCHANGED <<sessions, work, env, server, inbound, history, bounds>>

\* The request or its answer is lost: resume leaves the bubble as it is.
PostFails(p) ==
    /\ p \in posts /\ losses < MaxLosses
    /\ losses' = losses + 1
    /\ posts' = posts \ {p}
    /\ bubble' = IF p.by = "resume" THEN bubble ELSE [bubble EXCEPT ![p.id] = "error"]
    /\ UNCHANGED <<sessions, work, env, items, server, inbound, history,
                   crashes>>

-----------------------------------------------------------------------------
(* Retry: by hand, or when the connection is back                          *)

Pending(d, m, by) == m \in queue[d] /\ ~\E p \in posts : p.id = m /\ p.by = by

\* The item is sent again as it was sealed, after its session has been applied.
SendAgain(d, m, by) ==
    /\ tries[m] < MaxRetries /\ ~Locked(d)
    /\ tries' = [tries EXCEPT ![m] = @ + 1]
    /\ session' = [session EXCEPT ![d] = Applied(@, m)]
    /\ Post(m, by)
    /\ UNCHANGED <<generated, inits, wiped, work, env, commit, queue, server, inbound,
                   history, bounds>>

\* resumePendingOutboundMessages: an item whose bubble is not settled.
Resume(d, m) ==
    /\ restored[d] /\ Pending(d, m, "resume") /\ bubble[m] \in {"sending", "error"}
    /\ SendAgain(d, m, "resume") /\ UNCHANGED bubble

\* retryDirectMessage
Retry(d, m) ==
    /\ restored[d] /\ Pending(d, m, "user") /\ bubble[m] = "error"
    /\ SendAgain(d, m, "user")
    /\ bubble' = [bubble EXCEPT ![m] = "sending"]

\* More than MAX_OUTBOUND_RETRIES: quarantineDirectOutboundItem.
GiveUp(d, m) ==
    /\ restored[d] /\ tries[m] = MaxRetries
    /\ \/ Pending(d, m, "resume") /\ bubble[m] \in {"sending", "error"}
       \/ Pending(d, m, "user") /\ bubble[m] = "error"
    /\ Unqueue(m)
    /\ UNCHANGED <<sessions, work, env, bubble, posts, server, inbound,
                   history, bounds>>

\* The bubble is settled: the server's event came before the answer.
PruneSettled(d, m) ==
    /\ restored[d] /\ m \in queue[d] /\ bubble[m] \in {"sent", "delivered"}
    /\ Unqueue(m)
    /\ UNCHANGED <<sessions, work, env, bubble, posts, server, inbound,
                   history, bounds>>

\* The connection is there before the history has been read: no bubble is found.
PruneOrphan(d, m) ==
    /\ ~restored[d] /\ m \in queue[d]
    /\ Unqueue(m)
    /\ UNCHANGED <<sessions, work, env, bubble, posts, server, inbound,
                   history, bounds>>

\* message.delivered, live or replayed after a reconnect: updateOwnMessageStatus.
DeliveredEvent(d, m) ==
    /\ m \in SentBy(d) /\ restored[d]
    /\ rows[m] = "delivered" /\ bubble[m] # "delivered"
    /\ bubble' = [bubble EXCEPT ![m] = "delivered"]
    /\ UNCHANGED <<sessions, work, env, items, posts, server, inbound,
                   history, bounds>>

-----------------------------------------------------------------------------
(* handleIncomingMessage: live, or fetched by syncPendingMessages          *)

\* A message that is not processed gets hold of the session lock.
Arrives(d, m) ==
    /\ m \in SentTo(d) /\ ~Locked(d) /\ m \notin tracked[d].done
    /\ m \in live \/ (restored[d] /\ rows[m] = "pending")
    /\ live' = live \ {m}

Decrypts(d, m) == session[d] # NoSession /\ Opens(session[d], env[m], Fresh(d))

\* bootstrapInboundSession needs the one-time key, and a first message.
Bootstraps(d, m) ==
    /\ env[m].x3dh # NoX3dh /\ env[m].x3dh \notin wiped
    /\ Opens(InitReceiver(env[m].x3dh, Spk(d)), env[m], Fresh(d))

Advance(d, s) ==
    /\ session' = [session EXCEPT ![d] = s]
    /\ generated' = [generated EXCEPT ![d] = IF s.dhs = Fresh(d) THEN @ + 1 ELSE @]

Keys(q) == {q[i].key : i \in 1..Len(q)}

\* The keys a DH step takes out of the store.
Dropped(s, m) ==
    LET old == Skip(s, m.pn).skipped
    IN  IF IsDhStep(s, m) /\ Stored(s, m) = {} THEN Keys(old) \ Keys(Evict(old)) ELSE {}

\* The stored session opens it and is saved.
Decrypt(d, m) ==
    /\ Arrives(d, m) /\ Decrypts(d, m)
    /\ Advance(d, AfterDecrypt(session[d], env[m], Fresh(d)))
    /\ forgotten' = forgotten \cup Dropped(session[d], env[m])
    /\ recv' = [recv EXCEPT ![d] = [pc |-> "opened", msg |-> m]]
    /\ UNCHANGED <<inits, wiped, outbound, rows, shown, tracked, kept, restored,
                   cleared, bounds>>

\* A new session replaces the stored one, whatever that was.
Bootstrap(d, m) ==
    /\ Arrives(d, m) /\ ~Decrypts(d, m) /\ Bootstraps(d, m)
    /\ Advance(d, AfterDecrypt(InitReceiver(env[m].x3dh, Spk(d)), env[m], Fresh(d)))
    /\ recv' = [recv EXCEPT ![d] = [pc |-> "booted", msg |-> m]]
    /\ UNCHANGED <<inits, wiped, outbound, rows, shown, tracked, kept, restored,
                   history, bounds>>

\* The one-time key is erased in a second write.
WipeKey(d) ==
    /\ recv[d].pc = "booted"
    /\ wiped' = IF env[recv[d].msg].x3dh.otk THEN wiped \cup {env[recv[d].msg].x3dh}
                ELSE wiped
    /\ recv' = [recv EXCEPT ![d].pc = "opened"]
    /\ UNCHANGED <<session, generated, inits, outbound, server, shown, tracked, kept,
                   restored, history, bounds>>

\* An OperationError of the AEAD clears the session (classifyUnexpectedInboundFailure).
Clears(d, m) ==
    /\ session[d] # NoSession /\ env[m].x3dh = NoX3dh
    /\ Outcome(session[d], env[m], Fresh(d)) = "auth"

\* No session opens it and none can be made: the message stays pending.
Fail(d, m) ==
    /\ Arrives(d, m) /\ ~Decrypts(d, m) /\ ~Bootstraps(d, m)
    /\ session' = IF Clears(d, m) THEN [session EXCEPT ![d] = NoSession] ELSE session
    /\ cleared' = IF Clears(d, m) THEN cleared \cup {d} ELSE cleared
    /\ UNCHANGED <<generated, inits, wiped, outbound, rows, recv, shown, tracked, kept,
                   restored, forgotten, bounds>>

\* persistDeliveredIncomingMessage
Show(d) ==
    /\ recv[d].pc = "opened"
    /\ shown' = shown \cup {recv[d].msg}
    /\ recv' = [recv EXCEPT ![d].pc = "shown"]
    /\ UNCHANGED <<sessions, outbound, server, tracked, kept, restored, history, bounds>>

Track(d, ids) == tracked' = [tracked EXCEPT ![d] = ids] /\ kept' = [kept EXCEPT ![d] = ids]

\* Mutation: the message is processed before its conversation is stored.
CommitUnshown(d) ==
    /\ recv[d].pc = "opened"
    /\ Track(d, [done |-> tracked[d].done \cup {recv[d].msg},
                 ack |-> tracked[d].ack \cup {recv[d].msg}])
    /\ recv' = [recv EXCEPT ![d].pc = "opened"]
    /\ UNCHANGED <<sessions, outbound, server, shown, restored, history, bounds>>

\* commitTerminalMessageState: the sets in memory are written as they are.
CommitTerminal(d) ==
    /\ recv[d].pc = "shown"
    /\ Track(d, [done |-> tracked[d].done \cup {recv[d].msg},
                 ack |-> tracked[d].ack \cup {recv[d].msg}])
    /\ recv' = [recv EXCEPT ![d] = NoRecv]
    /\ UNCHANGED <<sessions, outbound, server, shown, restored, history, bounds>>

\* flushPendingAckForMessage: 200 and 409 both end it.
Ack(d, m) ==
    /\ m \in tracked[d].ack
    /\ rows' = [rows EXCEPT ![m] = "delivered"]
    /\ Track(d, [tracked[d] EXCEPT !.ack = @ \ {m}])
    /\ UNCHANGED <<sessions, outbound, live, recv, shown, restored, history, bounds>>

\* The answer is lost, the id stays.
AckLost(d, m) ==
    /\ m \in tracked[d].ack /\ losses < MaxLosses
    /\ losses' = losses + 1
    /\ rows' = [rows EXCEPT ![m] = "delivered"]
    /\ UNCHANGED <<sessions, outbound, live, inbound, history, crashes>>

\* message.read: the user has the conversation open.
ReadReceipt(d, m) ==
    /\ m \in SentTo(d) /\ m \in shown /\ restored[d] /\ rows[m] = "pending"
    /\ rows' = [rows EXCEPT ![m] = "delivered"]
    /\ UNCHANGED <<sessions, outbound, live, inbound, history, bounds>>

-----------------------------------------------------------------------------
(* The client is closed and opened again                                   *)

Crash(d) ==
    /\ crashes < MaxCrashes /\ crashes' = crashes + 1
    /\ work' = [work EXCEPT ![d] = Idle]
    /\ posts' = {p \in posts : p.id[1] # d}
    /\ live' = live \ SentTo(d)
    /\ recv' = [recv EXCEPT ![d] = NoRecv]
    /\ tracked' = [tracked EXCEPT ![d] = NoIds]
    /\ restored' = [restored EXCEPT ![d] = FALSE]
    /\ UNCHANGED <<sessions, env, items, bubble, rows, shown, kept,
                   history, losses>>

\* The stored sets, and as processed whatever the conversations hold.
Restored(d) ==
    [done |-> tracked[d].done \cup kept[d].done \cup kept[d].ack
                \cup (shown \cap SentTo(d)),
     ack |-> tracked[d].ack \cup kept[d].ack]

LoadHistory(d) ==
    /\ ~restored[d] /\ restored' = [restored EXCEPT ![d] = TRUE]
    /\ tracked' = [tracked EXCEPT ![d] = Restored(d)]
    /\ live' = live \ SentTo(d)
    /\ UNCHANGED <<sessions, outbound, rows, recv, shown, kept, history, bounds>>

-----------------------------------------------------------------------------

Sender(d) ==
    \/ PrepareSend(d) \/ LoadSession(d) \/ StartSession(d) \/ Enqueue(d)
    \/ CommitSession(d)
    \/ \E m \in SentBy(d) : \/ Resume(d, m) \/ Retry(d, m) \/ GiveUp(d, m)
                            \/ PruneSettled(d, m) \/ PruneOrphan(d, m)
                            \/ DeliveredEvent(d, m)

Receiver(d) ==
    \/ WipeKey(d) \/ Show(d) \/ CommitTerminal(d)
    \/ \E m \in SentTo(d) : \/ Decrypt(d, m) \/ Bootstrap(d, m) \/ Fail(d, m)
                            \/ Ack(d, m) \/ AckLost(d, m) \/ ReadReceipt(d, m)

Transport == \E p \in posts : Accept(p) \/ Settle(p) \/ PostFails(p)

Next ==
    \/ \E d \in Devs : Sender(d) \/ Receiver(d) \/ Crash(d) \/ LoadHistory(d)
    \/ Transport

Spec == Init /\ [][Next]_vars

\* What an open client does of its own: it reads its history, carries on with a send or
\* a receipt it has begun, and fetches the pending list at each reconnect; the server
\* answers.  A user need not write, retry or read.
CarriesOn(d) ==
    Enqueue(d) \/ CommitSession(d) \/ WipeKey(d) \/ Show(d) \/ CommitTerminal(d)

ClientFairness ==
    /\ \A d \in Devs :
         /\ WF_vars(LoadHistory(d)) /\ WF_vars(CarriesOn(d))
         /\ \A m \in SentTo(d) : WF_vars(Decrypt(d, m) \/ Bootstrap(d, m))
    /\ \A m \in Ids : WF_vars(\E p \in posts : p.id = m /\ (Accept(p) \/ Settle(p)))

FairSpec == Spec /\ ClientFairness

-----------------------------------------------------------------------------
(* Properties.                                                             *)

\* Both devices have started a session: each may throw the other's away.
Crossed == \A d \in Devs : inits[d] > 0

\* The server drops a message only when its receiver has it: an acknowledged or read
\* message is in the receiver's stored conversation, whatever was lost on the way and
\* wherever a client was closed.
AckedIsShown == \A m \in Ids : rows[m] = "delivered" => m \in shown

\* The status a sender sees is true: "sent" is on the server, "delivered" is shown.
BubbleIsHonest ==
    \A m \in Ids : /\ bubble[m] = "sent" => rows[m] # "none"
                   /\ bubble[m] = "delivered" => m \in shown

\* A session is thrown away for an authentication failure only after a client was
\* closed in the middle of its work, when both sides started a session at once, or when
\* a stored key was evicted before its message came (which is then taken for one of a new
\* chain): duplication, reordering, retries and loss alone never cost a session.
SessionsHold == cleared # {} => crashes > 0 \/ Crossed \/ forgotten # {}

\* Two messages the server has taken are never sealed under one key.
KeysNotReused ==
    \A m, x \in Ids : m # x /\ rows[m] # "none" /\ rows[x] # "none"
        => env[m].key # env[x].key

\* The same, as long as no session was cleared: retries, queued commits applied late
\* and clients closed between two writes do not bring a used key back.
KeysHold == cleared = {} => KeysNotReused

\* A message is shown in the end once the server has it and all that its sender wrote
\* before it, in whatever order they came, unless a client was closed, two sessions
\* crossed or a stored key was evicted.
Accepted(m) == \A x \in SentBy(m[1]) : x[2] <= m[2] => rows[x] # "none"
AcceptedIsShown ==
    \A m \in Ids : Accepted(m) ~> m \in shown \/ crashes > 0 \/ Crossed \/ forgotten # {}
=============================================================================
