----------------------------- MODULE DirectCall -----------------------------
(***************************************************************************)
(* The server side of one direct (1:1) call: the authority row in          *)
(* PostgreSQL, the call session derived from it (Redis, and a local cache  *)
(* in each of the two session stores of the API process), the per-device   *)
(* call index, and the handlers that read and write them.                  *)
(*                                                                         *)
(* A handler is asynchronous: every await lets the other handlers run.     *)
(* Each action below is the code between two awaits, so a session or a     *)
(* status that a handler has read may be stale when it uses it.            *)
(***************************************************************************)
EXTENDS Integers

CONSTANTS
    CallerDevs,   \* the devices of the calling user
    CalleeDevs,   \* the devices of the called user
    NoDev, NoSession, NoLane,
    MaxRequests,  \* bound: signals and REST requests of one behaviour
    LateDevs,     \* the callee devices that sign in during the call
    Dropping,     \* the devices whose socket may close
    MaxDrops,     \* bound: sockets that close
    MaxConnects,  \* bound: websocket reconnects
    MaxExpiries,  \* bound: session keys that reach their TTL
    MaxRestarts   \* bound: restarts of the API process

Devices == CallerDevs \cup CalleeDevs

ASSUME DirectCallAssumption ==
    /\ CallerDevs \cap CalleeDevs = {}
    /\ NoDev \notin Devices
    /\ LateDevs \subseteq CalleeDevs /\ Dropping \subseteq Devices
    /\ {MaxRequests, MaxDrops, MaxConnects, MaxExpiries, MaxRestarts} \subseteq Nat

Terminal == {"ended", "missed", "rejected"}
Live     == {"ringing", "active"}
Statuses == Terminal \cup Live

\* The stores built by ws-runtime.ts and by routes/calls: two caches, one Redis.
Stores == {"ws", "rest"}

\* The payload of an offer, its call type and the feature flags are not kept.
Session == [caller  : CallerDevs,
            callee  : CalleeDevs \cup {NoDev},
            invited : SUBSET CalleeDevs]

ASSUME NoSessionAssumption == NoSession \notin Session

\* A lane runs one request at a time: the FIFO signal runner of a socket, the
\* REST requests of a device, its disconnect timer, the replay of a reconnect.
Lanes == Devices \X {"ws", "rest", "timer", "replay"}

ASSUME NoLaneAssumption == NoLane \notin Lanes

Dev(l)     == l[1]
StoreOf(l) == IF l[2] = "rest" THEN "rest" ELSE "ws"

Messages == [type : {"offer", "answered", "hangup", "rejected", "ice",
                     "reneg", "stale"},
             from : Devices, to : Devices]

Ops == {"none", "offer", "answer", "ice", "reneg", "reject", "hangup",
        "cleanup", "replay"}

Pcs == {"idle", "check", "list", "load", "session", "lock", "commit",
        "recheck", "setIndex", "setSession", "delIndex", "delSession",
        "route"}

Requests == [op   : Ops,
             pc   : Pcs,
             sess : Session \cup {NoSession},  \* the session it has read or built
             mut  : Statuses \cup {"none"},    \* the status its transaction writes
             out  : SUBSET Messages]           \* what it routes in the end

Idle == [op |-> "none", pc |-> "idle", sess |-> NoSession, mut |-> "none",
         out |-> {}]

VARIABLES
    status,      \* call_sessions.status
    lock,        \* the transaction that holds the row (SELECT ... FOR UPDATE)
    answeredBy,  \* history: the device whose answer was committed
    endedBy,     \* history: the device whose request ended the call
    redis,       \* ws:callSession:<callId>
    cache,       \* the local session of each store
    rindex,      \* the devices whose Redis index lists the call
    cindex,      \* the same, in the local index of each store
    req,         \* the request each lane runs
    registered,  \* the callee devices loadUserDeviceIds returns
    online,      \* the devices with an open socket
    timer,       \* disconnect cleanup: off, closing (handler running), armed
    sent,        \* every message routed so far
    issued, drops, connects, expiries, restarts  \* the bounds' counters

authority == <<status, lock, answeredBy, endedBy>>
stores    == <<redis, cache, rindex, cindex>>
sockets   == <<online, timer, drops, connects>>
faults    == <<expiries, restarts>>
vars == <<status, lock, answeredBy, endedBy, redis, cache, rindex, cindex,
          req, registered, online, timer, sent, issued, drops, connects, expiries, restarts>>

TypeOK ==
    /\ status \in Statuses
    /\ lock \in Lanes \cup {NoLane}
    /\ answeredBy \in CalleeDevs \cup {NoDev}
    /\ endedBy \in Devices \cup {NoDev}
    /\ redis \in Session \cup {NoSession}
    /\ cache \in [Stores -> Session \cup {NoSession}]
    /\ rindex \subseteq Devices
    /\ cindex \in [Stores -> SUBSET Devices]
    /\ req \in [Lanes -> Requests]
    /\ registered \subseteq CalleeDevs
    /\ online \subseteq Devices
    /\ timer \in [Devices -> {"off", "closing", "armed"}]
    /\ sent \subseteq Messages
    /\ {issued, drops, connects, expiries, restarts} \subseteq Nat

\* POST /calls has inserted the row; no offer has been sent yet.
Init ==
    /\ status = "ringing" /\ lock = NoLane
    /\ answeredBy = NoDev /\ endedBy = NoDev
    /\ redis = NoSession /\ cache = [s \in Stores |-> NoSession]
    /\ rindex = {} /\ cindex = [s \in Stores |-> {}]
    /\ req = [l \in Lanes |-> Idle]
    /\ registered = CalleeDevs \ LateDevs
    /\ online = Devices /\ timer = [d \in Devices |-> "off"]
    /\ sent = {}
    /\ issued = 0 /\ drops = 0 /\ connects = 0
    /\ expiries = 0 /\ restarts = 0

-----------------------------------------------------------------------------
(* The session store.                                                      *)

\* getSession: the local session, else the one in Redis ...
SessionIn(s) == IF cache[s] # NoSession THEN cache[s] ELSE redis

\* ... which then becomes the local one.
Fill(s) == cache' = [cache EXCEPT ![s] = SessionIn(s)]

\* Mutation: a callee that is not known yet is indexed all the same.
EveryDeviceField(sess) ==
    IF sess = NoSession THEN {} ELSE {sess.caller, sess.callee} \cup sess.invited

\* collectSessionParticipantDeviceIds
Participants(sess) ==
    IF sess = NoSession THEN {}
    ELSE {sess.caller} \cup
         (IF sess.callee # NoDev THEN {sess.callee} ELSE sess.invited)

\* updateDeviceIndexes: with one call a list is the set of its devices.
Reindex(s, old, new) ==
    LET keep(index) == (index \ Participants(old)) \cup Participants(new)
    IN  /\ rindex' = keep(rindex)
        /\ cindex' = [cindex EXCEPT ![s] = keep(cindex[s])]

-----------------------------------------------------------------------------
(* Steps of a request.                                                     *)

At(l, pc)    == req[l].pc = pc
Goto(l, pc)  == req' = [req EXCEPT ![l].pc = pc]
Finish(l)    == req' = [req EXCEPT ![l] = Idle]

\* The handler keeps the session it has read or built, and what it will route.
Carry(l, pc, sess, out) ==
    req' = [req EXCEPT ![l] = [@ EXCEPT !.pc = pc, !.sess = sess, !.out = out]]

Msg(l, type, to) == [type |-> type, from |-> Dev(l), to |-> to]
MsgAll(l, type, to) == {Msg(l, type, d) : d \in to}

\* What a device may ask for: the guards on the acting user are taken here.
OpsOf(l) ==
    CASE l[2] = "ws" /\ Dev(l) \in CallerDevs ->
             {"offer", "ice", "reneg", "hangup"}
      [] l[2] = "ws" /\ Dev(l) \in CalleeDevs ->
             {"answer", "ice", "reneg", "hangup", "reject"}
      [] l[2] = "rest" /\ Dev(l) \in CallerDevs -> {"hangup"}
      [] l[2] = "rest" /\ Dev(l) \in CalleeDevs -> {"hangup", "reject"}
      [] OTHER -> {}

FirstPc(l, op) ==
    IF l[2] = "rest" THEN "check"
    ELSE IF op \in {"reject", "hangup"} THEN "lock" ELSE "load"

\* A signal leaves the queue of its socket, or a REST request arrives.
Begin(l, op) ==
    /\ At(l, "idle") /\ op \in OpsOf(l)
    /\ l[2] = "ws" => Dev(l) \in online
    /\ Dev(l) \in CalleeDevs => Dev(l) \in registered
    /\ issued < MaxRequests
    /\ issued' = issued + 1
    /\ req' = [req EXCEPT ![l] = [Idle EXCEPT !.op = op, !.pc = FirstPc(l, op)]]
    /\ UNCHANGED <<authority, stores, registered, sockets, sent, faults>>

\* getActiveCallSession in front of direct-hangup and direct-reject.
RestCheck(l) ==
    /\ At(l, "check")
    /\ IF status \in Live THEN Goto(l, "lock") ELSE Finish(l)
    /\ UNCHANGED <<authority, stores, registered, sockets, sent, issued, faults>>

\* storeOffer, up to its first write; the row is read without a lock.
StoreOffer(l) ==
    /\ At(l, "load") /\ req[l].op = "offer"
    /\ \/ /\ status = "ringing"
          /\ Carry(l, "setIndex",
                   [caller |-> Dev(l), callee |-> NoDev, invited |-> registered],
                   MsgAll(l, "offer", registered))
       \/ status \in Terminal /\ Goto(l, "delIndex")
       \/ status = "active" /\ Finish(l)
    /\ UNCHANGED <<authority, stores, registered, sockets, sent, issued, faults>>

AllowedStatuses(op) ==
    CASE op = "answer" -> {"ringing"}
      [] op = "reneg"  -> {"active"}
      [] OTHER         -> Live

\* loadAuthoritativeSession, its read of the row.
LoadRecord(l) ==
    /\ At(l, "load") /\ req[l].op \in {"answer", "ice", "reneg"}
    /\ \/ status \in AllowedStatuses(req[l].op) /\ Goto(l, "session")
       \/ status \in Terminal /\ Goto(l, "delIndex")
       \/ status \in Live \ AllowedStatuses(req[l].op) /\ Finish(l)
    /\ UNCHANGED <<authority, stores, registered, sockets, sent, issued, faults>>

\* isAllowedDirectCallCalleeSignalSender with allowPendingTargets.
AllowedCallee(d, sess) ==
    IF sess.callee # NoDev THEN d = sess.callee ELSE d \in sess.invited

\* getCalleeTargets
CalleeTargets(sess) ==
    IF sess.callee # NoDev THEN {sess.callee} ELSE sess.invited

\* routePeerSignalPayload: whom a relayed signal goes to.
PeerTargets(d, sess) ==
    IF d = sess.caller THEN CalleeTargets(sess)
    ELSE IF d \in CalleeDevs /\ AllowedCallee(d, sess) THEN {sess.caller}
    ELSE {}

\* getEstablishedPeerTarget, once the callee device is known.
RenegTargets(d, sess) ==
    IF sess.callee = NoDev THEN {}
    ELSE IF d = sess.caller THEN {sess.callee}
    ELSE IF d = sess.callee THEN {sess.caller} ELSE {}

\* loadCompatibleSession, and what each router handler does with the session.
LoadSession(l) ==
    LET s == SessionIn(StoreOf(l))
        d == Dev(l)
        op == req[l].op
    IN
    /\ At(l, "session") /\ op \in {"answer", "ice", "reneg"}
    /\ Fill(StoreOf(l))
    /\ \/ /\ s = NoSession                        \* transport_missing
          /\ sent' = sent \cup {Msg(l, "stale", d)}
          /\ Finish(l)
       \/ /\ s # NoSession /\ op = "answer"       \* handleAnswerSignal
          /\ IF AllowedCallee(d, s) THEN Goto(l, "lock") ELSE Finish(l)
          /\ UNCHANGED sent
       \/ /\ s # NoSession /\ op = "ice"          \* loadRelaySession
          /\ Carry(l, "setIndex", s, MsgAll(l, "ice", PeerTargets(d, s)))
          /\ UNCHANGED sent
       \/ /\ s # NoSession /\ op = "reneg"        \* handleRenegotiationSignal
          /\ IF RenegTargets(d, s) # {}
             THEN Carry(l, "setIndex", s,
                        MsgAll(l, "reneg", RenegTargets(d, s)))
             ELSE Finish(l)
          /\ UNCHANGED sent
    /\ UNCHANGED <<authority, redis, rindex, cindex, registered, sockets,
                   issued, faults>>

-----------------------------------------------------------------------------
(* Transactions: the row is locked, the handler decides, then it commits.  *)

\* Mutation: the row is read without FOR UPDATE.
NoRowLock == TRUE

RowFree == lock = NoLane

\* Mutation: the transaction is never closed.
KeepRow == UNCHANGED lock

FreeRow == lock' = NoLane

\* The handler holds the row; it will write mut and then route out.
Hold(l, mut, sess, out) ==
    /\ lock' = l
    /\ req' = [req EXCEPT ![l] = [@ EXCEPT !.pc = "commit", !.mut = mut,
                                           !.sess = sess, !.out = out]]

\* A transaction without a mutation changes nothing the others can see.
Release(l, pc) == UNCHANGED lock /\ Goto(l, pc)
Refuse(l)      == UNCHANGED lock /\ Finish(l)

\* Mutation: the status is not looked at again under the lock.
AnswerableIfLive == status \in Live

Answerable == status = "ringing"

\* Mutation: the device that answers hangs up with the others.
AllInvited(s, d) == s.invited

\* The other devices that ring.
Siblings(s, d) == s.invited \ {d}

\* The transaction of acceptAnswer.
AnswerLock(l) ==
    LET s == SessionIn("ws")
        d == Dev(l)
    IN
    /\ At(l, "lock") /\ req[l].op = "answer" /\ RowFree
    /\ \/ ~Answerable /\ Refuse(l) /\ UNCHANGED cache
       \/ /\ Answerable /\ Fill("ws")
          /\ \/ s = NoSession /\ Hold(l, "missed", s, {Msg(l, "stale", d)})
             \/ /\ s # NoSession
                /\ s.callee \in {NoDev, d} /\ d \in s.invited
                /\ Hold(l, "active", [s EXCEPT !.callee = d],
                        {Msg(l, "answered", s.caller)}
                          \cup MsgAll(l, "hangup", Siblings(s, d)))
             \/ /\ s # NoSession
                /\ s.callee \notin {NoDev, d} \/ d \notin s.invited
                /\ Refuse(l)
    /\ UNCHANGED <<status, answeredBy, endedBy, redis, rindex, cindex,
                   registered, sockets, sent, issued, faults>>

\* resolveCallerTargetDeviceIds and resolveCalleeTargetDeviceIds
CallerTargetIds(s) == IF s = NoSession THEN CallerDevs ELSE {s.caller}

\* Mutation: no fallback to the devices that were invited.
SelectedOnly(s) == IF s = NoSession THEN {} ELSE {s.callee} \ {NoDev}

CalleeTargetIds(s) ==
    IF s # NoSession /\ s.callee # NoDev THEN {s.callee}
    ELSE IF s # NoSession /\ s.invited # {} THEN s.invited
    ELSE registered

\* The transaction of rejectCall.
RejectLock(l) ==
    LET s == SessionIn(StoreOf(l))
        d == Dev(l)
    IN
    /\ At(l, "lock") /\ req[l].op = "reject" /\ RowFree
    /\ \/ status \in Terminal /\ Release(l, "delIndex") /\ UNCHANGED cache
       \/ status = "active" /\ Refuse(l) /\ UNCHANGED cache
       \/ /\ status = "ringing" /\ Fill(StoreOf(l))
          /\ IF s # NoSession /\ s.invited # {} /\ d \notin s.invited
             THEN Refuse(l)
             ELSE Hold(l, "rejected", s,
                       MsgAll(l, "rejected", CallerTargetIds(s)) \cup
                       (IF s = NoSession THEN {}
                        ELSE MsgAll(l, "hangup", Siblings(s, d))))
    /\ UNCHANGED <<status, answeredBy, endedBy, redis, rindex, cindex,
                   registered, sockets, sent, issued, faults>>

\* What ending the call in the name of the user of d commits and routes.
HoldEnd(l, mut, s, asCaller) ==
    Hold(l, mut, s, MsgAll(l, "hangup",
           IF asCaller THEN CalleeTargetIds(s) ELSE CallerTargetIds(s)))

\* The transaction of hangupCall.
HangupLock(l) ==
    LET s == SessionIn(StoreOf(l))
        asCaller == Dev(l) \in CallerDevs
    IN
    /\ At(l, "lock") /\ req[l].op = "hangup" /\ RowFree
    /\ \/ status \in Terminal /\ Release(l, "delIndex") /\ UNCHANGED cache
       \/ /\ status \in Live /\ Fill(StoreOf(l))
          /\ HoldEnd(l, IF asCaller /\ status = "ringing" THEN "missed"
                        ELSE "ended", s, asCaller)
    /\ UNCHANGED <<status, answeredBy, endedBy, redis, rindex, cindex,
                   registered, sockets, sent, issued, faults>>

\* The transaction of cleanupDisconnectedDevice.
CleanupLock(l) ==
    LET s == SessionIn("ws")
        d == Dev(l)
        mut == IF status = "ringing" THEN "missed" ELSE "ended"
    IN
    /\ At(l, "lock") /\ req[l].op = "cleanup" /\ RowFree
    /\ \/ status \in Terminal /\ Release(l, "recheck") /\ UNCHANGED cache
       \/ /\ status \in Live /\ Fill("ws")
          /\ IF s # NoSession /\ d \notin {s.caller, s.callee}
             THEN Release(l, "recheck")
             ELSE HoldEnd(l, mut, s, d \in CallerDevs)
    /\ UNCHANGED <<status, answeredBy, endedBy, redis, rindex, cindex,
                   registered, sockets, sent, issued, faults>>

\* persistAuthorityStatus and COMMIT.  Only an accepted answer is followed by
\* a write of the session, every other outcome by its removal.
Commit(l) ==
    LET r == req[l]
        accepted == r.op = "answer" /\ r.mut = "active"
    IN
    /\ At(l, "commit")
    /\ FreeRow
    /\ status' = r.mut
    /\ answeredBy' = IF accepted THEN Dev(l) ELSE answeredBy
    /\ endedBy' = IF accepted THEN endedBy ELSE Dev(l)
    /\ Goto(l, IF accepted THEN "setIndex" ELSE "delIndex")
    /\ UNCHANGED <<stores, registered, sockets, sent, issued, faults>>

-----------------------------------------------------------------------------
(* Writes of the session store, and the end of a handler.                  *)

\* callSessionStore.set: the indexes first, then the session.
SetIndex(l) ==
    LET s == StoreOf(l)
    IN  /\ At(l, "setIndex")
        /\ Reindex(s, SessionIn(s), req[l].sess) /\ Fill(s)
        /\ Goto(l, "setSession")
        /\ UNCHANGED <<authority, redis, registered, sockets, sent, issued, faults>>

SetSession(l) ==
    /\ At(l, "setSession")
    /\ cache' = [cache EXCEPT ![StoreOf(l)] = req[l].sess]
    /\ redis' = req[l].sess
    /\ Goto(l, "route")
    /\ UNCHANGED <<authority, rindex, cindex, registered, sockets, sent,
                   issued, faults>>

\* clearDerivedTransportState, that is callSessionStore.delete.
DelIndex(l) ==
    LET s == StoreOf(l)
    IN  /\ At(l, "delIndex")
        /\ Reindex(s, SessionIn(s), NoSession) /\ Fill(s)
        /\ Goto(l, "delSession")
        /\ UNCHANGED <<authority, redis, registered, sockets, sent, issued, faults>>

DelSession(l) ==
    /\ At(l, "delSession")
    /\ cache' = [cache EXCEPT ![StoreOf(l)] = NoSession]
    /\ redis' = NoSession
    /\ IF req[l].out = {} THEN Finish(l) ELSE Goto(l, "route")
    /\ UNCHANGED <<authority, rindex, cindex, registered, sockets, sent,
                   issued, faults>>

\* routeToDevice and routeToDevices, the last calls of every handler.
Route(l) ==
    /\ At(l, "route")
    /\ sent' = sent \cup req[l].out
    /\ Finish(l)
    /\ UNCHANGED <<authority, stores, registered, sockets, issued, faults>>

-----------------------------------------------------------------------------
(* Sockets: disconnect cleanup after a grace period, replay on reconnect.  *)

\* The socket closes; its close handler still has awaits to go through.
Disconnect(d) ==
    /\ d \in online \cap Dropping /\ drops < MaxDrops
    /\ drops' = drops + 1
    /\ online' = online \ {d}
    /\ timer' = [timer EXCEPT ![d] = "closing"]
    /\ UNCHANGED <<authority, stores, req, registered, connects, sent, issued, faults>>

ScheduleDisconnectCleanup(d) ==
    /\ timer[d] = "closing"
    /\ timer' = [timer EXCEPT ![d] = "armed"]
    /\ UNCHANGED <<authority, stores, req, registered, online, drops, connects, sent,
                   issued, faults>>

\* A new socket: cancelDisconnectCleanup, and replayPendingOffers is started.
Connect(d) ==
    LET l == <<d, "replay">>
    IN  /\ d \notin online /\ At(l, "idle") /\ connects < MaxConnects
        /\ connects' = connects + 1
        /\ online' = online \cup {d}
        /\ timer' = [timer EXCEPT ![d] = IF @ = "armed" THEN "off" ELSE @]
        /\ req' = [req EXCEPT ![l] = [Idle EXCEPT !.op = "replay", !.pc = "list"]]
        /\ UNCHANGED <<authority, stores, registered, drops, sent, issued, faults>>

\* The grace period is over: nothing happens to a device that is back.
DisconnectTimeout(d) ==
    LET l == <<d, "timer">>
    IN  /\ timer[d] = "armed" /\ At(l, "idle")
        /\ timer' = [timer EXCEPT ![d] = "off"]
        /\ req' = IF d \in online THEN req
                  ELSE [req EXCEPT ![l] = [Idle EXCEPT !.op = "cleanup",
                                                       !.pc = "list"]]
        /\ UNCHANGED <<authority, stores, registered, online, drops, connects, sent,
                       issued, faults>>

\* listByDevice, which drops from the index a call the device is not part of.
ListByDevice(l) ==
    LET d == Dev(l)
        s == SessionIn("ws")
        listed == d \in cindex["ws"] \cup rindex
        valid == listed /\ d \in Participants(s)
        index == IF valid THEN cindex["ws"] \cup {d} ELSE cindex["ws"] \ {d}
    IN
    /\ At(l, "list")
    /\ IF listed THEN Fill("ws") ELSE UNCHANGED cache
    /\ cindex' = [cindex EXCEPT !["ws"] = index]
    /\ rindex' = IF valid THEN rindex ELSE rindex \ {d}
    /\ IF ~valid THEN Finish(l)
       ELSE Goto(l, IF req[l].op = "cleanup" THEN "lock" ELSE "load")
    /\ UNCHANGED <<authority, redis, registered, sockets, sent, issued, faults>>

\* cleanupDisconnectedDevice after a transaction that ended nothing.
CleanupRecheck(l) ==
    /\ At(l, "recheck")
    /\ IF status \in Terminal THEN Goto(l, "delIndex") ELSE Finish(l)
    /\ UNCHANGED <<authority, stores, registered, sockets, sent, issued, faults>>

\* loadPendingOfferReplayCandidate: its read of the row ...
ReplayRecord(l) ==
    /\ At(l, "load") /\ req[l].op = "replay"
    /\ Goto(l, IF status = "ringing" THEN "session" ELSE "delIndex")
    /\ UNCHANGED <<authority, stores, registered, sockets, sent, issued, faults>>

\* ... and its read of the session.
ReplaySession(l) ==
    LET d == Dev(l)
        s == SessionIn("ws")
    IN
    /\ At(l, "session") /\ req[l].op = "replay"
    /\ Fill("ws")
    /\ \/ s # NoSession /\ s.callee # NoDev /\ Goto(l, "delIndex")
       \/ /\ s # NoSession /\ s.callee = NoDev /\ d \in s.invited
          /\ Carry(l, "route", NoSession,
                   {[type |-> "offer", from |-> s.caller, to |-> d]})
       \/ /\ s # NoSession => s.callee = NoDev /\ d \notin s.invited
          /\ Finish(l)
    /\ UNCHANGED <<authority, redis, rindex, cindex, registered, sockets, sent,
                   issued, faults>>

-----------------------------------------------------------------------------
(* The rest of the system.                                                 *)

\* Another device of the called user signs in; it was not invited.
RegisterDevice(d) ==
    /\ d \in CalleeDevs \ registered
    /\ registered' = registered \cup {d}
    /\ UNCHANGED <<authority, stores, req, sockets, sent, issued, faults>>

\* Mutation: an answered call counts as ringing.
MarkStaleLive ==
    /\ status \in Live /\ RowFree
    /\ status' = "missed"
    /\ UNCHANGED <<lock, answeredBy, endedBy, stores, req, registered, sockets,
                   sent, issued, faults>>

\* The retention job closes calls that ring for too long (it takes the row).
MarkStaleRinging ==
    /\ status = "ringing" /\ RowFree
    /\ status' = "missed"
    /\ UNCHANGED <<lock, answeredBy, endedBy, stores, req, registered, sockets,
                   sent, issued, faults>>

\* The keys of the call have not been written for ttlSeconds.
RedisExpires ==
    /\ redis # NoSession /\ expiries < MaxExpiries
    /\ redis' = NoSession /\ rindex' = {}
    /\ expiries' = expiries + 1
    /\ UNCHANGED <<authority, cache, cindex, req, registered, sockets, sent,
                   issued, restarts>>

CacheExpires(s) ==
    /\ cache[s] # NoSession /\ expiries < MaxExpiries
    /\ cache' = [cache EXCEPT ![s] = NoSession]
    /\ cindex' = [cindex EXCEPT ![s] = {}]
    /\ expiries' = expiries + 1
    /\ UNCHANGED <<authority, redis, rindex, req, registered, sockets, sent,
                   issued, restarts>>

\* The API process restarts: its handlers, timers and caches are gone, the open
\* transaction is rolled back, and every socket is closed.
Restart ==
    /\ restarts < MaxRestarts /\ restarts' = restarts + 1
    /\ lock' = NoLane
    /\ cache' = [s \in Stores |-> NoSession] /\ cindex' = [s \in Stores |-> {}]
    /\ req' = [l \in Lanes |-> Idle]
    /\ online' = {} /\ timer' = [d \in Devices |-> "off"]
    /\ UNCHANGED <<status, answeredBy, endedBy, redis, rindex, registered,
                   drops, connects, sent, issued, expiries>>

\* One step of the handler that lane l runs.
Step(l) ==
    \/ RestCheck(l) \/ StoreOffer(l) \/ LoadRecord(l) \/ LoadSession(l)
    \/ AnswerLock(l) \/ RejectLock(l) \/ HangupLock(l) \/ CleanupLock(l)
    \/ Commit(l)
    \/ SetIndex(l) \/ SetSession(l) \/ DelIndex(l) \/ DelSession(l) \/ Route(l)
    \/ ListByDevice(l) \/ CleanupRecheck(l) \/ ReplayRecord(l) \/ ReplaySession(l)

Users == \E l \in Lanes : \E op \in OpsOf(l) : Begin(l, op)

Sockets == \E d \in Devices :
    Disconnect(d) \/ ScheduleDisconnectCleanup(d) \/ Connect(d)
                  \/ DisconnectTimeout(d)

Environment ==
    \/ \E d \in CalleeDevs : RegisterDevice(d)
    \/ MarkStaleRinging
    \/ RedisExpires \/ (\E s \in Stores : CacheExpires(s)) \/ Restart

Next == Users \/ (\E l \in Lanes : Step(l)) \/ Sockets \/ Environment

Spec == Init /\ [][Next]_vars

\* The event loop runs what is ready, timers fire; users owe nothing.
Fairness ==
    /\ \A l \in Lanes : WF_vars(Step(l))
    /\ \A d \in Devices : WF_vars(ScheduleDisconnectCleanup(d))
                            /\ WF_vars(DisconnectTimeout(d))

FairSpec == Spec /\ Fairness

-----------------------------------------------------------------------------
(* Properties.                                                             *)

SentOf(type) == {m \in sent : m.type = type}

\* Every session, in Redis, in a cache or in the hands of a handler.
Sessions == {redis} \cup {cache[s] : s \in Stores} \cup {req[l].sess : l \in Lanes}

\* A handler that carries the session of an answer not yet committed.
Answering(l) == req[l].op = "answer" /\ req[l].pc = "commit"

\* However stale a session may be, the device it names as the one that answered
\* is the one whose answer the row was locked for: two callee devices that
\* answer together never leave two stores with two winners (acceptAnswer).
AgreeOnAnswerer ==
    /\ \A s \in ({redis} \cup {cache[st] : st \in Stores}) :
          s # NoSession => s.callee \in {NoDev, answeredBy}
    /\ \A l \in Lanes : req[l].sess # NoSession /\ ~Answering(l) =>
          req[l].sess.callee \in {NoDev, answeredBy}

\* The caller hears of at most one answer, from a device whose answer was
\* committed, and a call whose answer the caller heard of is never recorded as
\* missed or rejected.
AnswerIsReported ==
    \A m \in SentOf("answered") :
        m.from = answeredBy /\ status \in {"active", "ended"}

\* Renegotiation only travels between the caller and the device that answered.
RenegotiationIsConfined ==
    \A m \in SentOf("reneg") :
        {m.from, m.to} \subseteq CallerDevs \cup {answeredBy}

\* Nobody is told that the call is over while it is not over for them: a hangup
\* or a reject reaches a device of a live call only when a sibling answered.
EndIsTrue ==
    \A m \in SentOf("hangup") \cup SentOf("rejected") :
        status \in Terminal
          \/ (m.from = answeredBy /\ m.to \in CalleeDevs \ {answeredBy})

\* Each live status is left once: the row never leaves a terminal status, never
\* rings again, and is never answered twice, whichever handlers race for it.
StatusMovesOnly ==
    [][ /\ status \in Terminal => status' = status
        /\ status = "active" => status' \in {"active", "ended"}
        /\ answeredBy # NoDev => answeredBy' = answeredBy
        /\ endedBy # NoDev => endedBy' = endedBy ]_vars

\* Whoever ends an answered call, and however stale the session is, the device
\* at the other end is told, as long as the process lives and no key expires.
CounterpartIsTold ==
    /\ (status = "ended" /\ answeredBy # NoDev /\ endedBy \in CallerDevs)
          ~> (\E m \in SentOf("hangup") : m.to = answeredBy /\ m.from = endedBy)
    /\ endedBy \in CalleeDevs
          ~> (\E m \in sent : m.type \in {"hangup", "rejected"}
                                /\ m.to \in CallerDevs /\ m.from = endedBy)

\* Every handler comes to its end: none waits for the row for ever, and none
\* keeps it.
HandlersFinish == \A l \in Lanes : ~At(l, "idle") ~> At(l, "idle")

-----------------------------------------------------------------------------
(* What the handlers and the stores amount to: the life of a call.         *)

Lifecycle == INSTANCE CallLifecycle WITH
    told  <- {m.to : m \in SentOf("hangup") \cup SentOf("rejected")},
    heard <- SentOf("answered") # {}

ImplementsLifecycle == Lifecycle!Spec
=============================================================================
