-------------------------- MODULE DirectCallProofs --------------------------
(***************************************************************************)
(* Theorems about DirectCall, for every set of devices and every bound.    *)
(***************************************************************************)
EXTENDS DirectCall, TLAPS

-----------------------------------------------------------------------------
(* The inductive invariant.                                                *)

\* Only a device of the caller carries an offer.
OffersFromCaller == \A l \in Lanes : req[l].op = "offer" => Dev(l) \in CallerDevs

\* A handler about to commit holds the row, and what it will write follows from
\* the status it found there, which nobody has changed since.
CommitIsSound ==
    \A l \in Lanes : At(l, "commit") =>
        /\ lock = l
        /\ status \in Live
        /\ req[l].mut \in Statuses \ {"ringing"}
        /\ status = "active" => req[l].mut = "ended"
        /\ req[l].mut = "active" =>
              /\ req[l].op = "answer" /\ req[l].sess \in Session
              /\ req[l].sess.callee = Dev(l) /\ Dev(l) \in CalleeDevs
        /\ req[l].op = "answer" /\ req[l].mut # "active" =>
              req[l].sess = NoSession

\* What the history variables say of the row.
HistoryOfRow ==
    /\ answeredBy # NoDev => status # "ringing"
    /\ endedBy # NoDev => status \in Terminal

TInv == TypeOK /\ OffersFromCaller /\ CommitIsSound
IInv == TInv /\ HistoryOfRow /\ AgreeOnAnswerer

\* The invariant without the types.
Consistent == OffersFromCaller /\ CommitIsSound /\ HistoryOfRow /\ AgreeOnAnswerer

\* A session names no device, or the one whose answer was committed.
Settled(s) == s # NoSession => s.callee \in {NoDev, answeredBy}

StoresSettled == Settled(redis) /\ \A st \in Stores : Settled(cache[st])

\* A step of lane l after which it is not about to commit.
Quiet(l) ==
    /\ \A k \in Lanes \ {l} : req'[k] = req[k]
    /\ req'[l].pc # "commit"
    /\ req'[l].op = "offer" => Dev(l) \in CallerDevs
    /\ Settled(req'[l].sess)

-----------------------------------------------------------------------------
(* Types of the pieces the actions are made of.                            *)

LEMMA LaneType ==
    ASSUME NEW l \in Lanes
    PROVE  Dev(l) \in Devices /\ StoreOf(l) \in Stores
BY DEF Lanes, Dev, StoreOf, Stores

LEMMA SessionInType ==
    ASSUME TypeOK, NEW s \in Stores
    PROVE  SessionIn(s) \in Session \cup {NoSession}
BY DEF TypeOK, SessionIn

LEMMA FillType ==
    ASSUME TypeOK, NEW s \in Stores, Fill(s)
    PROVE  cache' \in [Stores -> Session \cup {NoSession}]
BY SessionInType DEF TypeOK, Fill

LEMMA ParticipantsType ==
    ASSUME NEW sess \in Session \cup {NoSession}
    PROVE  Participants(sess) \subseteq Devices
BY DEF Participants, Session, Devices

LEMMA ReindexType ==
    ASSUME TypeOK, NEW s \in Stores, NEW old, 
           NEW new \in Session \cup {NoSession}, Reindex(s, old, new)
    PROVE  rindex' \subseteq Devices /\ cindex' \in [Stores -> SUBSET Devices]
BY ParticipantsType DEF TypeOK, Reindex

LEMMA MsgType ==
    ASSUME TypeOK, NEW l \in Lanes, NEW to \in Devices,
           NEW type \in {"offer", "answered", "hangup", "rejected", "ice",
                         "reneg", "stale"}
    PROVE  Msg(l, type, to) \in Messages
BY LaneType DEF Msg, Messages

LEMMA MsgAllType ==
    ASSUME TypeOK, NEW l \in Lanes, NEW to, to \subseteq Devices,
           NEW type \in {"offer", "answered", "hangup", "rejected", "ice",
                         "reneg", "stale"}
    PROVE  MsgAll(l, type, to) \subseteq Messages
BY MsgType DEF MsgAll

LEMMA IdleType == Idle \in Requests
BY DEF Idle, Requests, Ops, Pcs

LEMMA GotoType ==
    ASSUME TypeOK, NEW l \in Lanes, NEW pc \in Pcs, Goto(l, pc)
    PROVE  req' \in [Lanes -> Requests]
BY DEF TypeOK, Goto, Requests

LEMMA FinishType ==
    ASSUME TypeOK, NEW l \in Lanes, Finish(l)
    PROVE  req' \in [Lanes -> Requests]
BY IdleType DEF TypeOK, Finish

LEMMA RequestEdits ==
    ASSUME NEW q \in Requests, NEW pc \in Pcs, NEW mut \in Statuses,
           NEW sess \in Session \cup {NoSession}, NEW out \in SUBSET Messages
    PROVE  /\ [q EXCEPT !.pc = pc, !.sess = sess, !.out = out] \in Requests
           /\ [q EXCEPT !.pc = pc, !.mut = mut, !.sess = sess, !.out = out]
                \in Requests
BY DEF Requests

LEMMA CarryType ==
    ASSUME TypeOK, NEW l \in Lanes, NEW pc \in Pcs,
           NEW sess \in Session \cup {NoSession}, NEW out \in SUBSET Messages,
           Carry(l, pc, sess, out)
    PROVE  req' \in [Lanes -> Requests]
<1>1. "ringing" \in Statuses /\ req[l] \in Requests
  BY DEF TypeOK, Statuses, Live
<1>2. [req[l] EXCEPT !.pc = pc, !.sess = sess, !.out = out] \in Requests
  BY <1>1, RequestEdits
<1> QED
  BY <1>2 DEF TypeOK, Carry

LEMMA HoldType ==
    ASSUME TypeOK, NEW l \in Lanes, NEW mut \in Statuses,
           NEW sess \in Session \cup {NoSession}, NEW out \in SUBSET Messages,
           Hold(l, mut, sess, out)
    PROVE  req' \in [Lanes -> Requests] /\ lock' \in Lanes \cup {NoLane}
<1>1. "commit" \in Pcs /\ req[l] \in Requests
  BY DEF Pcs, TypeOK
<1>2. [req[l] EXCEPT !.pc = "commit", !.mut = mut, !.sess = sess, !.out = out]
        \in Requests
  BY <1>1, RequestEdits
<1> QED
  BY <1>2 DEF TypeOK, Hold

LEMMA TargetsType ==
    ASSUME TypeOK, NEW s \in Session \cup {NoSession}
    PROVE  /\ CallerTargetIds(s) \subseteq Devices
           /\ CalleeTargetIds(s) \subseteq Devices
BY DEF TypeOK, CallerTargetIds, CalleeTargetIds, Session, Devices

LEMMA HoldEndType ==
    ASSUME TypeOK, NEW l \in Lanes, NEW mut \in Statuses,
           NEW s \in Session \cup {NoSession}, NEW asCaller,
           HoldEnd(l, mut, s, asCaller)
    PROVE  req' \in [Lanes -> Requests] /\ lock' \in Lanes \cup {NoLane}
<1>1. (IF asCaller THEN CalleeTargetIds(s) ELSE CallerTargetIds(s))
         \subseteq Devices
  BY TargetsType
<1>2. MsgAll(l, "hangup", IF asCaller THEN CalleeTargetIds(s)
                          ELSE CallerTargetIds(s)) \in SUBSET Messages
  BY <1>1, MsgAllType
<1> QED
  BY <1>2, HoldType DEF HoldEnd

LEMMA RelayTargetsType ==
    ASSUME NEW l \in Lanes, NEW s \in Session
    PROVE  /\ PeerTargets(Dev(l), s) \subseteq Devices
           /\ RenegTargets(Dev(l), s) \subseteq Devices
BY LaneType DEF PeerTargets, RenegTargets, CalleeTargets, AllowedCallee,
                Session, Devices

\* Every step of a lane keeps the types.
LEMMA LaneStepType ==
    ASSUME TInv, NEW l \in Lanes, Step(l)
    PROVE  TypeOK'
<1> USE DEF TInv
<1> DEFINE d == Dev(l)
           st == StoreOf(l)
           s  == SessionIn(st)
<1>l. d \in Devices /\ st \in Stores
  BY LaneType
<1>s. s \in Session \cup {NoSession}
  BY <1>l, SessionInType
<1>w. /\ "ws" \in Stores
      /\ SessionIn("ws") \in Session \cup {NoSession}
  BY SessionInType DEF Stores
<1>r. /\ req[l] \in Requests
      /\ req[l].sess \in Session \cup {NoSession}
      /\ req[l].out \in SUBSET Messages
      /\ req[l].mut \in Statuses \cup {"none"}
  BY DEF TypeOK, Requests
<1>p. \A pc \in {"idle", "check", "list", "load", "session", "lock", "commit",
                 "recheck", "setIndex", "setSession", "delIndex", "delSession",
                 "route"} : pc \in Pcs
  BY DEF Pcs
<1>1. CASE RestCheck(l)
  <2>1. req' \in [Lanes -> Requests]
    BY <1>1, <1>p, GotoType, FinishType DEF RestCheck
  <2> QED
    BY <1>1, <2>1 DEF RestCheck, TypeOK, authority, stores, sockets, faults
<1>2. CASE StoreOffer(l)
  <2>1. CASE status = "ringing"
    <3>1. d \in CallerDevs
      BY <1>2 DEF StoreOffer, OffersFromCaller
    <3>2. [caller |-> d, callee |-> NoDev, invited |-> registered] \in Session
      BY <3>1 DEF Session, TypeOK
    <3>3. MsgAll(l, "offer", registered) \in SUBSET Messages
      BY MsgAllType DEF TypeOK, Devices
    <3>4. Carry(l, "setIndex",
                [caller |-> d, callee |-> NoDev, invited |-> registered],
                MsgAll(l, "offer", registered))
      BY <1>2, <2>1 DEF StoreOffer, Terminal
    <3>5. req' \in [Lanes -> Requests]
      BY <3>2, <3>3, <3>4, <1>p, CarryType
    <3> QED
      BY <1>2, <3>5 DEF StoreOffer, TypeOK, authority, stores, sockets, faults
  <2>2. CASE status # "ringing"
    <3>1. req' \in [Lanes -> Requests]
      BY <1>2, <2>2, <1>p, GotoType, FinishType DEF StoreOffer
    <3> QED
      BY <1>2, <3>1 DEF StoreOffer, TypeOK, authority, stores, sockets, faults
  <2> QED
    BY <2>1, <2>2
<1>3. CASE LoadRecord(l)
  <2>1. req' \in [Lanes -> Requests]
    BY <1>3, <1>p, GotoType, FinishType DEF LoadRecord
  <2> QED
    BY <1>3, <2>1 DEF LoadRecord, TypeOK, authority, stores, sockets, faults
<1>4. CASE LoadSession(l)
  <2>1. cache' \in [Stores -> Session \cup {NoSession}]
    BY <1>4, <1>l, FillType DEF LoadSession
  <2>2. sent' \subseteq Messages
    BY <1>4, <1>l, MsgType DEF LoadSession, TypeOK
  <2>3. s # NoSession => /\ MsgAll(l, "ice", PeerTargets(d, s)) \in SUBSET Messages
                         /\ MsgAll(l, "reneg", RenegTargets(d, s)) \in SUBSET Messages
    BY <1>s, RelayTargetsType, MsgAllType
  <2>4. req' \in [Lanes -> Requests]
    BY <1>4, <1>s, <2>3, <1>p, GotoType, FinishType, CarryType DEF LoadSession
  <2> QED
    BY <1>4, <2>1, <2>2, <2>4 DEF LoadSession, TypeOK, authority, sockets, faults
<1>5. CASE AnswerLock(l)
  <2> DEFINE sw == SessionIn("ws")
  <2>1. CASE Answerable
    <3>1. cache' \in [Stores -> Session \cup {NoSession}]
      BY <1>5, <2>1, <1>w, FillType DEF AnswerLock
    <3>2. CASE Hold(l, "missed", sw, {Msg(l, "stale", d)})
      <4>1. {Msg(l, "stale", d)} \in SUBSET Messages
        BY <1>l, MsgType
      <4>2. req' \in [Lanes -> Requests] /\ lock' \in Lanes \cup {NoLane}
        BY <3>2, <4>1, <1>w, HoldType DEF Statuses, Terminal
      <4> QED
        BY <1>5, <3>1, <4>2 DEF AnswerLock, TypeOK, sockets, faults
    <3>3. CASE /\ sw # NoSession /\ d \in sw.invited
               /\ Hold(l, "active", [sw EXCEPT !.callee = d],
                       {Msg(l, "answered", sw.caller)}
                          \cup MsgAll(l, "hangup", Siblings(sw, d)))
      <4>1. [sw EXCEPT !.callee = d] \in Session
        BY <3>3, <1>w DEF Session
      <4>2. sw.caller \in Devices /\ Siblings(sw, d) \subseteq Devices
        BY <3>3, <1>w DEF Session, Siblings, Devices
      <4>3. {Msg(l, "answered", sw.caller)}
               \cup MsgAll(l, "hangup", Siblings(sw, d)) \in SUBSET Messages
        BY <4>2, MsgType, MsgAllType
      <4>4. req' \in [Lanes -> Requests] /\ lock' \in Lanes \cup {NoLane}
        BY <3>3, <4>1, <4>3, HoldType DEF Statuses, Live
      <4> QED
        BY <1>5, <3>1, <4>4 DEF AnswerLock, TypeOK, sockets, faults
    <3>4. CASE Refuse(l)
      <4>1. req' \in [Lanes -> Requests]
        BY <3>4, FinishType DEF Refuse
      <4> QED
        BY <1>5, <3>1, <3>4, <4>1 DEF AnswerLock, Refuse, TypeOK, sockets, faults
    <3> QED
      BY <1>5, <2>1, <3>2, <3>3, <3>4 DEF AnswerLock
  <2>2. CASE ~Answerable
    <3>1. req' \in [Lanes -> Requests] /\ UNCHANGED <<lock, cache>>
      BY <1>5, <2>2, FinishType DEF AnswerLock, Refuse
    <3> QED
      BY <1>5, <3>1 DEF AnswerLock, TypeOK, sockets, faults
  <2> QED
    BY <2>1, <2>2
<1>6. CASE RejectLock(l)
  <2>1. cache' \in [Stores -> Session \cup {NoSession}]
    BY <1>6, <1>l, FillType DEF RejectLock, TypeOK
  <2>2. CASE Hold(l, "rejected", s,
                  MsgAll(l, "rejected", CallerTargetIds(s)) \cup
                  (IF s = NoSession THEN {}
                   ELSE MsgAll(l, "hangup", Siblings(s, d))))
    <3>1. s # NoSession => Siblings(s, d) \subseteq Devices
      BY <1>s DEF Session, Siblings, Devices
    <3>2. MsgAll(l, "rejected", CallerTargetIds(s)) \cup
             (IF s = NoSession THEN {} ELSE MsgAll(l, "hangup", Siblings(s, d)))
               \in SUBSET Messages
      BY <1>s, <3>1, TargetsType, MsgAllType
    <3>3. req' \in [Lanes -> Requests] /\ lock' \in Lanes \cup {NoLane}
      BY <2>2, <1>s, <3>2, HoldType DEF Statuses, Terminal
    <3> QED
      BY <1>6, <2>1, <3>3 DEF RejectLock, TypeOK, sockets, faults
  <2>3. CASE Refuse(l) \/ Release(l, "delIndex")
    <3>1. req' \in [Lanes -> Requests] /\ UNCHANGED lock
      BY <2>3, <1>p, GotoType, FinishType DEF Refuse, Release
    <3> QED
      BY <1>6, <2>1, <3>1 DEF RejectLock, TypeOK, sockets, faults
  <2> QED
    BY <1>6, <2>2, <2>3 DEF RejectLock
<1>7. CASE HangupLock(l)
  <2>1. cache' \in [Stores -> Session \cup {NoSession}]
    BY <1>7, <1>l, FillType DEF HangupLock, TypeOK
  <2>2. req' \in [Lanes -> Requests] /\ lock' \in Lanes \cup {NoLane}
    <3>1. CASE Release(l, "delIndex")
      BY <3>1, <1>p, GotoType DEF Release, TypeOK
    <3>2. CASE HoldEnd(l, IF d \in CallerDevs /\ status = "ringing"
                          THEN "missed" ELSE "ended", s, d \in CallerDevs)
      <4>1. (IF d \in CallerDevs /\ status = "ringing" THEN "missed" ELSE "ended")
               \in Statuses
        BY DEF Statuses, Terminal
      <4> QED
        BY <3>2, <4>1, <1>s, HoldEndType
    <3> QED
      BY <1>7, <3>1, <3>2 DEF HangupLock
  <2> QED
    BY <1>7, <2>1, <2>2 DEF HangupLock, TypeOK, sockets, faults
<1>8. CASE CleanupLock(l)
  <2>1. cache' \in [Stores -> Session \cup {NoSession}]
    BY <1>8, <1>w, FillType DEF CleanupLock, TypeOK
  <2>2. req' \in [Lanes -> Requests] /\ lock' \in Lanes \cup {NoLane}
    <3>1. CASE Release(l, "recheck")
      BY <3>1, <1>p, GotoType DEF Release, TypeOK
    <3>2. CASE HoldEnd(l, IF status = "ringing" THEN "missed" ELSE "ended",
                       SessionIn("ws"), d \in CallerDevs)
      <4>1. (IF status = "ringing" THEN "missed" ELSE "ended") \in Statuses
        BY DEF Statuses, Terminal
      <4> QED
        BY <3>2, <4>1, <1>w, HoldEndType
    <3> QED
      BY <1>8, <3>1, <3>2 DEF CleanupLock
  <2> QED
    BY <1>8, <2>1, <2>2 DEF CleanupLock, TypeOK, sockets, faults
<1>9. CASE Commit(l)
  <2>1. req' \in [Lanes -> Requests]
    BY <1>9, <1>p, GotoType DEF Commit
  <2>2. status' \in Statuses
    BY <1>9 DEF Commit, CommitIsSound
  <2>3. answeredBy' \in CalleeDevs \cup {NoDev} /\ endedBy' \in Devices \cup {NoDev}
    BY <1>9, <1>l DEF Commit, CommitIsSound, TypeOK
  <2> QED
    BY <1>9, <2>1, <2>2, <2>3 DEF Commit, FreeRow, TypeOK, stores, sockets, faults
<1>10. CASE SetIndex(l)
  <2>1. req' \in [Lanes -> Requests]
    BY <1>10, <1>p, GotoType DEF SetIndex
  <2>2. /\ cache' \in [Stores -> Session \cup {NoSession}]
        /\ rindex' \subseteq Devices
        /\ cindex' \in [Stores -> SUBSET Devices]
    BY <1>10, <1>l, <1>r, FillType, ReindexType DEF SetIndex
  <2> QED
    BY <1>10, <2>1, <2>2 DEF SetIndex, TypeOK, authority, sockets, faults
<1>11. CASE SetSession(l)
  <2>1. req' \in [Lanes -> Requests]
    BY <1>11, <1>p, GotoType DEF SetSession
  <2> QED
    BY <1>11, <1>l, <1>r, <2>1 DEF SetSession, TypeOK, authority, sockets, faults
<1>12. CASE DelIndex(l)
  <2>1. req' \in [Lanes -> Requests]
    BY <1>12, <1>p, GotoType DEF DelIndex
  <2>2. /\ cache' \in [Stores -> Session \cup {NoSession}]
        /\ rindex' \subseteq Devices
        /\ cindex' \in [Stores -> SUBSET Devices]
    BY <1>12, <1>l, FillType, ReindexType DEF DelIndex
  <2> QED
    BY <1>12, <2>1, <2>2 DEF DelIndex, TypeOK, authority, sockets, faults
<1>13. CASE DelSession(l)
  <2>1. req' \in [Lanes -> Requests]
    BY <1>13, <1>p, GotoType, FinishType DEF DelSession
  <2> QED
    BY <1>13, <2>1 DEF DelSession, TypeOK, authority, sockets, faults
<1>14. CASE Route(l)
  <2>1. req' \in [Lanes -> Requests]
    BY <1>14, FinishType DEF Route
  <2> QED
    BY <1>14, <1>r, <2>1 DEF Route, TypeOK, authority, stores, sockets, faults
<1>15. CASE ListByDevice(l)
  <2>1. req' \in [Lanes -> Requests]
    BY <1>15, <1>p, GotoType, FinishType DEF ListByDevice
  <2>2. cache' \in [Stores -> Session \cup {NoSession}]
    BY <1>15, <1>w, FillType DEF ListByDevice, TypeOK
  <2>3. rindex' \subseteq Devices /\ cindex' \in [Stores -> SUBSET Devices]
    BY <1>15, <1>l DEF ListByDevice, TypeOK
  <2> QED
    BY <1>15, <2>1, <2>2, <2>3 DEF ListByDevice, TypeOK, authority, sockets, faults
<1>16. CASE CleanupRecheck(l)
  <2>1. req' \in [Lanes -> Requests]
    BY <1>16, <1>p, GotoType, FinishType DEF CleanupRecheck
  <2> QED
    BY <1>16, <2>1 DEF CleanupRecheck, TypeOK, authority, stores, sockets, faults
<1>17. CASE ReplayRecord(l)
  <2>1. req' \in [Lanes -> Requests]
    BY <1>17, <1>p, GotoType, FinishType DEF ReplayRecord
  <2> QED
    BY <1>17, <2>1 DEF ReplayRecord, TypeOK, authority, stores, sockets, faults
<1>18. CASE ReplaySession(l)
  <2> DEFINE sw == SessionIn("ws")
             offer == [type |-> "offer", from |-> sw.caller, to |-> d]
  <2>1. sw # NoSession => {offer} \in SUBSET Messages
    BY <1>w, <1>l DEF Messages, Session, Devices
  <2>2. req' \in [Lanes -> Requests]
    BY <1>18, <2>1, <1>p, GotoType, FinishType, CarryType DEF ReplaySession
  <2>3. cache' \in [Stores -> Session \cup {NoSession}]
    BY <1>18, <1>w, FillType DEF ReplaySession
  <2> QED
    BY <1>18, <2>2, <2>3 DEF ReplaySession, TypeOK, authority, sockets, faults
<1> QED
  BY <1>1, <1>2, <1>3, <1>4, <1>5, <1>6, <1>7, <1>8, <1>9, <1>10, <1>11, <1>12,
     <1>13, <1>14, <1>15, <1>16, <1>17, <1>18 DEF Step

\* So does every other step, and the initial state has them.
LEMMA TypeStep == TInv /\ [Next]_vars => TypeOK'
<1> SUFFICES ASSUME TInv, [Next]_vars
             PROVE  TypeOK'
  OBVIOUS
<1> USE DEF TInv
<1>i. Idle \in Requests
  BY IdleType
<1>1. ASSUME NEW l \in Lanes, NEW op \in OpsOf(l), Begin(l, op)
      PROVE  TypeOK'
  <2>1. op \in Ops /\ FirstPc(l, op) \in Pcs
    BY <1>1 DEF OpsOf, Ops, FirstPc, Pcs
  <2>2. [Idle EXCEPT !.op = op, !.pc = FirstPc(l, op)] \in Requests
    BY <2>1, <1>i DEF Idle, Requests
  <2>3. req' \in [Lanes -> Requests]
    BY <1>1, <2>2 DEF Begin, TypeOK
  <2>4. issued' \in Nat
    BY <1>1 DEF Begin, TypeOK
  <2> QED
    BY <1>1, <2>3, <2>4 DEF Begin, TypeOK, authority, stores, sockets, faults
<1>2. ASSUME NEW l \in Lanes, Step(l)
      PROVE  TypeOK'
  BY <1>2, LaneStepType
<1>3. ASSUME NEW d \in Devices, Disconnect(d)
      PROVE  TypeOK'
  BY <1>3 DEF Disconnect, TypeOK, authority, stores, faults
<1>4. ASSUME NEW d \in Devices, ScheduleDisconnectCleanup(d)
      PROVE  TypeOK'
  BY <1>4 DEF ScheduleDisconnectCleanup, TypeOK, authority, stores, faults
<1>5. ASSUME NEW d \in Devices, Connect(d)
      PROVE  TypeOK'
  <2>1. [Idle EXCEPT !.op = "replay", !.pc = "list"] \in Requests
    BY <1>i DEF Idle, Requests, Ops, Pcs
  <2>2. req' \in [Lanes -> Requests]
    BY <1>5, <2>1 DEF Connect, TypeOK
  <2>3. connects' \in Nat /\ timer' \in [Devices -> {"off", "closing", "armed"}]
    BY <1>5 DEF Connect, TypeOK
  <2> QED
    BY <1>5, <2>2, <2>3 DEF Connect, TypeOK, authority, stores, faults
<1>6. ASSUME NEW d \in Devices, DisconnectTimeout(d)
      PROVE  TypeOK'
  <2>1. [Idle EXCEPT !.op = "cleanup", !.pc = "list"] \in Requests
    BY <1>i DEF Idle, Requests, Ops, Pcs
  <2>2. req' \in [Lanes -> Requests]
    BY <1>6, <2>1 DEF DisconnectTimeout, TypeOK
  <2> QED
    BY <1>6, <2>2 DEF DisconnectTimeout, TypeOK, authority, stores, faults
<1>7. ASSUME NEW d \in CalleeDevs, RegisterDevice(d)
      PROVE  TypeOK'
  BY <1>7 DEF RegisterDevice, TypeOK, authority, stores, sockets, faults
<1>8. CASE MarkStaleRinging
  BY <1>8 DEF MarkStaleRinging, TypeOK, stores, sockets, faults, Statuses, Terminal
<1>9. CASE RedisExpires
  BY <1>9 DEF RedisExpires, TypeOK, authority, sockets
<1>10. ASSUME NEW st \in Stores, CacheExpires(st)
       PROVE  TypeOK'
  BY <1>10 DEF CacheExpires, TypeOK, authority, sockets
<1>11. CASE Restart
  BY <1>11, <1>i DEF Restart, TypeOK
<1>12. CASE UNCHANGED vars
  BY <1>12 DEF vars, TypeOK
<1> QED
  BY <1>1, <1>2, <1>3, <1>4, <1>5, <1>6, <1>7, <1>8, <1>9, <1>10, <1>11, <1>12
     DEF Next, Users, Sockets, Environment

LEMMA InitType == Init => TypeOK
BY IdleType, DirectCallAssumption
   DEF Init, TypeOK, Statuses, Live

-----------------------------------------------------------------------------
(* The row and the sessions: steps that do not touch the row.              *)

LEMMA AgreeIsSettled ==
    AgreeOnAnswerer <=> /\ StoresSettled
                        /\ \A l \in Lanes : ~Answering(l) => Settled(req[l].sess)
BY DEF AgreeOnAnswerer, StoresSettled, Settled

LEMMA GotoQuiet ==
    ASSUME IInv, NEW l \in Lanes, NEW pc, pc # "commit", ~At(l, "commit"),
           Goto(l, pc)
    PROVE  Quiet(l)
<1>1. /\ \A k \in Lanes \ {l} : req'[k] = req[k]
      /\ req'[l].pc = pc /\ req'[l].op = req[l].op /\ req'[l].sess = req[l].sess
  BY DEF IInv, TInv, TypeOK, Goto, Requests
<1>2. Settled(req[l].sess)
  BY AgreeIsSettled DEF IInv, At, Answering
<1> QED
  BY <1>1, <1>2 DEF Quiet, IInv, TInv, OffersFromCaller

LEMMA FinishQuiet ==
    ASSUME IInv, NEW l \in Lanes, Finish(l)
    PROVE  Quiet(l)
BY DEF IInv, TInv, TypeOK, Finish, Quiet, Idle, Settled

LEMMA CarryQuiet ==
    ASSUME IInv, NEW l \in Lanes, NEW pc, pc # "commit",
           NEW sess, Settled(sess), NEW out, Carry(l, pc, sess, out)
    PROVE  Quiet(l)
<1>1. /\ \A k \in Lanes \ {l} : req'[k] = req[k]
      /\ req'[l].pc = pc /\ req'[l].op = req[l].op /\ req'[l].sess = sess
  BY DEF IInv, TInv, TypeOK, Carry, Requests
<1> QED
  BY <1>1 DEF Quiet, IInv, TInv, OffersFromCaller

LEMMA SessionInSettled ==
    ASSUME IInv, NEW s \in Stores
    PROVE  Settled(SessionIn(s))
BY AgreeIsSettled DEF IInv, StoresSettled, SessionIn

LEMMA FillSettled ==
    ASSUME IInv, NEW s \in Stores, Fill(s) \/ UNCHANGED cache, UNCHANGED <<redis, answeredBy>>
    PROVE  StoresSettled'
BY SessionInSettled, AgreeIsSettled
   DEF IInv, TInv, TypeOK, Fill, StoresSettled, Settled

LEMMA QuietStep ==
    ASSUME IInv, NEW l \in Lanes, Quiet(l), UNCHANGED authority, StoresSettled'
    PROVE  Consistent'
<1>1. OffersFromCaller'
  BY DEF Quiet, IInv, TInv, OffersFromCaller
<1>2. CommitIsSound'
  BY DEF Quiet, IInv, TInv, CommitIsSound, At, authority
<1>3. HistoryOfRow'
  BY DEF IInv, HistoryOfRow, authority
<1>4. (\A k \in Lanes : ~Answering(k) => Settled(req[k].sess))'
  BY AgreeIsSettled DEF Quiet, IInv, Answering, Settled, authority
<1>5. AgreeOnAnswerer'
  BY <1>4 DEF AgreeOnAnswerer, StoresSettled, Settled
<1> QED
  BY <1>1, <1>2, <1>3, <1>5 DEF Consistent

LEMMA HoldStep ==
    ASSUME IInv, NEW l \in Lanes, NEW mut \in Statuses \ {"ringing"},
           NEW sess, NEW out,
           RowFree, Hold(l, mut, sess, out), StoresSettled',
           UNCHANGED <<status, answeredBy, endedBy>>,
           status \in Live, status = "active" => mut = "ended",
           mut = "active" => /\ req[l].op = "answer" /\ sess \in Session
                             /\ sess.callee = Dev(l) /\ Dev(l) \in CalleeDevs,
           req[l].op = "answer" => mut = "active" \/ sess = NoSession,
           req[l].op # "answer" => Settled(sess)
    PROVE  Consistent'
<1>1. /\ \A k \in Lanes \ {l} : req'[k] = req[k]
      /\ req'[l].pc = "commit" /\ req'[l].op = req[l].op
      /\ req'[l].mut = mut /\ req'[l].sess = sess
      /\ lock = NoLane /\ lock' = l
  BY DEF IInv, TInv, TypeOK, Hold, Requests, RowFree
<1>2. \A k \in Lanes : ~At(k, "commit")
  BY <1>1, NoLaneAssumption DEF IInv, TInv, CommitIsSound
<1>3. OffersFromCaller'
  BY <1>1 DEF IInv, TInv, OffersFromCaller
<1>4. CommitIsSound'
  BY <1>1, <1>2 DEF CommitIsSound, At
<1>5. HistoryOfRow'
  BY DEF IInv, HistoryOfRow
<1>6. (\A k \in Lanes : ~Answering(k) => Settled(req[k].sess))'
  BY <1>1, AgreeIsSettled DEF IInv, Answering, Settled
<1>7. AgreeOnAnswerer'
  BY <1>6 DEF AgreeOnAnswerer, StoresSettled, Settled
<1> QED
  BY <1>3, <1>4, <1>5, <1>7 DEF Consistent

-----------------------------------------------------------------------------
(* The invariant, action by action.                                        *)

LEMMA LaneStep ==
    ASSUME IInv, NEW l \in Lanes, Step(l)
    PROVE  Consistent'
<1> DEFINE d == Dev(l)
           st == StoreOf(l)
           s  == SessionIn(st)
           sw == SessionIn("ws")
<1>l. st \in Stores /\ "ws" \in Stores
  BY LaneType DEF Stores
<1>s. /\ Settled(s) /\ Settled(sw) /\ Settled(NoSession)
      /\ sw \in Session \cup {NoSession}
  BY <1>l, SessionInSettled, SessionInType DEF Settled, IInv, TInv
<1>c. StoresSettled /\ Settled(redis)
  BY AgreeIsSettled DEF IInv, StoresSettled
<1>q. ASSUME Quiet(l), UNCHANGED authority, StoresSettled'
      PROVE  Consistent'
  BY <1>q, QuietStep
<1>1. CASE RestCheck(l)
  <2>1. Quiet(l)
    BY <1>1, GotoQuiet, FinishQuiet DEF RestCheck, At
  <2> QED
    BY <1>1, <1>c, <1>q, <2>1
       DEF RestCheck, stores, authority, StoresSettled, Settled
<1>2. CASE StoreOffer(l)
  <2>1. Settled([caller |-> d, callee |-> NoDev, invited |-> registered])
    BY DEF Settled
  <2>2. Quiet(l)
    BY <1>2, <2>1, GotoQuiet, FinishQuiet, CarryQuiet DEF StoreOffer, At
  <2> QED
    BY <1>2, <1>c, <1>q, <2>2
       DEF StoreOffer, stores, authority, StoresSettled, Settled
<1>3. CASE LoadRecord(l)
  <2>1. Quiet(l)
    BY <1>3, GotoQuiet, FinishQuiet DEF LoadRecord, At
  <2> QED
    BY <1>3, <1>c, <1>q, <2>1
       DEF LoadRecord, stores, authority, StoresSettled, Settled
<1>4. CASE LoadSession(l)
  <2>1. Quiet(l)
    BY <1>4, <1>s, GotoQuiet, FinishQuiet, CarryQuiet DEF LoadSession, At
  <2>2. StoresSettled'
    BY <1>4, <1>l, FillSettled DEF LoadSession, authority
  <2> QED
    BY <1>4, <1>q, <2>1, <2>2 DEF LoadSession
<1>5. CASE AnswerLock(l)
  <2>1. StoresSettled'
    BY <1>5, <1>l, FillSettled DEF AnswerLock
  <2>2. CASE Answerable /\ sw = NoSession
             /\ Hold(l, "missed", sw, {Msg(l, "stale", d)})
    <3>1. RowFree /\ status = "ringing" /\ req[l].op = "answer"
      BY <1>5, <2>2 DEF AnswerLock, Answerable
    <3> QED
      BY <1>5, <2>1, <2>2, <3>1, HoldStep
         DEF AnswerLock, Statuses, Terminal, Live
  <2>3. CASE /\ Answerable
             /\ sw # NoSession /\ d \in sw.invited
             /\ Hold(l, "active", [sw EXCEPT !.callee = d],
                     {Msg(l, "answered", sw.caller)}
                        \cup MsgAll(l, "hangup", Siblings(sw, d)))
    <3>1. RowFree /\ status = "ringing" /\ req[l].op = "answer"
      BY <1>5, <2>3 DEF AnswerLock, Answerable
    <3>2. d \in CalleeDevs /\ [sw EXCEPT !.callee = d] \in Session
          /\ [sw EXCEPT !.callee = d].callee = d
      BY <2>3, <1>s DEF Session
    <3> QED
      BY <1>5, <2>1, <2>3, <3>1, <3>2, HoldStep
         DEF AnswerLock, Statuses, Live
  <2>4. CASE Refuse(l)
    BY <1>5, <2>1, <2>4, <1>q, FinishQuiet DEF AnswerLock, Refuse, authority
  <2> QED
    BY <1>5, <2>2, <2>3, <2>4 DEF AnswerLock
<1>6. CASE RejectLock(l)
  <2>1. StoresSettled'
    BY <1>6, <1>l, FillSettled DEF RejectLock
  <2>2. CASE Release(l, "delIndex") \/ Refuse(l)
    <3>1. Quiet(l) /\ UNCHANGED lock
      BY <1>6, <2>2, GotoQuiet, FinishQuiet DEF RejectLock, Refuse, Release, At
    <3> QED
      BY <1>6, <2>1, <3>1, <1>q DEF RejectLock, authority
  <2>3. CASE /\ status = "ringing"
             /\ Hold(l, "rejected", s,
                     MsgAll(l, "rejected", CallerTargetIds(s)) \cup
                     (IF s = NoSession THEN {}
                      ELSE MsgAll(l, "hangup", Siblings(s, d))))
    <3>1. RowFree /\ req[l].op = "reject"
      BY <1>6 DEF RejectLock
    <3> QED
      BY <1>6, <1>s, <2>1, <2>3, <3>1, HoldStep
         DEF RejectLock, Statuses, Terminal, Live
  <2> QED
    BY <1>6, <2>2, <2>3 DEF RejectLock
<1>7. CASE HangupLock(l)
  <2> DEFINE mut == IF d \in CallerDevs /\ status = "ringing"
                    THEN "missed" ELSE "ended"
             out == MsgAll(l, "hangup", IF d \in CallerDevs
                              THEN CalleeTargetIds(s) ELSE CallerTargetIds(s))
  <2>1. StoresSettled'
    BY <1>7, <1>l, FillSettled DEF HangupLock
  <2>2. CASE Release(l, "delIndex")
    <3>1. Quiet(l) /\ UNCHANGED lock
      BY <1>7, <2>2, GotoQuiet DEF HangupLock, Release, At
    <3> QED
      BY <1>7, <2>1, <3>1, <1>q DEF HangupLock, authority
  <2>3. CASE status \in Live /\ Hold(l, mut, s, out)
    <3>1. /\ RowFree /\ req[l].op = "hangup"
          /\ mut \in Statuses \ {"ringing"} /\ mut # "active"
          /\ status = "active" => mut = "ended"
      BY <1>7 DEF HangupLock, Statuses, Terminal
    <3> HIDE DEF mut, out
    <3> QED
      BY <1>7, <1>s, <2>1, <2>3, <3>1, HoldStep DEF HangupLock
  <2> QED
    BY <1>7, <2>2, <2>3 DEF HangupLock, HoldEnd
<1>8. CASE CleanupLock(l)
  <2> DEFINE mut == IF status = "ringing" THEN "missed" ELSE "ended"
             out == MsgAll(l, "hangup", IF d \in CallerDevs
                              THEN CalleeTargetIds(sw) ELSE CallerTargetIds(sw))
  <2>1. StoresSettled'
    BY <1>8, <1>l, FillSettled DEF CleanupLock
  <2>2. CASE Release(l, "recheck")
    <3>1. Quiet(l) /\ UNCHANGED lock
      BY <1>8, <2>2, GotoQuiet DEF CleanupLock, Release, At
    <3> QED
      BY <1>8, <2>1, <3>1, <1>q DEF CleanupLock, authority
  <2>3. CASE status \in Live /\ Hold(l, mut, sw, out)
    <3>1. /\ RowFree /\ req[l].op = "cleanup"
          /\ mut \in Statuses \ {"ringing"} /\ mut # "active"
          /\ status = "active" => mut = "ended"
      BY <1>8 DEF CleanupLock, Statuses, Terminal
    <3> HIDE DEF mut, out
    <3> QED
      BY <1>8, <1>s, <2>1, <2>3, <3>1, HoldStep DEF CleanupLock
  <2> QED
    BY <1>8, <2>2, <2>3 DEF CleanupLock, HoldEnd
<1>9. CASE Commit(l)
  <2> DEFINE accepted == req[l].op = "answer" /\ req[l].mut = "active"
  <2>1. /\ lock = l /\ status \in Live /\ lock' = NoLane
        /\ status' = req[l].mut /\ status' \in Statuses \ {"ringing"}
        /\ ~accepted => status' \in Terminal
    BY <1>9 DEF Commit, FreeRow, IInv, TInv, CommitIsSound, Statuses, Live
  <2>2. /\ \A k \in Lanes \ {l} : req'[k] = req[k]
        /\ req'[l].pc # "commit" /\ req'[l].op = req[l].op
        /\ req'[l].sess = req[l].sess
    BY <1>9 DEF Commit, Goto, IInv, TInv, TypeOK, Requests
  <2>3. \A k \in Lanes : req'[k].pc # "commit"
    BY <2>1, <2>2 DEF IInv, TInv, CommitIsSound, At
  <2>4. accepted => status = "ringing" /\ answeredBy = NoDev
    BY <1>9, <2>1 DEF Commit, IInv, TInv, CommitIsSound, HistoryOfRow, Live
  <2>5. OffersFromCaller'
    BY <2>2 DEF IInv, TInv, OffersFromCaller
  <2>6. CommitIsSound'
    BY <2>3 DEF CommitIsSound, At
  <2>7. endedBy = NoDev
    BY <2>1 DEF IInv, HistoryOfRow, Live, Terminal
  <2>8. HistoryOfRow'
    BY <1>9, <2>1, <2>7 DEF HistoryOfRow, Commit
  <2>9. /\ accepted => /\ answeredBy' = d /\ req[l].sess \in Session
                       /\ req[l].sess.callee = d
        /\ ~accepted => answeredBy' = answeredBy
    BY <1>9 DEF Commit, IInv, TInv, CommitIsSound
  <2>10. Settled(req[l].sess)'
    BY <1>9, <2>2, <2>9, AgreeIsSettled
       DEF Commit, At, Answering, IInv, TInv, CommitIsSound, Settled
  <2>11. \A k \in Lanes \ {l} : ~Answering(k)' => Settled(req[k].sess)'
    BY <2>2, <2>4, <2>9, AgreeIsSettled DEF Answering, IInv, Settled
  <2>12. StoresSettled'
    BY <1>9, <1>c, <2>4, <2>9 DEF Commit, stores, StoresSettled, Settled
  <2>13. AgreeOnAnswerer'
    BY <2>10, <2>11, <2>12 DEF AgreeOnAnswerer, StoresSettled, Settled
  <2> QED
    BY <2>5, <2>6, <2>8, <2>13 DEF Consistent
<1>10. CASE SetIndex(l)
  <2>1. Quiet(l)
    BY <1>10, GotoQuiet DEF SetIndex, At
  <2>2. StoresSettled'
    BY <1>10, <1>l, FillSettled DEF SetIndex, authority
  <2> QED
    BY <1>10, <1>q, <2>1, <2>2 DEF SetIndex
<1>11. CASE SetSession(l)
  <2>1. Quiet(l)
    BY <1>11, GotoQuiet DEF SetSession, At
  <2>2. Settled(req[l].sess)
    BY <1>11, AgreeIsSettled DEF IInv, SetSession, At, Answering
  <2>3. StoresSettled'
    BY <1>11, <1>c, <2>2
       DEF SetSession, authority, StoresSettled, Settled, IInv, TInv, TypeOK
  <2> QED
    BY <1>11, <1>q, <2>1, <2>3 DEF SetSession
<1>12. CASE DelIndex(l)
  <2>1. Quiet(l)
    BY <1>12, GotoQuiet DEF DelIndex, At
  <2>2. StoresSettled'
    BY <1>12, <1>l, FillSettled DEF DelIndex, authority
  <2> QED
    BY <1>12, <1>q, <2>1, <2>2 DEF DelIndex
<1>13. CASE DelSession(l)
  <2>1. Quiet(l)
    BY <1>13, GotoQuiet, FinishQuiet DEF DelSession, At
  <2>2. StoresSettled'
    BY <1>13, <1>c
       DEF DelSession, authority, StoresSettled, Settled, IInv, TInv, TypeOK
  <2> QED
    BY <1>13, <1>q, <2>1, <2>2 DEF DelSession
<1>14. CASE Route(l)
  <2>1. Quiet(l)
    BY <1>14, FinishQuiet DEF Route, At
  <2>2. StoresSettled'
    BY <1>14, <1>c
       DEF Route, authority, stores, StoresSettled, Settled
  <2> QED
    BY <1>14, <1>q, <2>1, <2>2 DEF Route
<1>15. CASE ListByDevice(l)
  <2>1. Quiet(l)
    BY <1>15, GotoQuiet, FinishQuiet DEF ListByDevice, At
  <2>2. StoresSettled'
    BY <1>15, <1>l, FillSettled DEF ListByDevice, authority
  <2> QED
    BY <1>15, <1>q, <2>1, <2>2 DEF ListByDevice
<1>16. CASE CleanupRecheck(l)
  <2>1. Quiet(l)
    BY <1>16, GotoQuiet, FinishQuiet DEF CleanupRecheck, At
  <2>2. StoresSettled'
    BY <1>16, <1>c
       DEF CleanupRecheck, authority, stores, StoresSettled, Settled
  <2> QED
    BY <1>16, <1>q, <2>1, <2>2 DEF CleanupRecheck
<1>17. CASE ReplayRecord(l)
  <2>1. Quiet(l)
    BY <1>17, GotoQuiet DEF ReplayRecord, At
  <2>2. StoresSettled'
    BY <1>17, <1>c
       DEF ReplayRecord, authority, stores, StoresSettled, Settled
  <2> QED
    BY <1>17, <1>q, <2>1, <2>2 DEF ReplayRecord
<1>18. CASE ReplaySession(l)
  <2>1. Quiet(l)
    BY <1>18, <1>s, GotoQuiet, FinishQuiet, CarryQuiet DEF ReplaySession, At
  <2>2. StoresSettled'
    BY <1>18, <1>l, FillSettled DEF ReplaySession, authority
  <2> QED
    BY <1>18, <1>q, <2>1, <2>2 DEF ReplaySession
<1> QED
  BY <1>1, <1>2, <1>3, <1>4, <1>5, <1>6, <1>7, <1>8, <1>9, <1>10, <1>11, <1>12,
     <1>13, <1>14, <1>15, <1>16, <1>17, <1>18 DEF Step

LEMMA InvStep == IInv /\ [Next]_vars => IInv'
<1> SUFFICES ASSUME IInv, [Next]_vars
             PROVE  IInv'
  OBVIOUS
<1>t. TypeOK'
  BY TypeStep DEF IInv
<1>c. StoresSettled
  BY AgreeIsSettled DEF IInv
<1>1. ASSUME NEW l \in Lanes, NEW op \in OpsOf(l), Begin(l, op)
      PROVE  Consistent'
  <2>1. op = "offer" => Dev(l) \in CallerDevs
    BY DEF OpsOf
  <2>2. Quiet(l)
    <3>1. /\ \A k \in Lanes \ {l} : req'[k] = req[k]
          /\ req'[l].op = op /\ req'[l].pc = FirstPc(l, op)
          /\ req'[l].sess = NoSession
      BY <1>1 DEF Begin, Idle, IInv, TInv, TypeOK
    <3> QED
      BY <2>1, <3>1 DEF Quiet, FirstPc, Settled
  <2>3. StoresSettled'
    BY <1>1, <1>c DEF Begin, authority, stores, StoresSettled, Settled
  <2> QED
    BY <1>1, <2>2, <2>3, QuietStep DEF Begin
<1>2. ASSUME NEW l \in Lanes, Step(l)
      PROVE  Consistent'
  BY <1>2, LaneStep
<1>3. ASSUME UNCHANGED <<authority, stores, req>>
      PROVE  Consistent'
  BY <1>3 DEF IInv, TInv, Consistent, OffersFromCaller, CommitIsSound,
              HistoryOfRow, AgreeOnAnswerer, Answering, At, authority, stores
<1>4. ASSUME NEW d \in Devices, Disconnect(d) \/ ScheduleDisconnectCleanup(d)
      PROVE  Consistent'
  BY <1>3, <1>4 DEF Disconnect, ScheduleDisconnectCleanup
<1>5. ASSUME NEW d \in Devices, Connect(d)
      PROVE  Consistent'
  <2>1. <<d, "replay">> \in Lanes
    BY DEF Lanes
  <2>2. Quiet(<<d, "replay">>)
    BY <1>5, <2>1 DEF Connect, IInv, TInv, TypeOK, Quiet, Idle, Settled
  <2>3. StoresSettled'
    BY <1>5, <1>c DEF Connect, authority, stores, StoresSettled, Settled
  <2> QED
    BY <1>5, <2>1, <2>2, <2>3, QuietStep DEF Connect
<1>6. ASSUME NEW d \in Devices, DisconnectTimeout(d)
      PROVE  Consistent'
  <2>1. <<d, "timer">> \in Lanes
    BY DEF Lanes
  <2>2. CASE d \in online
    BY <1>3, <1>6, <2>2 DEF DisconnectTimeout
  <2>3. CASE d \notin online
    <3>1. Quiet(<<d, "timer">>)
      BY <1>6, <2>1, <2>3
         DEF DisconnectTimeout, IInv, TInv, TypeOK, Quiet, Idle, Settled
    <3>2. StoresSettled'
      BY <1>6, <1>c DEF DisconnectTimeout, authority, stores, StoresSettled, Settled
    <3> QED
      BY <1>6, <2>1, <3>1, <3>2, QuietStep DEF DisconnectTimeout
  <2> QED
    BY <2>2, <2>3
<1>7. ASSUME NEW d \in CalleeDevs, RegisterDevice(d)
      PROVE  Consistent'
  BY <1>3, <1>7 DEF RegisterDevice
<1>8. ASSUME MarkStaleRinging
      PROVE  Consistent'
  <2>1. \A l \in Lanes : ~At(l, "commit")
    BY <1>8, NoLaneAssumption DEF MarkStaleRinging, RowFree, IInv, TInv, CommitIsSound
  <2>2. UNCHANGED <<answeredBy, endedBy, req, redis, cache>>
    BY <1>8 DEF MarkStaleRinging, stores
  <2>3. OffersFromCaller' /\ CommitIsSound'
    BY <2>1, <2>2 DEF IInv, TInv, OffersFromCaller, CommitIsSound, At
  <2>4. HistoryOfRow'
    BY <1>8, <2>2 DEF IInv, HistoryOfRow, MarkStaleRinging, Terminal
  <2>5. AgreeOnAnswerer'
    BY <2>2 DEF IInv, AgreeOnAnswerer, Answering, At
  <2> QED
    BY <2>3, <2>4, <2>5 DEF Consistent
<1>9. ASSUME UNCHANGED <<authority, req>>, StoresSettled'
      PROVE  Consistent'
  <2>1. AgreeOnAnswerer'
    BY <1>9, AgreeIsSettled
       DEF IInv, AgreeOnAnswerer, StoresSettled, Settled, Answering, authority
  <2> QED
    BY <1>9, <2>1
       DEF IInv, TInv, Consistent, OffersFromCaller, CommitIsSound, HistoryOfRow,
           At, authority
<1>10. ASSUME RedisExpires
       PROVE  Consistent'
  <2>1. StoresSettled'
    BY <1>10, <1>c DEF RedisExpires, authority, StoresSettled, Settled
  <2> QED
    BY <1>9, <1>10, <2>1 DEF RedisExpires
<1>11. ASSUME NEW st \in Stores, CacheExpires(st)
       PROVE  Consistent'
  <2>1. StoresSettled'
    BY <1>11, <1>c DEF CacheExpires, authority, StoresSettled, Settled, IInv, TInv,
                      TypeOK
  <2> QED
    BY <1>9, <1>11, <2>1 DEF CacheExpires
<1>12. ASSUME Restart
       PROVE  Consistent'
  <2>1. \A l \in Lanes : req'[l] = Idle
    BY <1>12 DEF Restart
  <2>2. StoresSettled'
    BY <1>12, <1>c DEF Restart, StoresSettled, Settled
  <2>3. OffersFromCaller' /\ CommitIsSound'
    BY <2>1 DEF OffersFromCaller, CommitIsSound, At, Idle
  <2>4. HistoryOfRow'
    BY <1>12 DEF IInv, HistoryOfRow, Restart
  <2>5. AgreeOnAnswerer'
    BY <2>1, <2>2 DEF AgreeOnAnswerer, StoresSettled, Settled, Idle
  <2> QED
    BY <2>3, <2>4, <2>5 DEF Consistent
<1>13. ASSUME UNCHANGED vars
       PROVE  Consistent'
  BY <1>3, <1>13 DEF vars, authority, stores
<1>14. Consistent'
  BY <1>1, <1>2, <1>4, <1>5, <1>6, <1>7, <1>8, <1>10, <1>11, <1>12, <1>13
     DEF Next, Users, Sockets, Environment
<1> QED
  BY <1>t, <1>14 DEF IInv, TInv, Consistent

LEMMA InvInit == Init => IInv
<1> SUFFICES ASSUME Init
             PROVE  IInv
  OBVIOUS
<1>1. \A l \in Lanes : req[l] = Idle
  BY DEF Init
<1>2. OffersFromCaller /\ CommitIsSound
  BY <1>1 DEF OffersFromCaller, CommitIsSound, At, Idle
<1>3. HistoryOfRow /\ AgreeOnAnswerer
  BY <1>1 DEF Init, HistoryOfRow, AgreeOnAnswerer, Idle
<1> QED
  BY <1>2, <1>3, InitType DEF IInv, TInv

LEMMA Invariance == Spec => []IInv
BY InvInit, InvStep, PTL DEF Spec

\* What a step may do to the row.
Moves ==
    /\ status \in Terminal => status' = status
    /\ status = "active" => status' \in {"active", "ended"}
    /\ answeredBy # NoDev => answeredBy' = answeredBy
    /\ endedBy # NoDev => endedBy' = endedBy

LEMMA RowMoves == IInv /\ [Next]_vars => [Moves]_vars
<1> SUFFICES ASSUME IInv, Next
             PROVE  Moves
  BY DEF vars
<1>0. ASSUME UNCHANGED <<status, answeredBy, endedBy>>
      PROVE  Moves
  BY <1>0 DEF Moves
<1>1. ASSUME NEW l \in Lanes, Commit(l)
      PROVE  Moves
  <2>1. status \in Live /\ status' = req[l].mut
        /\ (status = "active" => req[l].mut = "ended")
    BY <1>1 DEF Commit, IInv, TInv, CommitIsSound
  <2>2. endedBy = NoDev
    BY <2>1 DEF IInv, HistoryOfRow, Live, Terminal
  <2>3. answeredBy # NoDev => req[l].mut # "active"
    BY <2>1 DEF IInv, HistoryOfRow, Live
  <2> QED
    BY <1>1, <2>1, <2>2, <2>3 DEF Commit, Live, Terminal, Moves
<1>2. CASE MarkStaleRinging
  BY <1>2 DEF MarkStaleRinging, Moves, Terminal
<1>3. ASSUME NEW l \in Lanes, Step(l), ~Commit(l)
      PROVE  UNCHANGED <<status, answeredBy, endedBy>>
  BY <1>3 DEF Step, RestCheck, StoreOffer, LoadRecord, LoadSession, AnswerLock,
              RejectLock, HangupLock, CleanupLock, SetIndex, SetSession, DelIndex,
              DelSession, Route, ListByDevice, CleanupRecheck, ReplayRecord,
              ReplaySession, authority
<1>4. ASSUME NEW l \in Lanes, NEW op, Begin(l, op)
      PROVE  UNCHANGED <<status, answeredBy, endedBy>>
  BY <1>4 DEF Begin, authority
<1>5. ASSUME Sockets
      PROVE  UNCHANGED <<status, answeredBy, endedBy>>
  BY <1>5 DEF Sockets, Disconnect, ScheduleDisconnectCleanup, Connect,
              DisconnectTimeout, authority
<1>6. ASSUME Environment, ~MarkStaleRinging
      PROVE  UNCHANGED <<status, answeredBy, endedBy>>
  BY <1>6 DEF Environment, RegisterDevice, RedisExpires, CacheExpires, Restart,
              authority
<1> QED
  BY <1>0, <1>1, <1>2, <1>3, <1>4, <1>5, <1>6 DEF Next, Users, Environment

-----------------------------------------------------------------------------
(* Theorems.                                                               *)

\* In every state of the row, the stores, the handlers and the sockets have
\* their types (call-routing-state.ts, ws-direct-call-router.ts).
THEOREM TypeCorrect == Spec => []TypeOK
BY Invariance, PTL DEF IInv, TInv

\* Whichever callee devices race to answer, whatever the two stores have cached
\* and whenever the process restarts, no session names a device other than the
\* one whose answer acceptAnswer has committed.
THEOREM Agreement == Spec => []AgreeOnAnswerer
BY Invariance, PTL DEF IInv

\* The row leaves a live status once, a terminal one never: persistAuthorityStatus
\* only runs in a transaction that holds the row and has seen it live.
THEOREM StatusMoves == Spec => StatusMovesOnly
BY RowMoves, Invariance, PTL DEF Spec, StatusMovesOnly, Moves
=============================================================================
