------------------------ MODULE CallLifecycleProofs ------------------------
(***************************************************************************)
(* What the devices are told of a call is true, for every set of devices   *)
(* and every bound, and DirectCall implements CallLifecycle.               *)
(***************************************************************************)
EXTENDS DirectCallProofs

-----------------------------------------------------------------------------
(* The inductive invariant.                                                *)

\* The message m says nothing of the call that is not so, or that a later
\* step can make untrue.
Honest(m) ==
    /\ m.type = "answered" =>
          m.from = answeredBy /\ status \in {"active", "ended"}
    /\ m.type \in {"hangup", "rejected"} =>
          \/ status \in Terminal
          \/ m.from = answeredBy /\ m.to \in CalleeDevs \ {answeredBy}
    /\ m.type = "reneg" =>
          {m.from, m.to} \subseteq CallerDevs \cup {answeredBy}

AllHonest(out) == \A m \in out : Honest(m)

\* A handler about to commit has already made up its messages: each will be
\* honest once the status it holds the row for is written.
Due(l) ==
    /\ req[l].mut = "active" =>
          \A m \in req[l].out :
              /\ m.type \in {"answered", "hangup"} /\ m.from = Dev(l)
              /\ m.type = "hangup" => m.to \in CalleeDevs \ {Dev(l)}
    /\ req[l].mut # "active" =>
          \A m \in req[l].out : m.type \in {"hangup", "rejected", "stale"}
    /\ status = "ringing" /\ Dev(l) \in CallerDevs => req[l].mut = "missed"

\* What a handler will route: due before its commit, honest at any other time.
Prepared(l) == IF At(l, "commit") THEN Due(l) ELSE AllHonest(req[l].out)

\* Only a device of the called user rejects.
RejectsFromCallee == \A l \in Lanes : req[l].op = "reject" => Dev(l) \in CalleeDevs

Reports == RejectsFromCallee /\ AllHonest(sent) /\ \A l \in Lanes : Prepared(l)

RInv == IInv /\ Reports

\* A step of lane l after which what it will route is honest.
Talks(l) ==
    /\ \A k \in Lanes \ {l} : req'[k] = req[k]
    /\ req'[l].pc # "commit"
    /\ req'[l].op = "reject" => Dev(l) \in CalleeDevs
    /\ AllHonest(req'[l].out)

-----------------------------------------------------------------------------
(* Honesty lasts.                                                          *)

LEMMA DevicesAreNotNoDev == \A d \in Devices : d # NoDev
BY DirectCallAssumption

\* No move of the row makes an honest message a lie.
LEMMA HonestStays ==
    ASSUME IInv, Moves, NEW m \in Messages, Honest(m)
    PROVE  Honest(m)'
<1>1. m.from \in Devices /\ m.to \in Devices /\ NoDev \notin Devices
  BY DirectCallAssumption DEF Messages
<1>2. m.from = answeredBy => answeredBy' = answeredBy
  BY <1>1 DEF Moves
<1>3. m.type = "answered" =>
         m.from = answeredBy' /\ status' \in {"active", "ended"}
  BY <1>2 DEF Honest, Moves, Terminal
<1>4. m.type \in {"hangup", "rejected"} =>
         \/ status' \in Terminal
         \/ m.from = answeredBy' /\ m.to \in CalleeDevs \ {answeredBy'}
  BY <1>2 DEF Honest, Moves
<1>5. m.type = "reneg" => {m.from, m.to} \subseteq CallerDevs \cup {answeredBy'}
  BY <1>1 DEF Honest, Moves
<1> QED
  BY <1>3, <1>4, <1>5 DEF Honest

\* While the row stands still, honesty is what it was.
LEMMA HonestSame ==
    ASSUME UNCHANGED <<status, answeredBy>>, NEW m
    PROVE  Honest(m)' <=> Honest(m)
BY DEF Honest

LEMMA GotoTalks ==
    ASSUME RInv, NEW l \in Lanes, NEW pc, pc # "commit", ~At(l, "commit"),
           Goto(l, pc)
    PROVE  Talks(l)
<1>1. /\ \A k \in Lanes \ {l} : req'[k] = req[k]
      /\ req'[l].pc = pc /\ req'[l].op = req[l].op /\ req'[l].out = req[l].out
  BY DEF RInv, IInv, TInv, TypeOK, Goto, Requests
<1>2. AllHonest(req[l].out)
  BY DEF RInv, Reports, Prepared
<1> QED
  BY <1>1, <1>2 DEF Talks, RInv, Reports, RejectsFromCallee

LEMMA FinishTalks ==
    ASSUME RInv, NEW l \in Lanes, Finish(l)
    PROVE  Talks(l)
BY DEF RInv, IInv, TInv, TypeOK, Finish, Talks, Idle, AllHonest

LEMMA CarryTalks ==
    ASSUME RInv, NEW l \in Lanes, NEW pc, pc # "commit", NEW sess,
           NEW out, AllHonest(out), Carry(l, pc, sess, out)
    PROVE  Talks(l)
<1>1. /\ \A k \in Lanes \ {l} : req'[k] = req[k]
      /\ req'[l].pc = pc /\ req'[l].op = req[l].op /\ req'[l].out = out
  BY DEF RInv, IInv, TInv, TypeOK, Carry, Requests
<1> QED
  BY <1>1 DEF Talks, RInv, Reports, RejectsFromCallee

LEMMA TalksStep ==
    ASSUME RInv, NEW l \in Lanes, Talks(l), UNCHANGED <<status, answeredBy>>,
           AllHonest(sent')
    PROVE  Reports'
<1>1. RejectsFromCallee'
  BY DEF Talks, RInv, Reports, RejectsFromCallee
<1>2. AllHonest(sent)'
  BY HonestSame DEF AllHonest
<1>3. ASSUME NEW k \in Lanes
      PROVE  Prepared(k)'
  <2>1. CASE k = l
    <3>1. ~At(k, "commit")' /\ AllHonest(req'[k].out)
      BY <2>1 DEF Talks, At
    <3>2. AllHonest(req[k].out)'
      BY <3>1, HonestSame DEF AllHonest
    <3> QED
      BY <3>1, <3>2 DEF Prepared
  <2>2. CASE k # l
    <3>1. req'[k] = req[k] /\ Prepared(k)
      BY <2>2 DEF Talks, RInv, Reports
    <3>2. Due(k) => Due(k)'
      BY <3>1 DEF Due
    <3>3. AllHonest(req[k].out) => AllHonest(req[k].out)'
      BY <3>1, HonestSame DEF AllHonest
    <3> QED
      BY <3>1, <3>2, <3>3 DEF Prepared, At
  <2> QED
    BY <2>1, <2>2
<1> QED
  BY <1>1, <1>2, <1>3 DEF Reports

\* A transaction that takes the row with messages that are due.
LEMMA HoldReports ==
    ASSUME RInv, NEW l \in Lanes, NEW mut, NEW sess, NEW out,
           Hold(l, mut, sess, out), UNCHANGED <<status, answeredBy, sent>>,
           mut = "active" =>
              \A m \in out :
                 /\ m.type \in {"answered", "hangup"} /\ m.from = Dev(l)
                 /\ m.type = "hangup" => m.to \in CalleeDevs \ {Dev(l)},
           mut # "active" =>
              \A m \in out : m.type \in {"hangup", "rejected", "stale"},
           status = "ringing" /\ Dev(l) \in CallerDevs => mut = "missed"
    PROVE  Reports'
<1>1. /\ \A k \in Lanes \ {l} : req'[k] = req[k]
      /\ req'[l].pc = "commit" /\ req'[l].op = req[l].op
      /\ req'[l].mut = mut /\ req'[l].out = out
  BY DEF RInv, IInv, TInv, TypeOK, Hold, Requests
<1>2. RejectsFromCallee'
  BY <1>1 DEF RInv, Reports, RejectsFromCallee
<1>3. AllHonest(sent)'
  BY HonestSame DEF RInv, Reports, AllHonest
<1>4. Prepared(l)'
  BY <1>1 DEF Prepared, Due, At
<1>5. ASSUME NEW k \in Lanes, k # l
      PROVE  Prepared(k)'
  <2>1. req'[k] = req[k] /\ Prepared(k)
    BY <1>1, <1>5 DEF RInv, Reports
  <2>2. Due(k) => Due(k)'
    BY <2>1 DEF Due
  <2>3. AllHonest(req[k].out) => AllHonest(req[k].out)'
    BY <2>1, HonestSame DEF AllHonest
  <2> QED
    BY <2>1, <2>2, <2>3 DEF Prepared, At
<1> QED
  BY <1>2, <1>3, <1>4, <1>5 DEF Reports

-----------------------------------------------------------------------------
(* What the handlers make up.                                              *)

LEMMA MsgFields ==
    ASSUME NEW l, NEW type, NEW to
    PROVE  /\ Msg(l, type, to).type = type
           /\ Msg(l, type, to).from = Dev(l) /\ Msg(l, type, to).to = to
BY DEF Msg

LEMMA MsgAllFields ==
    ASSUME NEW l, NEW type, NEW to, NEW m \in MsgAll(l, type, to)
    PROVE  m.type = type /\ m.from = Dev(l) /\ m.to \in to
BY MsgFields DEF MsgAll

\* Offers, candidates and stale notices are beside the question.
LEMMA NeutralHonest ==
    ASSUME NEW m, m.type \in {"offer", "ice", "stale"}
    PROVE  Honest(m)
BY DEF Honest

\* A session that names the callee device names the one that answered.
LEMMA RenegHonest ==
    ASSUME NEW l \in Lanes, NEW s \in Session, Settled(s)
    PROVE  AllHonest(MsgAll(l, "reneg", RenegTargets(Dev(l), s)))
<1> SUFFICES ASSUME NEW m \in MsgAll(l, "reneg", RenegTargets(Dev(l), s))
             PROVE  Honest(m)
  BY DEF AllHonest
<1>1. m.type = "reneg" /\ m.from = Dev(l) /\ m.to \in RenegTargets(Dev(l), s)
  BY MsgAllFields
<1>2. s # NoSession /\ s.caller \in CallerDevs
  BY NoSessionAssumption DEF Session
<1>3. m.from \in {s.caller, s.callee} /\ m.to \in {s.caller, s.callee}
      /\ s.callee = answeredBy
  BY <1>1, <1>2 DEF RenegTargets, Settled
<1> QED
  BY <1>1, <1>2, <1>3 DEF Honest

LEMMA HoldEndReports ==
    ASSUME RInv, NEW l \in Lanes, NEW mut, NEW s, NEW asCaller,
           HoldEnd(l, mut, s, asCaller), UNCHANGED <<status, answeredBy, sent>>,
           mut # "active",
           status = "ringing" /\ Dev(l) \in CallerDevs => mut = "missed"
    PROVE  Reports'
<1> DEFINE to == IF asCaller THEN CalleeTargetIds(s) ELSE CallerTargetIds(s)
<1>1. \A m \in MsgAll(l, "hangup", to) : m.type \in {"hangup", "rejected", "stale"}
  BY MsgAllFields
<1>2. Hold(l, mut, s, MsgAll(l, "hangup", to))
  BY DEF HoldEnd
<1> HIDE DEF to
<1> QED
  BY <1>1, <1>2, HoldReports

\* The commit makes what was due honest, and no other handler is at that point.
LEMMA CommitReports ==
    ASSUME RInv, NEW l \in Lanes, Commit(l)
    PROVE  Reports'
<1> DEFINE accepted == req[l].op = "answer" /\ req[l].mut = "active"
<1>1. Moves
  <2>1. [Next]_vars
    BY DEF Next, Step
  <2>2. status' # status
    BY DEF Commit, RInv, IInv, TInv, CommitIsSound, Live
  <2> QED
    BY <2>1, <2>2, RowMoves DEF RInv, vars
<1>2. /\ \A k \in Lanes \ {l} : req'[k] = req[k]
      /\ req'[l].pc # "commit" /\ req'[l].op = req[l].op
      /\ req'[l].out = req[l].out
  BY DEF Commit, Goto, RInv, IInv, TInv, TypeOK, Requests
<1>3. /\ At(l, "commit") /\ Due(l) /\ lock = l
      /\ status' = req[l].mut /\ req[l].mut \in Statuses \ {"ringing"}
      /\ req[l].mut = "active" => accepted
      /\ accepted => answeredBy' = Dev(l)
  BY DEF Commit, RInv, Reports, Prepared, IInv, TInv, CommitIsSound
<1>4. req[l].out \subseteq Messages /\ sent \subseteq Messages
      /\ \A k \in Lanes : req[k].out \subseteq Messages
  BY DEF RInv, IInv, TInv, TypeOK, Requests
<1>5. RejectsFromCallee'
  BY <1>2 DEF RInv, Reports, RejectsFromCallee
<1>6. AllHonest(sent)'
  <2>1. sent' = sent
    BY DEF Commit
  <2> QED
    BY <2>1, <1>1, <1>4, HonestStays DEF RInv, Reports, AllHonest
<1>7. ASSUME NEW m \in req[l].out
      PROVE  Honest(m)'
  <2>1. CASE req[l].mut = "active"
    BY <1>3, <2>1 DEF Due, Honest
  <2>2. CASE req[l].mut # "active"
    <3>1. status' \in Terminal
      BY <1>3, <2>2 DEF Statuses, Live
    <3>2. m.type \in {"hangup", "rejected", "stale"}
      BY <1>3, <2>2 DEF Due
    <3> QED
      BY <3>1, <3>2 DEF Honest
  <2> QED
    BY <2>1, <2>2
<1>8. Prepared(l)'
  BY <1>2, <1>7 DEF Prepared, AllHonest, At
<1>9. ASSUME NEW k \in Lanes, k # l
      PROVE  Prepared(k)'
  <2>1. ~At(k, "commit")
    BY <1>3, <1>9 DEF RInv, IInv, TInv, CommitIsSound
  <2>2. AllHonest(req[k].out)
    BY <2>1 DEF RInv, Reports, Prepared
  <2>3. AllHonest(req[k].out)'
    BY <1>1, <1>2, <1>4, <1>9, <2>2, HonestStays DEF AllHonest, RInv
  <2> QED
    BY <1>2, <1>9, <2>1, <2>3 DEF Prepared, At
<1> QED
  BY <1>5, <1>6, <1>8, <1>9 DEF Reports

-----------------------------------------------------------------------------
(* The invariant, action by action.                                        *)

LEMMA LaneReports ==
    ASSUME RInv, NEW l \in Lanes, Step(l)
    PROVE  Reports'
<1> DEFINE d == Dev(l)
           st == StoreOf(l)
           s  == SessionIn(st)
           sw == SessionIn("ws")
<1>l. st \in Stores /\ "ws" \in Stores
  BY LaneType DEF Stores
<1>s. /\ s \in Session \cup {NoSession} /\ Settled(s)
      /\ sw \in Session \cup {NoSession}
  BY <1>l, SessionInType, SessionInSettled DEF RInv, IInv, TInv
<1>h. AllHonest(sent) /\ RejectsFromCallee /\ Prepared(l)
  BY DEF RInv, Reports
<1>q. ASSUME Talks(l), UNCHANGED <<authority, sent>>
      PROVE  Reports'
  BY <1>q, <1>h, TalksStep DEF authority
<1>1. CASE RestCheck(l)
  BY <1>1, <1>q, GotoTalks, FinishTalks DEF RestCheck, At
<1>2. CASE StoreOffer(l)
  <2>1. AllHonest(MsgAll(l, "offer", registered))
    BY MsgAllFields, NeutralHonest DEF AllHonest
  <2>2. Talks(l)
    BY <1>2, <2>1, GotoTalks, FinishTalks, CarryTalks DEF StoreOffer, At
  <2> QED
    BY <1>2, <1>q, <2>2 DEF StoreOffer
<1>3. CASE LoadRecord(l)
  <2>1. Talks(l)
    BY <1>3, GotoTalks, FinishTalks DEF LoadRecord, At
  <2> QED
    BY <1>3, <1>q, <2>1 DEF LoadRecord
<1>4. CASE LoadSession(l)
  <2>1. AllHonest(MsgAll(l, "ice", PeerTargets(d, s)))
    BY MsgAllFields, NeutralHonest DEF AllHonest
  <2>2. s # NoSession => AllHonest(MsgAll(l, "reneg", RenegTargets(d, s)))
    BY <1>s, RenegHonest
  <2>3. Talks(l)
    BY <1>4, <2>1, <2>2, GotoTalks, FinishTalks, CarryTalks DEF LoadSession, At
  <2>4. sent' \in {sent, sent \cup {Msg(l, "stale", d)}}
    BY <1>4 DEF LoadSession
  <2>5. AllHonest(sent')
    BY <1>h, <2>4, MsgFields, NeutralHonest DEF AllHonest
  <2> QED
    BY <1>4, <2>3, <2>5, TalksStep DEF LoadSession, authority
<1>5. CASE AnswerLock(l)
  <2>0. UNCHANGED <<status, answeredBy, sent>>
    BY <1>5 DEF AnswerLock
  <2>1. CASE Hold(l, "missed", sw, {Msg(l, "stale", d)})
    <3>1. \A m \in {Msg(l, "stale", d)} : m.type \in {"hangup", "rejected", "stale"}
      BY MsgFields
    <3> QED
      BY <2>0, <2>1, <3>1, HoldReports
  <2>2. CASE /\ sw # NoSession /\ d \in sw.invited
             /\ Hold(l, "active", [sw EXCEPT !.callee = d],
                     {Msg(l, "answered", sw.caller)}
                        \cup MsgAll(l, "hangup", Siblings(sw, d)))
    <3> DEFINE out == {Msg(l, "answered", sw.caller)}
                        \cup MsgAll(l, "hangup", Siblings(sw, d))
    <3>1. d \in CalleeDevs /\ d \notin CallerDevs
          /\ Siblings(sw, d) \subseteq CalleeDevs \ {d}
      BY <2>2, <1>s, DirectCallAssumption DEF Session, Siblings
    <3>2. \A m \in out : /\ m.type \in {"answered", "hangup"} /\ m.from = d
                         /\ m.type = "hangup" => m.to \in CalleeDevs \ {d}
      BY <3>1, MsgFields, MsgAllFields
    <3> HIDE DEF out
    <3> QED
      BY <2>0, <2>2, <3>1, <3>2, HoldReports DEF out
  <2>3. CASE Refuse(l)
    <3>1. UNCHANGED <<authority, sent>>
      BY <1>5, <2>3 DEF AnswerLock, Refuse, authority
    <3> QED
      BY <1>q, <2>3, <3>1, FinishTalks DEF Refuse
  <2> QED
    BY <1>5, <2>1, <2>2, <2>3 DEF AnswerLock
<1>6. CASE RejectLock(l)
  <2> DEFINE rejects == MsgAll(l, "rejected", CallerTargetIds(s))
             hangups == IF s = NoSession THEN {}
                        ELSE MsgAll(l, "hangup", Siblings(s, d))
  <2>1. CASE Release(l, "delIndex") \/ Refuse(l)
    <3>1. Talks(l) /\ UNCHANGED <<authority, sent>>
      BY <1>6, <2>1, GotoTalks, FinishTalks
         DEF RejectLock, Release, Refuse, At, authority
    <3> QED
      BY <1>q, <3>1
  <2>2. CASE Hold(l, "rejected", s, rejects \cup hangups)
    <3>1. \A m \in rejects \cup hangups : m.type \in {"hangup", "rejected", "stale"}
      BY MsgAllFields
    <3>2. d \notin CallerDevs
      BY <1>6, <1>h, DirectCallAssumption DEF RejectLock, RejectsFromCallee
    <3>3. UNCHANGED <<status, answeredBy, sent>>
      BY <1>6 DEF RejectLock
    <3> HIDE DEF rejects, hangups
    <3> QED
      BY <2>2, <3>1, <3>2, <3>3, HoldReports
  <2> QED
    BY <1>6, <2>1, <2>2 DEF RejectLock
<1>7. CASE HangupLock(l)
  <2>0. UNCHANGED <<status, answeredBy, sent>>
    BY <1>7 DEF HangupLock
  <2>1. CASE Release(l, "delIndex")
    <3>1. Talks(l) /\ UNCHANGED <<authority, sent>>
      BY <1>7, <2>1, GotoTalks DEF HangupLock, Release, At, authority
    <3> QED
      BY <1>q, <3>1
  <2>2. CASE HoldEnd(l, IF d \in CallerDevs /\ status = "ringing" THEN "missed"
                        ELSE "ended", s, d \in CallerDevs)
    BY <2>0, <2>2, HoldEndReports
  <2> QED
    BY <1>7, <2>1, <2>2 DEF HangupLock
<1>8. CASE CleanupLock(l)
  <2>0. UNCHANGED <<status, answeredBy, sent>>
    BY <1>8 DEF CleanupLock
  <2>1. CASE Release(l, "recheck")
    <3>1. Talks(l) /\ UNCHANGED <<authority, sent>>
      BY <1>8, <2>1, GotoTalks DEF CleanupLock, Release, At, authority
    <3> QED
      BY <1>q, <3>1
  <2>2. CASE HoldEnd(l, IF status = "ringing" THEN "missed" ELSE "ended",
                     sw, d \in CallerDevs)
    BY <2>0, <2>2, HoldEndReports
  <2> QED
    BY <1>8, <2>1, <2>2 DEF CleanupLock
<1>9. CASE Commit(l)
  BY <1>9, CommitReports
<1>10. CASE SetIndex(l)
  BY <1>10, <1>q, GotoTalks DEF SetIndex, At
<1>11. CASE SetSession(l)
  BY <1>11, <1>q, GotoTalks DEF SetSession, At
<1>12. CASE DelIndex(l)
  BY <1>12, <1>q, GotoTalks DEF DelIndex, At
<1>13. CASE DelSession(l)
  BY <1>13, <1>q, GotoTalks, FinishTalks DEF DelSession, At
<1>14. CASE Route(l)
  <2>1. AllHonest(req[l].out)
    BY <1>14, <1>h DEF Route, At, Prepared
  <2>2. AllHonest(sent')
    BY <1>14, <1>h, <2>1 DEF Route, AllHonest
  <2> QED
    BY <1>14, <2>2, FinishTalks, TalksStep DEF Route, authority
<1>15. CASE ListByDevice(l)
  <2>1. Talks(l)
    BY <1>15, GotoTalks, FinishTalks DEF ListByDevice, At
  <2> QED
    BY <1>15, <1>q, <2>1 DEF ListByDevice
<1>16. CASE CleanupRecheck(l)
  <2>1. Talks(l)
    BY <1>16, GotoTalks, FinishTalks DEF CleanupRecheck, At
  <2> QED
    BY <1>16, <1>q, <2>1 DEF CleanupRecheck
<1>17. CASE ReplayRecord(l)
  <2>1. Talks(l)
    BY <1>17, GotoTalks DEF ReplayRecord, At
  <2> QED
    BY <1>17, <1>q, <2>1 DEF ReplayRecord
<1>18. CASE ReplaySession(l)
  <2> DEFINE offer == [type |-> "offer", from |-> sw.caller, to |-> d]
  <2>1. AllHonest({offer})
    BY NeutralHonest DEF AllHonest
  <2>2. Talks(l)
    BY <1>18, <2>1, GotoTalks, FinishTalks, CarryTalks DEF ReplaySession, At
  <2> QED
    BY <1>18, <1>q, <2>2 DEF ReplaySession
<1> QED
  BY <1>1, <1>2, <1>3, <1>4, <1>5, <1>6, <1>7, <1>8, <1>9, <1>10, <1>11, <1>12,
     <1>13, <1>14, <1>15, <1>16, <1>17, <1>18 DEF Step

LEMMA ReportsStep == RInv /\ [Next]_vars => RInv'
<1> SUFFICES ASSUME RInv, [Next]_vars
             PROVE  RInv'
  OBVIOUS
<1>i. IInv'
  BY InvStep DEF RInv
<1>h. AllHonest(sent) /\ AllHonest({})
  BY DEF RInv, Reports, AllHonest
<1>1. ASSUME NEW l \in Lanes, NEW op \in OpsOf(l), Begin(l, op)
      PROVE  Reports'
  <2>1. op = "reject" => Dev(l) \in CalleeDevs
    BY DEF OpsOf
  <2>2. /\ \A k \in Lanes \ {l} : req'[k] = req[k]
        /\ req'[l].op = op /\ req'[l].pc = FirstPc(l, op) /\ req'[l].out = {}
    BY <1>1 DEF Begin, Idle, RInv, IInv, TInv, TypeOK
  <2>3. Talks(l)
    BY <1>h, <2>1, <2>2 DEF Talks, FirstPc
  <2> QED
    BY <1>1, <1>h, <2>3, TalksStep DEF Begin, authority
<1>2. ASSUME NEW l \in Lanes, Step(l)
      PROVE  Reports'
  BY <1>2, LaneReports
<1>3. ASSUME UNCHANGED <<status, answeredBy, req, sent>>
      PROVE  Reports'
  BY <1>3 DEF RInv, Reports, RejectsFromCallee, AllHonest, Honest, Prepared, Due, At
<1>4. ASSUME NEW d \in Devices, Disconnect(d) \/ ScheduleDisconnectCleanup(d)
      PROVE  Reports'
  BY <1>3, <1>4 DEF Disconnect, ScheduleDisconnectCleanup, authority
<1>5. ASSUME NEW d \in Devices, Connect(d)
      PROVE  Reports'
  <2>1. <<d, "replay">> \in Lanes
    BY DEF Lanes
  <2>2. Talks(<<d, "replay">>)
    BY <1>5, <1>h, <2>1 DEF Connect, RInv, IInv, TInv, TypeOK, Talks, Idle
  <2> QED
    BY <1>5, <1>h, <2>1, <2>2, TalksStep DEF Connect, authority
<1>6. ASSUME NEW d \in Devices, DisconnectTimeout(d)
      PROVE  Reports'
  <2>1. <<d, "timer">> \in Lanes
    BY DEF Lanes
  <2>2. CASE d \in online
    BY <1>3, <1>6, <2>2 DEF DisconnectTimeout, authority
  <2>3. CASE d \notin online
    <3>1. Talks(<<d, "timer">>)
      BY <1>6, <1>h, <2>1, <2>3
         DEF DisconnectTimeout, RInv, IInv, TInv, TypeOK, Talks, Idle
    <3> QED
      BY <1>6, <1>h, <2>1, <3>1, TalksStep DEF DisconnectTimeout, authority
  <2> QED
    BY <2>2, <2>3
<1>7. ASSUME NEW d \in CalleeDevs, RegisterDevice(d)
      PROVE  Reports'
  BY <1>3, <1>7 DEF RegisterDevice, authority
<1>8. ASSUME MarkStaleRinging
      PROVE  Reports'
  <2>1. \A l \in Lanes : ~At(l, "commit")
    BY <1>8, NoLaneAssumption
       DEF MarkStaleRinging, RowFree, RInv, IInv, TInv, CommitIsSound
  <2>2. Moves
    BY <1>8 DEF MarkStaleRinging, Moves, Terminal
  <2>3. UNCHANGED <<req, sent>>
    BY <1>8 DEF MarkStaleRinging
  <2>4. \A m \in Messages : Honest(m) => Honest(m)'
    BY <2>2, HonestStays DEF RInv
  <2>5. \A l \in Lanes : req[l].out \subseteq Messages /\ AllHonest(req[l].out)
    BY <2>1 DEF RInv, Reports, Prepared, IInv, TInv, TypeOK, Requests
  <2>6. (\A l \in Lanes : Prepared(l))'
    BY <2>1, <2>3, <2>4, <2>5 DEF Prepared, At, AllHonest
  <2>7. AllHonest(sent)'
    BY <2>3, <2>4 DEF RInv, Reports, AllHonest, IInv, TInv, TypeOK
  <2> QED
    BY <2>3, <2>6, <2>7 DEF RInv, Reports, RejectsFromCallee
<1>9. ASSUME RedisExpires
      PROVE  Reports'
  BY <1>3, <1>9 DEF RedisExpires, authority
<1>10. ASSUME NEW st \in Stores, CacheExpires(st)
       PROVE  Reports'
  BY <1>3, <1>10 DEF CacheExpires, authority
<1>11. ASSUME Restart
       PROVE  Reports'
  <2>1. /\ \A l \in Lanes : req'[l] = Idle
        /\ UNCHANGED <<status, answeredBy, sent>>
    BY <1>11 DEF Restart
  <2>2. RejectsFromCallee' /\ \A l \in Lanes : Prepared(l)'
    BY <2>1 DEF RejectsFromCallee, Prepared, AllHonest, At, Idle
  <2>3. AllHonest(sent)'
    BY <1>h, <2>1 DEF AllHonest, Honest
  <2> QED
    BY <2>2, <2>3 DEF Reports
<1>12. ASSUME UNCHANGED vars
       PROVE  Reports'
  BY <1>3, <1>12 DEF vars
<1>13. Reports'
  BY <1>1, <1>2, <1>4, <1>5, <1>6, <1>7, <1>8, <1>9, <1>10, <1>11, <1>12
     DEF Next, Users, Sockets, Environment
<1> QED
  BY <1>i, <1>13 DEF RInv

LEMMA ReportsInit == Init => RInv
BY InvInit DEF Init, RInv, Reports, RejectsFromCallee, AllHonest, Prepared, At, Idle

LEMMA ReportsInvariance == Spec => []RInv
BY ReportsInit, ReportsStep, PTL DEF Spec

-----------------------------------------------------------------------------
(* The steps of CallLifecycle.                                             *)

told  == {m.to : m \in SentOf("hangup") \cup SentOf("rejected")}
heard == SentOf("answered") # {}

\* The row and what the devices have been told stand still.
LEMMA LifecycleStutters ==
    ASSUME UNCHANGED <<status, answeredBy, endedBy, sent>>
    PROVE  UNCHANGED Lifecycle!vars
BY DEF Lifecycle!vars, SentOf

\* A stale notice tells nobody that the call is over.
LEMMA StaleStutters ==
    ASSUME NEW l \in Lanes, LoadSession(l)
    PROVE  UNCHANGED Lifecycle!vars
<1>1. UNCHANGED <<status, answeredBy, endedBy>>
  BY DEF LoadSession, authority
<1>2. sent' = sent \/ sent' = sent \cup {Msg(l, "stale", Dev(l))}
  BY DEF LoadSession
<1>3. \A type \in {"hangup", "rejected", "answered"} :
         SentOf(type)' = SentOf(type)
  BY <1>2, MsgFields DEF SentOf
<1> QED
  BY <1>1, <1>3 DEF Lifecycle!vars

\* A commit is the answer of its device, or the end in its name.
LEMMA CommitIsAnswerOrEnd ==
    ASSUME RInv, NEW l \in Lanes, Commit(l)
    PROVE  Lifecycle!Next
<1> DEFINE accepted == req[l].op = "answer" /\ req[l].mut = "active"
<1>1. /\ At(l, "commit") /\ Due(l)
      /\ status \in Live /\ status' = req[l].mut
      /\ req[l].mut \in Statuses \ {"ringing"}
      /\ status = "active" => req[l].mut = "ended"
      /\ req[l].mut = "active" => accepted /\ Dev(l) \in CalleeDevs
      /\ Dev(l) \in Devices
  BY LaneType DEF Commit, RInv, Reports, Prepared, IInv, TInv, CommitIsSound
<1>2. sent' = sent
  BY DEF Commit
<1>3. CASE accepted
  <2>1. status = "ringing"
    BY <1>1, <1>3 DEF Live
  <2>2. answeredBy' = Dev(l) /\ endedBy' = endedBy /\ Dev(l) \in CalleeDevs
    BY <1>1, <1>3 DEF Commit
  <2>3. Lifecycle!Answer(Dev(l))
    BY <1>1, <1>2, <1>3, <2>1, <2>2 DEF Lifecycle!Answer, SentOf
  <2> QED
    BY <2>2, <2>3 DEF Lifecycle!Next
<1>4. CASE ~accepted
  <2>1. answeredBy' = answeredBy /\ endedBy' = Dev(l)
    BY <1>4 DEF Commit
  <2>2. status' \in Terminal
    BY <1>1, <1>4 DEF Statuses, Live
  <2>3. status' \in Lifecycle!Outcomes(Dev(l))
    BY <1>1, <2>2 DEF Lifecycle!Outcomes, Due, Terminal, Live
  <2>4. ~Lifecycle!Over
    BY <1>1 DEF Lifecycle!Over, Live
  <2>5. Lifecycle!End(Dev(l))
    BY <1>2, <2>1, <2>3, <2>4 DEF Lifecycle!End, SentOf
  <2> QED
    BY <1>1, <2>5 DEF Lifecycle!Next, Lifecycle!Devices, Devices
<1> QED
  BY <1>3, <1>4

\* What a handler routes is told, unless it says nothing of the answer and of
\* the end.
LEMMA RouteTells ==
    ASSUME RInv, NEW l \in Lanes, Route(l)
    PROVE  [Lifecycle!Next]_(Lifecycle!vars)
<1> DEFINE out == req[l].out
           ends == {m \in out : m.type \in {"hangup", "rejected"}}
           ds == {m.to : m \in ends}
<1>1. /\ UNCHANGED <<status, answeredBy, endedBy>>
      /\ sent' = sent \cup out /\ AllHonest(out)
      /\ out \subseteq Messages /\ status \in Statuses
  BY DEF Route, authority, RInv, Reports, Prepared, At, IInv, TInv, TypeOK, Requests
<1>2. \A m \in out : m.from # NoDev
  BY <1>1, DirectCallAssumption DEF Messages
<1>3. told' = told \cup ds
  BY <1>1 DEF told, SentOf
<1>4. CASE status = "ringing"
  <2>1. answeredBy = NoDev
    BY <1>4 DEF RInv, IInv, HistoryOfRow
  <2>2. \A m \in out : m.type \notin {"answered", "hangup", "rejected"}
    BY <1>1, <1>2, <1>4, <2>1 DEF AllHonest, Honest, Terminal
  <2>3. \A type \in {"hangup", "rejected", "answered"} :
           SentOf(type)' = SentOf(type)
    BY <1>1, <2>2 DEF SentOf
  <2> QED
    BY <1>1, <2>3 DEF Lifecycle!vars
<1>5. CASE status # "ringing"
  <2>1. ds \subseteq Devices
    BY <1>1 DEF Messages
  <2>2. \/ status \in Terminal
        \/ status = "active" /\ ds \subseteq CalleeDevs \ {answeredBy}
    BY <1>1, <1>5 DEF AllHonest, Honest, Statuses, Live, Terminal
  <2>3. (heard => heard') /\ heard' \in {heard, answeredBy # NoDev}
    <3>1. heard => heard'
      BY <1>1 DEF heard, SentOf
    <3>2. ASSUME ~heard, heard'
          PROVE  answeredBy # NoDev
      <4>1. PICK m \in out : m.type = "answered"
        BY <1>1, <3>2 DEF heard, SentOf
      <4> QED
        BY <1>1, <1>2, <4>1 DEF AllHonest, Honest
    <3>3. heard \in BOOLEAN /\ heard' \in BOOLEAN
      BY DEF heard
    <3> QED
      BY <3>1, <3>2, <3>3
  <2> HIDE DEF ds
  <2>4. Lifecycle!Tell
    BY <1>1, <1>3, <2>1, <2>2, <2>3
       DEF Lifecycle!Tell, Lifecycle!Over, Lifecycle!Devices, Devices, Terminal,
           told, heard
  <2> QED
    BY <2>4 DEF Lifecycle!Next
<1> QED
  BY <1>4, <1>5

LEMMA LifecycleStep ==
    RInv /\ [Next]_vars => [Lifecycle!Next]_(Lifecycle!vars)
<1> SUFFICES ASSUME RInv, [Next]_vars
             PROVE  [Lifecycle!Next]_(Lifecycle!vars)
  OBVIOUS
<1>1. ASSUME NEW l \in Lanes, Commit(l)
      PROVE  Lifecycle!Next
  BY <1>1, CommitIsAnswerOrEnd
<1>2. ASSUME NEW l \in Lanes, Route(l)
      PROVE  [Lifecycle!Next]_(Lifecycle!vars)
  BY <1>2, RouteTells
<1>3. ASSUME NEW l \in Lanes, LoadSession(l)
      PROVE  UNCHANGED Lifecycle!vars
  BY <1>3, StaleStutters
<1>4. CASE MarkStaleRinging
  <2>1. Lifecycle!Lapse
    BY <1>4 DEF MarkStaleRinging, Lifecycle!Lapse, SentOf
  <2> QED
    BY <2>1 DEF Lifecycle!Next
<1>5. ASSUME NEW l \in Lanes, Step(l), ~Commit(l), ~Route(l), ~LoadSession(l)
      PROVE  UNCHANGED <<status, answeredBy, endedBy, sent>>
  BY <1>5 DEF Step, RestCheck, StoreOffer, LoadRecord, AnswerLock, RejectLock,
              HangupLock, CleanupLock, SetIndex, SetSession, DelIndex, DelSession,
              ListByDevice, CleanupRecheck, ReplayRecord, ReplaySession, authority
<1>6. ASSUME NEW l \in Lanes, NEW op, Begin(l, op)
      PROVE  UNCHANGED <<status, answeredBy, endedBy, sent>>
  BY <1>6 DEF Begin, authority
<1>7. ASSUME Sockets
      PROVE  UNCHANGED <<status, answeredBy, endedBy, sent>>
  BY <1>7 DEF Sockets, Disconnect, ScheduleDisconnectCleanup, Connect,
              DisconnectTimeout, authority
<1>8. ASSUME Environment, ~MarkStaleRinging
      PROVE  UNCHANGED <<status, answeredBy, endedBy, sent>>
  BY <1>8 DEF Environment, RegisterDevice, RedisExpires, CacheExpires, Restart,
              authority
<1>9. ASSUME UNCHANGED vars
      PROVE  UNCHANGED <<status, answeredBy, endedBy, sent>>
  BY <1>9 DEF vars
<1>10. ASSUME UNCHANGED <<status, answeredBy, endedBy, sent>>
       PROVE  UNCHANGED Lifecycle!vars
  BY <1>10, LifecycleStutters
<1> QED
  BY <1>1, <1>2, <1>3, <1>4, <1>5, <1>6, <1>7, <1>8, <1>9, <1>10 DEF Next, Users

LEMMA LifecycleInit == Init => Lifecycle!Init
BY DEF Init, Lifecycle!Init, SentOf

-----------------------------------------------------------------------------
(* Theorems.                                                               *)

\* The caller hears only of the answer that acceptAnswer committed, and a call
\* whose answer it heard of is never recorded as missed or rejected.
THEOREM AnswersReported == Spec => []AnswerIsReported
<1>1. RInv => AnswerIsReported
  BY DEF RInv, Reports, AllHonest, Honest, AnswerIsReported, SentOf
<1> QED
  BY <1>1, ReportsInvariance, PTL

\* A hangup or a reject reaches a device only when the call is over, or over for
\* it because a sibling answered: what routeToDevices sends is true when it is
\* sent, however long the handler waited after its commit, and stays true.
THEOREM EndsTrue == Spec => []EndIsTrue
<1>1. RInv => EndIsTrue
  BY DEF RInv, Reports, AllHonest, Honest, EndIsTrue, SentOf
<1> QED
  BY <1>1, ReportsInvariance, PTL

\* However stale the session that getEstablishedPeerTarget looks at, renegotiation
\* travels between the caller and the device that answered.
THEOREM RenegotiationConfined == Spec => []RenegotiationIsConfined
<1>1. RInv => RenegotiationIsConfined
  BY DEF RInv, Reports, AllHonest, Honest, RenegotiationIsConfined, SentOf
<1> QED
  BY <1>1, ReportsInvariance, PTL

\* The handlers, the stores and the sockets implement the life of a call: every
\* commit is one answer or one end, every message tells what is committed, and
\* the rest of the system is invisible.
THEOREM Refinement == Spec => ImplementsLifecycle
BY LifecycleInit, LifecycleStep, ReportsInvariance, PTL
   DEF Spec, ImplementsLifecycle, Lifecycle!Spec

=============================================================================
