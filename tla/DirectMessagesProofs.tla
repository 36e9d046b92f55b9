------------------------- MODULE DirectMessagesProofs -------------------------
(***************************************************************************)
(* Theorems about DirectMessages, for any number of messages, retries,     *)
(* losses, restarts and sessions.  The chain of receipts, from the         *)
(* receiver's stored conversation to the status the sender sees, never     *)
(* runs ahead of itself, whatever the sessions hold; as long as no session *)
(* is cleared, no message key comes back; and as long as no client is      *)
(* closed, no two sessions cross and no key is evicted, the two devices do *)
(* what a RatchetChannel does, so that no session is cleared.              *)
(***************************************************************************)
EXTENDS DirectMessages, SequenceTheorems, FiniteSetTheorems, WellFoundedInduction,
        TLAPS

-----------------------------------------------------------------------------
(* The chain of receipts: the inductive invariant.                         *)

Bubbles == {"none", "sending", "error", "sent", "delivered"}
Rows    == {"none", "pending", "delivered"}
Works   == [pc : {"idle", "prepared", "ready", "queued"},
            x3dh : Secrets \cup {NoX3dh}, msg : Ids \cup {NoMsg}]
Posts   == [id : Ids, by : {"user", "resume"}, at : {"client", "server"}]
Recvs   == [pc : {"idle", "booted", "opened", "shown"}, msg : Ids \cup {NoMsg}]
IdSets  == [done : SUBSET (Ids \cup {NoMsg}), ack : SUBSET (Ids \cup {NoMsg})]

SenderTypes ==
    /\ inits \in [Devs -> Nat] /\ work \in [Devs -> Works]
    /\ \A d \in Devs : work[d].pc = "queued" => work[d].msg \in Ids
    /\ bubble \in [Ids -> Bubbles] /\ posts \subseteq Posts

ReceiverTypes ==
    /\ rows \in [Ids -> Rows] /\ recv \in [Devs -> Recvs]
    /\ tracked \in [Devs -> IdSets] /\ kept \in [Devs -> IdSets]

\* Only what is in the stored conversation is about to be processed, or to be
\* acknowledged, in memory and in storage.
ShownFirst ==
    \A d \in Devs : /\ recv[d].pc = "shown" => recv[d].msg \in shown
                    /\ tracked[d].ack \subseteq shown /\ kept[d].ack \subseteq shown

\* What the sender is told, the server has seen.
StatusFollows ==
    /\ \A m \in Ids : /\ bubble[m] = "sent" => rows[m] # "none"
                      /\ bubble[m] = "delivered" => rows[m] = "delivered"
    /\ \A p \in posts : p.at = "server" => rows[p.id] # "none"

IInv == SenderTypes /\ ReceiverTypes /\ ShownFirst /\ StatusFollows /\ AckedIsShown

-----------------------------------------------------------------------------
(* The steps.                                                              *)

LEMMA IdsSplit ==
    ASSUME NEW d \in Devs
    PROVE  SentBy(d) \subseteq Ids /\ SentTo(d) \subseteq Ids
BY DEF SentBy, SentTo

\* A step of a sender changes its work, its bubbles and its requests at most.
LEMMA SenderFrame ==
    ASSUME IInv, UNCHANGED <<rows, recv, tracked, kept, shown>>, SenderTypes',
           \A m \in Ids : bubble'[m] # bubble[m] =>
               \/ bubble'[m] \in {"none", "sending", "error"}
               \/ bubble'[m] = "sent" /\ rows[m] # "none"
               \/ bubble'[m] = "delivered" /\ rows[m] = "delivered",
           \A p \in posts' : p \in posts \/ p.at = "client"
    PROVE  IInv'
<1>1. ReceiverTypes' /\ ShownFirst' /\ AckedIsShown'
  BY DEF IInv, ReceiverTypes, ShownFirst, AckedIsShown
<1>2. StatusFollows'
  BY DEF IInv, StatusFollows
<1> QED BY <1>1, <1>2 DEF IInv

\* A step of a receiver moves rows on, and shows before it tracks.
LEMMA ReceiverFrame ==
    ASSUME IInv, UNCHANGED <<inits, work, bubble, posts>>, ReceiverTypes', ShownFirst',
           shown \subseteq shown',
           \A m \in Ids : rows'[m] # rows[m] => rows'[m] = "delivered" /\ m \in shown'
    PROVE  IInv'
<1>1. SenderTypes'
  BY DEF IInv, SenderTypes
<1>2. StatusFollows' /\ AckedIsShown'
  BY DEF IInv, StatusFollows, AckedIsShown, SenderTypes, ReceiverTypes, Posts
<1> QED BY <1>1, <1>2 DEF IInv

LEMMA PostType ==
    ASSUME IInv, NEW m \in Ids, NEW by \in {"user", "resume"}, Post(m, by)
    PROVE  posts' \subseteq Posts /\ \A p \in posts' : p \in posts \/ p.at = "client"
BY DEF IInv, SenderTypes, Post, Posts

LEMMA WorkEdits ==
    ASSUME NEW w \in Works
    PROVE  /\ \A x \in Secrets :
                 /\ [w EXCEPT !.pc = "ready", !.x3dh = x] \in Works
                 /\ [w EXCEPT !.pc = "ready", !.x3dh = x].pc = "ready"
           /\ \A m \in Ids :
                 /\ [w EXCEPT !.pc = "queued", !.msg = m] \in Works
                 /\ [w EXCEPT !.pc = "queued", !.msg = m].msg = m
BY DEF Works

LEMMA SenderSteps ==
    ASSUME IInv, NEW d \in Devs, Sender(d)
    PROVE  IInv'
<1> USE DEF sessions, items, outbound, server, inbound, history, bounds
<1>0. SenderTypes
  BY DEF IInv
<1>1. CASE PrepareSend(d) \/ LoadSession(d)
  <2>1. SenderTypes'
    BY <1>0, <1>1 DEF PrepareSend, LoadSession, SenderTypes, Works
  <2> QED BY <1>1, <2>1, SenderFrame DEF PrepareSend, LoadSession
<1>2. CASE StartSession(d)
  <2>1. PICK otk \in Bundles :
          work' = [work EXCEPT ![d].pc = "ready",
                               ![d].x3dh = [by |-> d, no |-> inits[d] + 1, otk |-> otk]]
    BY <1>2 DEF StartSession
  <2>2. [by |-> d, no |-> inits[d] + 1, otk |-> otk] \in Secrets
    BY <1>0, MessagesAssumption DEF SenderTypes, Secrets
  <2>3. work' \in [Devs -> Works] /\ \A e \in Devs : work'[e].pc = "queued" => work'[e].msg \in Ids
    <3> DEFINE x == [by |-> d, no |-> inits[d] + 1, otk |-> otk]
               w == [work[d] EXCEPT !.pc = "ready", !.x3dh = x]
    <3>1. x \in Secrets /\ work \in [Devs -> Works] /\ work' = [work EXCEPT ![d] = w]
      BY <1>0, <2>1, <2>2 DEF SenderTypes
    <3>2. w \in Works /\ w.pc = "ready"
      BY <3>1, WorkEdits
    <3> HIDE DEF w, x
    <3> QED
      BY <1>0, <3>1, <3>2 DEF SenderTypes
  <2>4. SenderTypes'
    BY <1>0, <1>2, <2>3 DEF StartSession, SenderTypes
  <2> QED BY <1>2, <2>4, SenderFrame DEF StartSession
<1>3. CASE Enqueue(d)
  <2>1. PICK m \in SentBy(d) : /\ bubble' = [bubble EXCEPT ![m] = "sending"]
                               /\ work' = [work EXCEPT ![d].pc = "queued", ![d].msg = m]
    BY <1>3 DEF Enqueue
  <2>2. m \in Ids /\ UNCHANGED <<inits, posts>>
    BY <1>3, IdsSplit DEF Enqueue
  <2>3. work' \in [Devs -> Works] /\ \A e \in Devs : work'[e].pc = "queued" => work'[e].msg \in Ids
    <3> DEFINE w == [work[d] EXCEPT !.pc = "queued", !.msg = m]
    <3>1. work \in [Devs -> Works] /\ work' = [work EXCEPT ![d] = w]
      BY <1>0, <2>1 DEF SenderTypes
    <3>2. w \in Works /\ w.msg = m
      BY <2>2, <3>1, WorkEdits
    <3> HIDE DEF w
    <3> QED
      BY <1>0, <2>2, <3>1, <3>2 DEF SenderTypes
  <2>4. SenderTypes'
    BY <1>0, <2>1, <2>2, <2>3 DEF SenderTypes, Bubbles
  <2> QED BY <1>0, <1>3, <2>1, <2>2, <2>4, SenderFrame DEF Enqueue, SenderTypes
<1>4. CASE CommitSession(d)
  <2>1. work[d].msg \in Ids /\ Post(work[d].msg, "user")
    BY <1>0, <1>4 DEF CommitSession, SenderTypes
  <2>2. posts' \subseteq Posts /\ \A p \in posts' : p \in posts \/ p.at = "client"
    BY <2>1, PostType
  <2>3. SenderTypes'
    BY <1>0, <1>4, <2>2 DEF CommitSession, SenderTypes, Works, Idle
  <2> QED BY <1>4, <2>2, <2>3, SenderFrame DEF CommitSession
<1>5. ASSUME NEW m \in SentBy(d), Resume(d, m) \/ Retry(d, m)
      PROVE  IInv'
  <2>1. PICK by \in {"user", "resume"} : SendAgain(d, m, by)
    BY <1>5 DEF Resume, Retry
  <2>2. posts' \subseteq Posts /\ \A p \in posts' : p \in posts \/ p.at = "client"
    BY <2>1, PostType, IdsSplit DEF SendAgain
  <2>3. bubble' = bubble \/ bubble' = [bubble EXCEPT ![m] = "sending"]
    BY <1>5 DEF Resume, Retry
  <2>4. SenderTypes'
    BY <1>0, <2>1, <2>2, <2>3 DEF SendAgain, SenderTypes, Bubbles
  <2> QED BY <1>0, <2>1, <2>2, <2>3, <2>4, SenderFrame DEF SendAgain, SenderTypes
<1>6. ASSUME NEW m \in SentBy(d), GiveUp(d, m) \/ PruneSettled(d, m) \/ PruneOrphan(d, m)
      PROVE  IInv'
  <2>1. SenderTypes'
    BY <1>0, <1>6 DEF GiveUp, PruneSettled, PruneOrphan, SenderTypes
  <2> QED BY <1>6, <2>1, SenderFrame DEF GiveUp, PruneSettled, PruneOrphan
<1>7. ASSUME NEW m \in SentBy(d), DeliveredEvent(d, m)
      PROVE  IInv'
  <2>1. SenderTypes'
    BY <1>0, <1>7 DEF DeliveredEvent, SenderTypes, Bubbles
  <2> QED BY <1>0, <1>7, <2>1, SenderFrame DEF DeliveredEvent, SenderTypes
<1> QED BY <1>1, <1>2, <1>3, <1>4, <1>5, <1>6, <1>7 DEF Sender

LEMMA ReceiverSteps ==
    ASSUME IInv, NEW d \in Devs, Receiver(d)
    PROVE  IInv'
<1> USE DEF sessions, items, outbound, server, inbound, history, bounds
<1>0. ReceiverTypes /\ ShownFirst
  BY DEF IInv
<1>1. CASE WipeKey(d)
  <2>1. ReceiverTypes' /\ ShownFirst'
    BY <1>0, <1>1 DEF WipeKey, ReceiverTypes, ShownFirst, Recvs
  <2> QED BY <1>1, <2>1, ReceiverFrame DEF WipeKey
<1>2. CASE Show(d)
  <2>1. ReceiverTypes' /\ ShownFirst'
    BY <1>0, <1>2 DEF Show, ReceiverTypes, ShownFirst, Recvs
  <2> QED BY <1>2, <2>1, ReceiverFrame DEF Show
<1>3. CASE CommitTerminal(d)
  <2>1. recv[d].msg \in shown /\ recv[d].msg \in Ids \cup {NoMsg}
    BY <1>0, <1>3 DEF CommitTerminal, ReceiverTypes, ShownFirst, Recvs
  <2> DEFINE ids == [done |-> tracked[d].done \cup {recv[d].msg},
                     ack |-> tracked[d].ack \cup {recv[d].msg}]
  <2>2. ids \in IdSets /\ ids.ack \subseteq shown
    BY <1>0, <2>1 DEF ReceiverTypes, ShownFirst, IdSets
  <2>3. tracked' = [tracked EXCEPT ![d] = ids] /\ kept' = [kept EXCEPT ![d] = ids]
    BY <1>3 DEF CommitTerminal, Track
  <2> HIDE DEF ids
  <2>4. recv' = [recv EXCEPT ![d] = NoRecv] /\ UNCHANGED <<rows, shown>>
    BY <1>3 DEF CommitTerminal
  <2>5. ReceiverTypes' /\ ShownFirst'
    BY <1>0, <2>2, <2>3, <2>4 DEF ReceiverTypes, ShownFirst, Recvs, NoRecv
  <2> QED BY <1>3, <2>5, ReceiverFrame DEF CommitTerminal
<1>4. ASSUME NEW m \in SentTo(d), Decrypt(d, m) \/ Bootstrap(d, m)
      PROVE  IInv'
  <2>1. \E pc \in {"opened", "booted"} : recv' = [recv EXCEPT ![d] = [pc |-> pc, msg |-> m]]
    BY <1>4 DEF Decrypt, Bootstrap
  <2>2. UNCHANGED <<rows, tracked, kept, shown>>
    BY <1>4 DEF Decrypt, Bootstrap
  <2>3. ReceiverTypes' /\ ShownFirst'
    BY <1>0, <2>1, <2>2, IdsSplit DEF ReceiverTypes, ShownFirst, Recvs
  <2> QED BY <1>4, <2>2, <2>3, ReceiverFrame DEF Decrypt, Bootstrap
<1>5. ASSUME NEW m \in SentTo(d), Fail(d, m)
      PROVE  IInv'
  <2>1. ReceiverTypes' /\ ShownFirst'
    BY <1>0, <1>5 DEF Fail, ReceiverTypes, ShownFirst
  <2> QED BY <1>5, <2>1, ReceiverFrame DEF Fail
<1>6. ASSUME NEW m \in SentTo(d), Ack(d, m)
      PROVE  IInv'
  <2> DEFINE ids == [tracked[d] EXCEPT !.ack = @ \ {m}]
  <2>1. ids \in IdSets /\ ids.ack \subseteq shown /\ m \in shown
    BY <1>0, <1>6 DEF Ack, ReceiverTypes, ShownFirst, IdSets
  <2>2. tracked' = [tracked EXCEPT ![d] = ids] /\ kept' = [kept EXCEPT ![d] = ids]
    BY <1>6 DEF Ack, Track
  <2> HIDE DEF ids
  <2>3. rows' = [rows EXCEPT ![m] = "delivered"] /\ UNCHANGED <<recv, shown>>
    BY <1>6 DEF Ack
  <2>4. ReceiverTypes' /\ ShownFirst'
    BY <1>0, <2>1, <2>2, <2>3 DEF ReceiverTypes, ShownFirst, Rows
  <2> QED BY <1>0, <1>6, <2>1, <2>3, <2>4, ReceiverFrame DEF Ack, ReceiverTypes
<1>7. ASSUME NEW m \in SentTo(d), AckLost(d, m) \/ ReadReceipt(d, m)
      PROVE  IInv'
  <2>1. /\ m \in shown /\ rows' = [rows EXCEPT ![m] = "delivered"]
        /\ UNCHANGED <<recv, shown, tracked, kept>>
    BY <1>0, <1>7 DEF AckLost, ReadReceipt, ShownFirst
  <2>2. ReceiverTypes' /\ ShownFirst'
    BY <1>0, <2>1 DEF ReceiverTypes, ShownFirst, Rows
  <2> QED BY <1>0, <1>7, <2>1, <2>2, ReceiverFrame DEF AckLost, ReadReceipt, ReceiverTypes
<1> QED BY <1>1, <1>2, <1>3, <1>4, <1>5, <1>6, <1>7 DEF Receiver

LEMMA TransportSteps ==
    ASSUME IInv, Transport
    PROVE  IInv'
<1> USE DEF sessions, items, outbound, server, inbound, history, bounds
<1>0. SenderTypes
  BY DEF IInv
<1>1. ASSUME NEW p \in posts, Accept(p)
      PROVE  IInv'
  <2>1. p.id \in Ids /\ [p EXCEPT !.at = "server"] \in Posts
        /\ [p EXCEPT !.at = "server"].id = p.id
    BY <1>0 DEF SenderTypes, Posts
  <2>2. posts' = (posts \ {p}) \cup {[p EXCEPT !.at = "server"]}
    BY <1>1 DEF Accept
  <2>3. UNCHANGED <<inits, work, bubble, recv, tracked, kept, shown>>
    BY <1>1 DEF Accept
  <2>4. \/ rows[p.id] = "none" /\ rows' = [rows EXCEPT ![p.id] = "pending"]
        \/ rows[p.id] # "none" /\ rows' = rows
    BY <1>1 DEF Accept
  <2>5. /\ rows' \in [Ids -> Rows] /\ rows'[p.id] # "none"
        /\ \A m \in Ids : /\ rows[m] # "none" => rows'[m] # "none"
                          /\ rows'[m] = "delivered" <=> rows[m] = "delivered"
    BY <2>1, <2>4 DEF IInv, ReceiverTypes, Rows
  <2>6. SenderTypes'
    BY <1>0, <2>1, <2>2, <2>3 DEF SenderTypes
  <2>7. ReceiverTypes' /\ ShownFirst' /\ AckedIsShown'
    BY <2>3, <2>5 DEF IInv, ReceiverTypes, ShownFirst, AckedIsShown
  <2>8. StatusFollows'
    BY <1>0, <2>1, <2>2, <2>3, <2>5 DEF IInv, StatusFollows, SenderTypes, Posts
  <2> QED BY <2>6, <2>7, <2>8 DEF IInv
<1>2. ASSUME NEW p \in posts, Settle(p)
      PROVE  IInv'
  <2>1. p.id \in Ids /\ rows[p.id] # "none" /\ bubble' = [bubble EXCEPT ![p.id] = "sent"]
    BY <1>0, <1>2 DEF Settle, SenderTypes, Posts, IInv, StatusFollows
  <2>2. SenderTypes'
    BY <1>0, <1>2, <2>1 DEF Settle, SenderTypes, Bubbles
  <2> QED BY <1>0, <1>2, <2>1, <2>2, SenderFrame DEF Settle, SenderTypes
<1>3. ASSUME NEW p \in posts, PostFails(p)
      PROVE  IInv'
  <2>1. bubble' = bubble \/ bubble' = [bubble EXCEPT ![p.id] = "error"]
    BY <1>3 DEF PostFails
  <2>2. SenderTypes'
    BY <1>0, <1>3, <2>1 DEF PostFails, SenderTypes, Bubbles
  <2> QED BY <1>0, <1>3, <2>1, <2>2, SenderFrame DEF PostFails, SenderTypes
<1> QED BY <1>1, <1>2, <1>3 DEF Transport

LEMMA RestartSteps ==
    ASSUME IInv, NEW d \in Devs, Crash(d) \/ LoadHistory(d)
    PROVE  IInv'
<1> USE DEF sessions, items, outbound, server, inbound, history, bounds
<1>1. CASE Crash(d)
  <2>1. SenderTypes'
    BY <1>1 DEF IInv, Crash, SenderTypes, Works, Idle
  <2>2. ReceiverTypes' /\ ShownFirst'
    BY <1>1 DEF IInv, Crash, ReceiverTypes, ShownFirst, Recvs, IdSets, NoRecv, NoIds
  <2>3. StatusFollows' /\ AckedIsShown'
    BY <1>1 DEF IInv, Crash, StatusFollows, AckedIsShown
  <2> QED BY <2>1, <2>2, <2>3 DEF IInv
<1>2. CASE LoadHistory(d)
  <2>1. Restored(d) \in IdSets /\ Restored(d).ack \subseteq shown
    BY IdsSplit DEF IInv, Restored, ReceiverTypes, ShownFirst, IdSets
  <2>2. tracked' = [tracked EXCEPT ![d] = Restored(d)]
        /\ UNCHANGED <<inits, work, bubble, posts, rows, recv, shown, kept>>
    BY <1>2 DEF LoadHistory
  <2>3. ReceiverTypes' /\ ShownFirst'
    BY <2>1, <2>2 DEF IInv, ReceiverTypes, ShownFirst
  <2> QED BY <2>2, <2>3, ReceiverFrame
<1> QED BY <1>1, <1>2

-----------------------------------------------------------------------------
(* The theorems.                                                           *)

LEMMA Initial ==
    ASSUME Init
    PROVE  IInv
<1>1. SenderTypes
  BY DEF Init, SenderTypes, Works, Idle, Bubbles
<1>2. ReceiverTypes /\ ShownFirst
  BY DEF Init, ReceiverTypes, ShownFirst, Rows, Recvs, IdSets, NoRecv, NoIds
<1>3. StatusFollows /\ AckedIsShown
  BY DEF Init, StatusFollows, AckedIsShown
<1> QED BY <1>1, <1>2, <1>3 DEF IInv

LEMMA Inductive ==
    ASSUME IInv, [Next]_vars
    PROVE  IInv'
<1>1. CASE UNCHANGED vars
  BY <1>1 DEF IInv, SenderTypes, ReceiverTypes, ShownFirst, StatusFollows, AckedIsShown,
         vars, sessions, items, outbound, server, inbound, history, bounds
<1>2. CASE Transport
  BY <1>2, TransportSteps
<1>3. ASSUME NEW d \in Devs, Sender(d) \/ Receiver(d) \/ Crash(d) \/ LoadHistory(d)
      PROVE  IInv'
  BY <1>3, SenderSteps, ReceiverSteps, RestartSteps
<1> QED BY <1>1, <1>2, <1>3 DEF Next

LEMMA Invariance == Spec => []IInv
BY Initial, Inductive, PTL DEF Spec

\* What the two sides of a conversation keep about its messages stays typed: the send
\* under way, bubbles and requests of the sender, rows, receipts and tracking sets.
THEOREM TypeCorrect == Spec => [](SenderTypes /\ ReceiverTypes)
<1>1. IInv => SenderTypes /\ ReceiverTypes
  BY DEF IInv
<1> QED BY <1>1, Invariance, PTL

\* The server has a message as delivered only when the receiver has stored it: neither
\* the acknowledgement that follows a stored conversation, nor the sets restored after
\* a restart, nor a read receipt runs ahead of it (inbound-tracking.ts, ws-message-events.ts).
THEOREM DeliveredIsStored == Spec => []AckedIsShown
<1>1. IInv => AckedIsShown
  BY DEF IInv
<1> QED BY <1>1, Invariance, PTL

\* The status the sender sees is true, whatever is retried, lost or answered late
\* (updateOwnMessageStatus, markDirectQueuedMessageStatus).
THEOREM HonestStatus == Spec => []BubbleIsHonest
<1>1. IInv => BubbleIsHonest
  BY DEF IInv, StatusFollows, AckedIsShown, BubbleIsHonest
<1> QED BY <1>1, Invariance, PTL

-----------------------------------------------------------------------------
(* The ratchet's operators: what they make of a session.                   *)

Entries == [dh : KeyPairs \cup {NoPub}, n : Nat, key : Chains \X Nat]

Envelopes == [dh : KeyPairs, pn : Nat, n : Nat, key : Chains \X Nat,
              x3dh : Secrets \cup {NoX3dh}]

\* The Diffie-Hellman output a chain was made with.
End(c) == c[Len(c)]

\* A session has the sending side of another one.
SameSide(t, s) == t.dhs = s.dhs /\ t.dhr = s.dhr /\ t.cks = s.cks /\ t.ns = s.ns

\* A session seals with a new key pair.
NewSide(t, own, remote) ==
    t.dhs = own /\ t.dhr = remote /\ End(t.cks) = {own, remote} /\ t.ns = 0

LEMMA LeastNat ==
    ASSUME NEW S, S \subseteq Nat, S # {}
    PROVE  \E x \in S : \A y \in S : x <= y
<1>1. PICK x \in S : \A y \in S : ~(<<y, x>> \in OpToRel(<, Nat))
  BY NatLessThanWellFounded, WFMin, Zenon
<1>2. \A y \in S : ~(y < x)
  BY <1>1, Zenon DEF OpToRel
<1> QED BY <1>2

LEMMA EvictType ==
    ASSUME NEW q \in Seq(Entries)
    PROVE  Evict(q) \in Seq(Entries)
<1>0. Len(q) \in Nat
  BY LenProperties
<1>1. CASE Len(q) <= MaxSkip
  BY <1>1 DEF Evict
<1>2. CASE ~(Len(q) <= MaxSkip)
  <2> DEFINE epochs == {i \in 1..(Len(q) + 1) :
                           /\ Len(q) - i + 1 <= MaxSkip
                           /\ i \in 2..Len(q) => q[i].dh # q[i - 1].dh}
             first == CHOOSE i \in epochs : \A j \in epochs : i <= j
  <2>1. Len(q) + 1 \in epochs
    BY <1>0, SkipAssumption
  <2>2. epochs \subseteq 1..(Len(q) + 1)
    OBVIOUS
  <2>3. Evict(q) = SubSeq(q, first, Len(q))
    BY <1>2 DEF Evict
  <2> HIDE DEF epochs
  <2>4. \E x \in epochs : \A j \in epochs : x <= j
    <3>1. epochs \subseteq Nat /\ epochs # {}
      BY <1>0, <2>1, <2>2
    <3> QED BY <3>1, LeastNat
  <2>5. first \in epochs
    BY <2>4
  <2>6. first \in 1..(Len(q) + 1)
    BY <2>2, <2>5
  <2> HIDE DEF first
  <2>7. \A i \in first..Len(q) : q[i] \in Entries
    BY <1>0, <2>6, ElementOfSeq
  <2> QED BY <1>0, <2>3, <2>6, <2>7, SubSeqProperties
<1> QED BY <1>1, <1>2

LEMMA WithoutType ==
    ASSUME NEW q \in Seq(Entries), NEW i \in 1..Len(q)
    PROVE  Without(q, i) \in Seq(Entries)
<1>0. Len(q) \in Nat
  BY LenProperties
<1>1. SubSeq(q, 1, i - 1) \in Seq(Entries) /\ SubSeq(q, i + 1, Len(q)) \in Seq(Entries)
  <2>1. \A j \in 1..(i - 1) : q[j] \in Entries
    BY <1>0, ElementOfSeq
  <2>2. \A j \in (i + 1)..Len(q) : q[j] \in Entries
    BY <1>0, ElementOfSeq
  <2> QED BY <1>0, <2>1, <2>2, SubSeqProperties
<1> QED BY <1>1, ConcatProperties DEF Without

LEMMA SkippedType ==
    ASSUME NEW s \in Sessions
    PROVE  s.skipped \in Seq(Entries) /\ \A q \in Seq(Entries) :
               /\ [s EXCEPT !.skipped = q] \in Sessions
               /\ SameSide([s EXCEPT !.skipped = q], s)
BY DEF Sessions, Entries, SameSide

LEMMA SessionCount == \A s \in Sessions : s.ns \in Nat /\ s.dhs \in KeyPairs
BY DEF Sessions

LEMMA CountedType ==
    ASSUME NEW s \in Sessions
    PROVE  [s EXCEPT !.nr = @ + 1] \in Sessions /\ SameSide([s EXCEPT !.nr = @ + 1], s)
<1>1. s.nr + 1 \in Nat
  BY DEF Sessions
<1>2. \A n \in Nat : [s EXCEPT !.nr = n] \in Sessions /\ SameSide([s EXCEPT !.nr = n], s)
  BY DEF Sessions, SameSide
<1>3. [s EXCEPT !.nr = @ + 1] = [s EXCEPT !.nr = s.nr + 1]
  OBVIOUS
<1> QED BY <1>1, <1>2, <1>3

LEMMA SkipType ==
    ASSUME NEW s \in Sessions, NEW until \in Nat
    PROVE  Skip(s, until) \in Sessions /\ SameSide(Skip(s, until), s)
           /\ Skip(s, until).rk = s.rk
<1>1. CASE s.ckr = NoChain \/ until <= s.nr
  BY <1>1 DEF Skip, SameSide
<1>2. CASE ~(s.ckr = NoChain \/ until <= s.nr)
  <2> DEFINE more == [i \in 1..(until - s.nr) |->
                       [dh |-> s.dhr, n |-> s.nr + i - 1, key |-> <<s.ckr, s.nr + i - 1>>]]
             q == s.skipped \o more
  <2>1. s.nr \in Nat /\ s.ckr \in Chains /\ s.dhr \in KeyPairs \cup {NoPub}
        /\ s.skipped \in Seq(Entries)
    BY SkippedType DEF Sessions
  <2>2. until - s.nr \in Nat
    BY <1>2, <2>1
  <2>3. more \in Seq(Entries)
    <3>1. \A i \in 1..(until - s.nr) :
            [dh |-> s.dhr, n |-> s.nr + i - 1, key |-> <<s.ckr, s.nr + i - 1>>] \in Entries
      BY <2>1, <2>2 DEF Entries
    <3>2. more \in [1..(until - s.nr) -> Entries]
      BY <3>1
    <3> HIDE DEF more
    <3> QED BY <2>2, <3>2, SeqDef
  <2>4. q \in Seq(Entries)
    BY <2>1, <2>3, ConcatProperties
  <2>5. Skip(s, until) = [s EXCEPT !.nr = until, !.skipped = q]
    BY <1>2 DEF Skip
  <2> HIDE DEF q
  <2> QED BY <2>4, <2>5 DEF Sessions, Entries, SameSide
<1> QED BY <1>1, <1>2

LEMMA DhStepType ==
    ASSUME NEW s \in Sessions, NEW remote \in KeyPairs, NEW fresh \in KeyPairs
    PROVE  DhStep(s, remote, fresh) \in Sessions
           /\ NewSide(DhStep(s, remote, fresh), fresh, remote)
<1> DEFINE rk1 == Append(s.rk, DH(s.dhs, remote))
           rk2 == Append(rk1, DH(fresh, remote))
           old == Evict(s.skipped)
           T == Secrets \cup SUBSET KeyPairs
<1>1. /\ DH(s.dhs, remote) \in T /\ DH(fresh, remote) \in T
      /\ s.rk \in Seq(T) /\ s.ns \in Nat
  BY DEF Sessions, DH, Chains
<1> HIDE DEF T
<1>2. rk1 \in Seq(T)
  BY <1>1, AppendProperties
<1> HIDE DEF rk1
<1>3. rk2 \in Seq(T) /\ End(rk2) = {fresh, remote}
  BY <1>1, <1>2, AppendProperties DEF End, DH
<1>4. old \in Seq(Entries)
  BY SkippedType, EvictType
<1>5. DhStep(s, remote, fresh) =
          [s EXCEPT !.pn = s.ns, !.ns = 0, !.nr = 0, !.dhr = remote, !.skipped = old,
                    !.ckr = rk1, !.dhs = fresh, !.rk = rk2, !.cks = rk2]
  BY DEF DhStep, rk1
<1> HIDE DEF rk2, old
<1>6. rk1 \in Chains /\ rk2 \in Chains
  BY <1>2, <1>3 DEF Chains, T
<1>7. DhStep(s, remote, fresh) =
        [dhs |-> fresh, dhr |-> remote, rk |-> rk2, cks |-> rk2, ckr |-> rk1,
         ns |-> 0, nr |-> 0, pn |-> s.ns, skipped |-> old]
  BY <1>5, Zenon DEF Sessions
<1> QED BY <1>1, <1>3, <1>4, <1>6, <1>7 DEF Sessions, Entries, NewSide

\* The sending side is as before, or a DH step has made a new one.
LEMMA DecryptType ==
    ASSUME NEW s \in Sessions, NEW m \in Envelopes, NEW fresh \in KeyPairs, Opens(s, m, fresh)
    PROVE  LET t == AfterDecrypt(s, m, fresh) IN
           /\ t \in Sessions
           /\ \/ SameSide(t, s) /\ ~(IsDhStep(s, m) /\ Stored(s, m) = {})
              \/ NewSide(t, fresh, m.dh)
<1> DEFINE t == AfterDecrypt(s, m, fresh)
<1>0. m.dh \in KeyPairs /\ m.n \in Nat /\ m.pn \in Nat
  BY DEF Envelopes
<1>1. CASE Stored(s, m) # {}
  <2> DEFINE i == CHOOSE j \in Stored(s, m) : s.skipped[j].key = m.key
  <2>1. \E j \in Stored(s, m) : s.skipped[j].key = m.key
    BY <1>1 DEF Opens, Outcome
  <2>2. i \in 1..Len(s.skipped)
    BY <2>1 DEF Stored
  <2>3. t = [s EXCEPT !.skipped = Without(s.skipped, i)]
    BY <1>1 DEF AfterDecrypt
  <2> HIDE DEF i
  <2>4. Without(s.skipped, i) \in Seq(Entries)
    BY <2>2, SkippedType, WithoutType
  <2> QED BY <1>1, <2>3, <2>4, SkippedType
<1>2. CASE Stored(s, m) = {}
  <2> DEFINE a == Skip(s, m.pn)
             c == AtChain(s, m, fresh)
             k == Skip(c, m.n)
  <2>1. a \in Sessions
    BY <1>0, SkipType
  <2>2. c \in Sessions /\ \/ SameSide(c, s) /\ ~IsDhStep(s, m)
                          \/ NewSide(c, fresh, m.dh)
    <3>1. CASE IsDhStep(s, m)
      <4>1. c = DhStep(a, m.dh, fresh)
        BY <3>1 DEF AtChain
      <4> HIDE DEF a, c
      <4> QED BY <1>0, <2>1, <4>1, DhStepType
    <3>2. CASE ~IsDhStep(s, m)
      BY <3>2 DEF AtChain, SameSide
    <3> QED BY <3>1, <3>2
  <2> HIDE DEF a, c
  <2>3. k \in Sessions /\ SameSide(k, c)
    BY <1>0, <2>2, SkipType
  <2>4. t = [k EXCEPT !.nr = @ + 1]
    BY <1>2 DEF AfterDecrypt, AtKey, c
  <2> HIDE DEF k, t
  <2>5. t \in Sessions /\ SameSide(t, k)
    BY <2>3, <2>4, CountedType
  <2> QED BY <1>2, <2>2, <2>3, <2>5 DEF SameSide, NewSide, t
<1> QED BY <1>1, <1>2

LEMMA InitSenderType ==
    ASSUME NEW x \in Secrets, NEW own \in KeyPairs, NEW remote \in KeyPairs
    PROVE  InitSender(x, own, remote) \in Sessions
           /\ NewSide(InitSender(x, own, remote), own, remote)
<1> DEFINE root == <<x, DH(own, remote)>>
<1>1. root \in Chains /\ End(root) = {own, remote}
  BY DEF Chains, End, DH
<1> HIDE DEF root
<1>2. NoChain \in Chains /\ << >> \in Seq(Entries)
  BY EmptySeq DEF NoChain, Chains
<1>3. InitSender(x, own, remote) =
        [dhs |-> own, dhr |-> remote, rk |-> root, cks |-> root, ckr |-> NoChain,
         ns |-> 0, nr |-> 0, pn |-> 0, skipped |-> << >>]
  BY DEF InitSender, root
<1> QED BY <1>1, <1>2, <1>3 DEF Sessions, Entries, NewSide

\* A receiver's session steps with the first message it opens.
LEMMA InitReceiverType ==
    ASSUME NEW x \in Secrets, NEW own \in KeyPairs, NEW m \in Envelopes,
           NEW fresh \in KeyPairs, Opens(InitReceiver(x, own), m, fresh)
    PROVE  LET t == AfterDecrypt(InitReceiver(x, own), m, fresh) IN
           t \in Sessions /\ NewSide(t, fresh, m.dh)
<1> DEFINE s == InitReceiver(x, own)
<1>1. <<x>> \in Chains /\ NoChain \in Chains /\ << >> \in Seq(Entries)
  BY EmptySeq DEF NoChain, Chains
<1>2. s \in Sessions /\ s.dhr = NoPub /\ s.skipped = << >>
  BY <1>1 DEF InitReceiver, Sessions, Entries
<1>3. IsDhStep(s, m) /\ Stored(s, m) = {}
  <2>1. Len(s.skipped) = 0
    BY <1>2, EmptySeq
  <2> QED BY <1>2, <2>1 DEF IsDhStep, Stored
<1> QED BY <1>2, <1>3, DecryptType

LEMMA EncryptType ==
    ASSUME NEW s \in Sessions
    PROVE  LET t == AfterEncrypt(s) IN
           t \in Sessions /\ t.dhs = s.dhs /\ t.dhr = s.dhr /\ t.cks = s.cks
           /\ t.ns = s.ns + 1
<1>1. s.ns + 1 \in Nat
  BY DEF Sessions
<1>2. \A n \in Nat : LET t == [s EXCEPT !.ns = n] IN
        t \in Sessions /\ t.dhs = s.dhs /\ t.dhr = s.dhr /\ t.cks = s.cks /\ t.ns = n
  BY DEF Sessions
<1>3. AfterEncrypt(s) = [s EXCEPT !.ns = s.ns + 1]
  BY DEF AfterEncrypt
<1> QED BY <1>1, <1>2, <1>3

-----------------------------------------------------------------------------
(* Queued commits: one counts when it is ahead of a session with its keys, *)
(* and all of them leave the session as far as the furthest.               *)

LEMMA AppliedType ==
    ASSUME NEW s \in Sessions, NEW m, commit[m] \in Sessions
    PROVE  LET t == Applied(s, m) IN
           /\ t \in {s, commit[m]} /\ t \in Sessions
           /\ t.dhs = s.dhs /\ t.dhr = s.dhr /\ s.ns <= t.ns
           /\ commit[m].dhs = s.dhs /\ commit[m].dhr = s.dhr => commit[m].ns <= t.ns
<1>1. s # NoSession
  BY SessionAssumption
<1>2. s.ns \in Nat /\ commit[m].ns \in Nat
  BY SessionCount
<1> QED BY <1>1, <1>2 DEF Applied, ShouldApply

\* The commits up to the k-th message, as AllApplied applies them.
Upto(d, f, n) ==
    f = [k \in 0..n |->
           IF k = 0 THEN session[d]
           ELSE IF <<d, k>> \in queue[d] THEN Applied(f[k - 1], <<d, k>>)
           ELSE f[k - 1]]

LEMMA UptoExists ==
    ASSUME NEW d, NEW n \in Nat
    PROVE  \E f : Upto(d, f, n)
<1> DEFINE bad == {k \in Nat : ~\E f : Upto(d, f, k)}
<1>1. CASE bad = {}
  BY <1>1
<1>2. CASE bad # {}
  <2>1. PICK k \in bad : \A j \in bad : k <= j
    BY <1>2, LeastNat
  <2>2. k # 0
    <3>1. Upto(d, [j \in 0..0 |-> session[d]], 0)
      BY DEF Upto
    <3> QED BY <2>1, <3>1
  <2>3. k \in Nat /\ k - 1 \in Nat /\ k - 1 \notin bad
    BY <2>1, <2>2
  <2>4. PICK f : Upto(d, f, k - 1)
    BY <2>3
  <2> DEFINE last == IF <<d, k>> \in queue[d] THEN Applied(f[k - 1], <<d, k>>) ELSE f[k - 1]
             g == [j \in 0..k |-> IF j = k THEN last ELSE f[j]]
  <2>5. g[k] = last /\ \A j \in 0..(k - 1) : g[j] = f[j]
    BY <2>3
  <2>6. \A j \in 0..(k - 1) :
          f[j] = IF j = 0 THEN session[d]
                 ELSE IF <<d, j>> \in queue[d] THEN Applied(f[j - 1], <<d, j>>)
                 ELSE f[j - 1]
    BY <2>4 DEF Upto
  <2> DEFINE h == [j \in 0..k |->
           IF j = 0 THEN session[d]
           ELSE IF <<d, j>> \in queue[d] THEN Applied(g[j - 1], <<d, j>>)
           ELSE g[j - 1]]
  <2>7. ASSUME NEW j \in 0..k PROVE g[j] = h[j]
    <3>1. CASE j = k
      <4>1. h[j] = IF <<d, k>> \in queue[d] THEN Applied(g[k - 1], <<d, k>>) ELSE g[k - 1]
        BY <2>2, <3>1
      <4>2. g[k - 1] = f[k - 1]
        BY <2>3, <2>5
      <4> QED BY <2>5, <3>1, <4>1, <4>2
    <3>2. CASE j # k
      <4>1. j \in 0..(k - 1) /\ (j # 0 => j - 1 \in 0..(k - 1))
        BY <2>3, <3>2
      <4>2. g[j] = f[j] /\ (j # 0 => g[j - 1] = f[j - 1])
        BY <2>5, <4>1
      <4>3. h[j] = IF j = 0 THEN session[d]
                 ELSE IF <<d, j>> \in queue[d] THEN Applied(g[j - 1], <<d, j>>)
                 ELSE g[j - 1]
        OBVIOUS
      <4> HIDE DEF g, h
      <4> QED BY <2>6, <4>1, <4>2, <4>3
    <3> QED BY <3>1, <3>2
  <2>8. g = h
    <3>1. g = [j \in 0..k |-> g[j]] /\ h = [j \in 0..k |-> h[j]]
      OBVIOUS
    <3> HIDE DEF g, h
    <3> QED BY <2>7, <3>1
  <2>9. Upto(d, g, k)
    <3> HIDE DEF g
    <3> QED BY <2>8 DEF Upto
  <2> HIDE DEF g
  <2> QED BY <2>1, <2>9
<1> QED BY <1>1, <1>2

LEMMA AllAppliedUpto ==
    ASSUME NEW d \in Devs
    PROVE  \E f : Upto(d, f, Sends[d]) /\ AllApplied(d) = f[Sends[d]]
<1> DEFINE g == CHOOSE f : Upto(d, f, Sends[d])
<1>1. Sends[d] \in Nat
  BY MessagesAssumption
<1>2. Upto(d, g, Sends[d])
  BY <1>1, UptoExists
<1>3. AllApplied(d) = g[Sends[d]]
  BY DEF AllApplied, Upto
<1> QED BY <1>2, <1>3

\* A session that has taken over the commits of the first k messages.
Advanced(d, t, k) ==
    LET s == session[d] IN
    /\ t \in Sessions /\ t \in {s} \cup {commit[m] : m \in queue[d]}
    /\ t.dhs = s.dhs /\ t.dhr = s.dhr /\ s.ns <= t.ns
    /\ \A j \in 1..k : LET q == commit[<<d, j>>] IN
          <<d, j>> \in queue[d] /\ q.dhs = s.dhs /\ q.dhr = s.dhr => q.ns <= t.ns

LEMMA UptoAdvanced ==
    ASSUME NEW d, NEW n \in Nat, NEW f, Upto(d, f, n), session[d] \in Sessions,
           \A m \in queue[d] : commit[m] \in Sessions
    PROVE  Advanced(d, f[n], n)
<1> DEFINE bad == {k \in Nat : k <= n /\ ~Advanced(d, f[k], k)}
<1>0. \A k \in 0..n :
        f[k] = IF k = 0 THEN session[d]
               ELSE IF <<d, k>> \in queue[d] THEN Applied(f[k - 1], <<d, k>>)
               ELSE f[k - 1]
  BY DEF Upto
<1>1. CASE bad = {}
  BY <1>1
<1>2. CASE bad # {}
  <2>1. PICK k \in bad : \A j \in bad : k <= j
    BY <1>2, LeastNat
  <2>2. k # 0
    <3>1. f[0] = session[d] /\ session[d].ns \in Nat
      <4>1. 0 \in 0..n
        OBVIOUS
      <4> QED BY <1>0, <4>1, SessionCount
    <3>2. session[d].ns <= session[d].ns
      BY <3>1
    <3>3. Advanced(d, f[0], 0)
      BY <3>1, <3>2 DEF Advanced
    <3> QED BY <2>1, <3>3
  <2>3. k \in Nat /\ k \in 0..n /\ k - 1 \in Nat /\ k - 1 \notin bad
    BY <2>1, <2>2
  <2>4. Advanced(d, f[k - 1], k - 1)
    BY <2>3
  <2> DEFINE p == f[k - 1]
             q == commit[<<d, k>>]
  <2>5. \A j \in 1..k : j = k \/ j \in 1..(k - 1)
    BY <2>3
  <2>6. /\ p \in Sessions /\ p \in {session[d]} \cup {commit[m] : m \in queue[d]}
        /\ p.dhs = session[d].dhs /\ p.dhr = session[d].dhr /\ session[d].ns <= p.ns
        /\ \A j \in 1..(k - 1) :
              /\ <<d, j>> \in queue[d]
              /\ commit[<<d, j>>].dhs = session[d].dhs /\ commit[<<d, j>>].dhr = session[d].dhr
              => commit[<<d, j>>].ns <= p.ns
    BY <2>4 DEF Advanced
  <2>7. CASE <<d, k>> \in queue[d]
    <3>1. f[k] = Applied(p, <<d, k>>) /\ q \in Sessions
      BY <1>0, <2>2, <2>3, <2>7
    <3> HIDE DEF p
    <3>2. /\ f[k] \in {p, q} /\ f[k] \in Sessions
          /\ f[k].dhs = p.dhs /\ f[k].dhr = p.dhr /\ p.ns <= f[k].ns
          /\ q.dhs = p.dhs /\ q.dhr = p.dhr => q.ns <= f[k].ns
      BY <2>6, <3>1, AppliedType
    <3>3. p.ns \in Nat /\ f[k].ns \in Nat /\ session[d].ns \in Nat
          /\ \A m \in queue[d] : commit[m].ns \in Nat
      BY <2>6, <3>2, SessionCount
    <3>4. session[d].ns <= f[k].ns
      BY <2>6, <3>2, <3>3
    <3>5. ASSUME NEW j \in 1..k, <<d, j>> \in queue[d],
                 commit[<<d, j>>].dhs = session[d].dhs, commit[<<d, j>>].dhr = session[d].dhr
          PROVE  commit[<<d, j>>].ns <= f[k].ns
      <4>1. CASE j = k
        BY <2>6, <3>2, <3>5, <4>1
      <4>2. CASE j \in 1..(k - 1)
        <5>1. commit[<<d, j>>].ns <= p.ns
          BY <2>6, <3>5, <4>2
        <5> QED BY <3>2, <3>3, <3>5, <5>1
      <4> QED BY <2>5, <4>1, <4>2
    <3>6. f[k] \in {session[d]} \cup {commit[m] : m \in queue[d]}
      BY <2>6, <2>7, <3>2
    <3>7. Advanced(d, f[k], k)
      BY <2>6, <3>2, <3>4, <3>5, <3>6 DEF Advanced
    <3> QED BY <2>1, <3>7
  <2>8. CASE <<d, k>> \notin queue[d]
    <3>1. f[k] = p
      BY <1>0, <2>2, <2>3, <2>8
    <3>2. Advanced(d, p, k)
      <4> HIDE DEF p
      <4> QED BY <2>5, <2>6, <2>8 DEF Advanced
    <3> QED BY <2>1, <3>1, <3>2
  <2> QED BY <2>7, <2>8
<1> QED BY <1>1, <1>2

LEMMA AllAppliedType ==
    ASSUME NEW d \in Devs, session[d] \in Sessions,
           \A m \in queue[d] : commit[m] \in Sessions
    PROVE  Advanced(d, AllApplied(d), Sends[d])
<1>1. PICK f : Upto(d, f, Sends[d]) /\ AllApplied(d) = f[Sends[d]]
  BY AllAppliedUpto
<1>2. Sends[d] \in Nat
  BY MessagesAssumption
<1> QED BY <1>1, <1>2, UptoAdvanced

LEMMA NoneApplied ==
    ASSUME NEW d \in Devs, \A m \in queue[d] : ~ShouldApply(session[d], commit[m])
    PROVE  AllApplied(d) = session[d]
<1>1. PICK f : Upto(d, f, Sends[d]) /\ AllApplied(d) = f[Sends[d]]
  BY AllAppliedUpto
<1> DEFINE n == Sends[d]
           bad == {k \in Nat : k <= n /\ f[k] # session[d]}
<1>2. n \in Nat
  BY MessagesAssumption
<1>3. \A k \in 0..n : f[k] = IF k = 0 THEN session[d]
                              ELSE IF <<d, k>> \in queue[d] THEN Applied(f[k - 1], <<d, k>>)
                              ELSE f[k - 1]
  BY <1>1 DEF Upto
<1>4. CASE bad # {}
  <2>1. PICK k \in bad : \A j \in bad : k <= j
    BY <1>4, LeastNat
  <2>2. k \in 0..n /\ f[0] = session[d] /\ k # 0
    <3>1. k \in 0..n /\ f[k] # session[d]
      BY <1>2, <2>1
    <3>2. 0 \in 0..n
      BY <1>2
    <3>3. f[0] = session[d]
      BY <1>3, <3>2
    <3> QED BY <3>1, <3>3
  <2>3. k - 1 \in Nat /\ k - 1 \notin bad /\ k - 1 <= n
    BY <1>2, <2>1, <2>2
  <2>4. f[k - 1] = session[d]
    BY <2>3
  <2>5. <<d, k>> \in queue[d] => Applied(f[k - 1], <<d, k>>) = session[d]
    BY <2>4 DEF Applied
  <2> QED BY <1>3, <2>1, <2>2, <2>4, <2>5
<1> QED BY <1>1, <1>2, <1>4

(* No key comes back: the inductive invariant.                             *)

\* What the server has of a device or is on its way; what a send is about to post.
Posted(d) == {m \in SentBy(d) : rows[m] # "none" \/ \E p \in posts : p.id = m}
AtWork(d) == {m \in Ids : work[d].pc = "queued" /\ work[d].msg = m}

\* The messages of a device that are or may come to be posted.
Alive(d) == Posted(d) \cup queue[d] \cup AtWork(d)

\* A sending chain of d is made with a key pair of its own and one of the other side.
Linked(d, dh, c) ==
    \E k \in 1..generated[d], e \in Devs \ {d} : \E l \in 0..generated[e] :
        dh = <<d, k>> /\ End(c) = {<<d, k>>, <<e, l>>}

\* The sending chains of a device that a key of a message may be taken from.
InHand(d) == {env[m].key[1] : m \in Alive(d)}
             \cup {c \in {session[d].cks} : session[d] \in Sessions}

StoreTypes ==
    /\ generated \in [Devs -> Nat] /\ session \in [Devs -> Sessions \cup {NoSession}]
    /\ queue \in [Devs -> SUBSET Ids]
    /\ env = [m \in Ids |-> env[m]] /\ commit = [m \in Ids |-> commit[m]]

Received ==
    /\ \A m \in live \cup shown : m \in Ids /\ rows[m] # "none"
    /\ \A d \in Devs : recv[d].pc # "idle" =>
          recv[d].msg \in Ids /\ rows[recv[d].msg] # "none"

Written ==
    \A d \in Devs : \A m \in Alive(d) :
        /\ m \in SentBy(d) /\ bubble[m] # "none"
        /\ session[d] \in Sessions /\ env[m] \in Envelopes
        /\ Linked(d, env[m].dh, env[m].key[1]) /\ env[m].key[2] = env[m].n

Owned ==
    \A d \in Devs :
        /\ session[d] \in Sessions => Linked(d, session[d].dhs, session[d].cks)
        /\ work[d].pc \in {"ready", "queued"} => session[d] \in Sessions

\* A queued commit is the session after its message.
Commits ==
    \A d \in Devs : \A m \in queue[d] :
        /\ commit[m] \in Sessions
        /\ commit[m].dhs = env[m].dh /\ commit[m].ns = env[m].n + 1
        /\ commit[m].cks = env[m].key[1]
        /\ commit[m].dhs = session[d].dhs => commit[m].dhr = session[d].dhr

\* The session has left the key of a message behind.
Behind(d, m) == env[m].dh = session[d].dhs => env[m].n < session[d].ns

\* It has of all that were posted; of the queued ones too when it is about to seal; and
\* it is at the key of the message that is being sent.
SpentBy(d) ==
    /\ \A m \in Posted(d) : Behind(d, m)
    /\ work[d].pc \in {"prepared", "ready"} => \A m \in queue[d] : Behind(d, m)
    /\ \A x \in AtWork(d) :
          /\ env[x].dh = session[d].dhs /\ env[x].n = session[d].ns
          /\ \A m \in Alive(d) \ {x} : Behind(d, m)
Spent == \A d \in Devs : SpentBy(d)

Distinct ==
    \A d \in Devs : \A m, x \in Alive(d) :
        m # x => env[m].dh # env[x].dh \/ env[m].n # env[x].n

\* The two sides never seal with chains of the same two key pairs.
NoMirror ==
    \A d, e \in Devs : d # e =>
        \A c \in InHand(d), b \in InHand(e) : End(c) # End(b)

Core ==
    StoreTypes /\ Received /\ Written /\ Owned /\ Commits /\ Spent /\ Distinct /\ NoMirror

KInv == IInv /\ (cleared = {} => Core)

-----------------------------------------------------------------------------
(* What a step may do to a session and its keys.                           *)

\* It keeps its side, moved on at most, or takes that of a queued commit.
Kept(d) ==
    /\ generated'[d] = generated[d]
    /\ \/ session'[d] = session[d]
       \/ /\ session[d] \in Sessions /\ session'[d] \in Sessions
          /\ session'[d].dhs = session[d].dhs /\ session'[d].dhr = session[d].dhr
          /\ session[d].ns <= session'[d].ns
          /\ \/ session'[d].cks = session[d].cks
             \/ \E m \in queue[d] : session'[d] = commit[m]

\* It has a new key pair.
Renewed(d) ==
    /\ generated'[d] = generated[d] + 1 /\ session'[d] \in Sessions
    /\ \E e \in Devs \ {d} : \E l \in 0..generated[e] :
          NewSide(session'[d], <<d, generated[d] + 1>>, <<e, l>>)

LEMMA HeldLink ==
    ASSUME Core, NEW d \in Devs, NEW c \in InHand(d)
    PROVE  \E dh : Linked(d, dh, c)
BY DEF Core, InHand, Written, Owned

\* The key pairs of a message are older than the next one.
LEMMA OlderKeys ==
    ASSUME Core, NEW d \in Devs, NEW m \in Alive(d)
    PROVE  env[m].dh # <<d, generated[d] + 1>>
<1>1. PICK k \in 1..generated[d] : env[m].dh = <<d, k>>
  BY DEF Core, Written, Linked
<1>2. generated[d] \in Nat
  BY DEF Core, StoreTypes
<1> QED BY <1>1, <1>2

LEMMA NoMirrorKept ==
    ASSUME Core, env' = env, \A d \in Devs : Alive(d)' \subseteq Alive(d),
           \A d \in Devs : Kept(d) \/ Renewed(d)
    PROVE  NoMirror'
<1>0. \A d \in Devs : generated[d] \in Nat
  BY DEF Core, StoreTypes
<1>1. ASSUME NEW d \in Devs, NEW c \in InHand(d)'
      PROVE  \/ c \in InHand(d)
             \/ \E e \in Devs \ {d} : \E l \in 0..generated[e] :
                   End(c) = {<<d, generated[d] + 1>>, <<e, l>>}
  <2>1. CASE \E m \in Alive(d)' : c = env'[m].key[1]
    BY <2>1 DEF InHand
  <2>2. CASE session'[d] \in Sessions /\ c = session'[d].cks
    <3>1. CASE Renewed(d)
      BY <2>2, <3>1 DEF Renewed, NewSide
    <3>2. CASE Kept(d)
      <4>1. ASSUME NEW m \in queue[d], session'[d] = commit[m]
            PROVE  c \in InHand(d)
        <5>1. m \in Alive(d) /\ c = env[m].key[1]
          BY <2>2, <4>1 DEF Alive, Core, Commits
        <5> QED BY <5>1 DEF InHand
      <4>2. CASE session[d] \in Sessions /\ c = session[d].cks
        BY <4>2 DEF InHand
      <4> QED BY <2>2, <3>2, <4>1, <4>2 DEF Kept
    <3> QED BY <3>1, <3>2
  <2> QED BY <1>1, <2>1, <2>2 DEF InHand
<1>2. ASSUME NEW d \in Devs, NEW c \in InHand(d)'
      PROVE  \E k \in Nat, e \in Devs \ {d} : \E l \in 0..generated[e] :
                /\ End(c) = {<<d, k>>, <<e, l>>}
                /\ (k <= generated[d] /\ c \in InHand(d)) \/ k = generated[d] + 1
  <2>1. CASE c \in InHand(d)
    <3>1. PICK dh : Linked(d, dh, c)
      BY <2>1, HeldLink
    <3>2. PICK k \in 1..generated[d], e \in Devs \ {d} : \E l \in 0..generated[e] :
             End(c) = {<<d, k>>, <<e, l>>}
      BY <3>1 DEF Linked
    <3>3. k \in Nat /\ k <= generated[d]
      BY <1>0
    <3> QED BY <2>1, <3>2, <3>3
  <2>2. CASE \E e \in Devs \ {d} : \E l \in 0..generated[e] :
                   End(c) = {<<d, generated[d] + 1>>, <<e, l>>}
    <3>1. generated[d] + 1 \in Nat
      BY <1>0
    <3> QED BY <2>2, <3>1
  <2> QED BY <1>1, <1>2, <2>1, <2>2
<1>3. ASSUME NEW d \in Devs, NEW f \in Devs, d # f, NEW c \in InHand(d)', NEW b \in InHand(f)',
             End(c) = End(b)
      PROVE  FALSE
  <2>1. PICK k \in Nat, e \in Devs \ {d} : \E l \in 0..generated[e] :
                /\ End(c) = {<<d, k>>, <<e, l>>}
                /\ (k <= generated[d] /\ c \in InHand(d)) \/ k = generated[d] + 1
    BY <1>2, <1>3
  <2>2. PICK l \in 0..generated[e] :
                /\ End(c) = {<<d, k>>, <<e, l>>}
                /\ (k <= generated[d] /\ c \in InHand(d)) \/ k = generated[d] + 1
    BY <2>1
  <2>3. PICK i \in Nat, g \in Devs \ {f} : \E j \in 0..generated[g] :
                /\ End(b) = {<<f, i>>, <<g, j>>}
                /\ (i <= generated[f] /\ b \in InHand(f)) \/ i = generated[f] + 1
    BY <1>2, <1>3
  <2>4. PICK j \in 0..generated[g] :
                /\ End(b) = {<<f, i>>, <<g, j>>}
                /\ (i <= generated[f] /\ b \in InHand(f)) \/ i = generated[f] + 1
    BY <2>3
  <2>5. <<d, k>> \in {<<f, i>>, <<g, j>>} /\ <<f, i>> \in {<<d, k>>, <<e, l>>}
    BY <1>3, <2>2, <2>4
  <2>6. d = g /\ k = j /\ f = e /\ i = l
    BY <1>3, <2>5
  <2>7. k <= generated[d] /\ i <= generated[f]
    BY <1>0, <2>6
  <2>8. c \in InHand(d) /\ b \in InHand(f)
    BY <1>0, <2>2, <2>4, <2>7
  <2> QED BY <1>3, <2>8 DEF Core, NoMirror
<1> QED BY <1>3 DEF NoMirror

LEMMA LinkedGrows ==
    ASSUME NEW d \in Devs, NEW dh, NEW c, Linked(d, dh, c),
           \A e \in Devs : /\ generated[e] \in Nat /\ generated'[e] \in Nat
                           /\ generated[e] <= generated'[e]
    PROVE  Linked(d, dh, c)'
<1>1. PICK k \in 1..generated[d], e \in Devs \ {d} : \E l \in 0..generated[e] :
          dh = <<d, k>> /\ End(c) = {<<d, k>>, <<e, l>>}
  BY DEF Linked
<1>2. PICK l \in 0..generated[e] : dh = <<d, k>> /\ End(c) = {<<d, k>>, <<e, l>>}
  BY <1>1
<1>3. k \in 1..generated'[d] /\ l \in 0..generated'[e]
  OBVIOUS
<1> QED BY <1>2, <1>3 DEF Linked

\* Everything but a new message.
LEMMA Threads ==
    ASSUME Core, StoreTypes', Received', Spent', env' = env,
           \A d \in Devs : Alive(d)' \subseteq Alive(d),
           \A m \in Ids : bubble[m] # "none" => bubble'[m] # "none",
           \A d \in Devs : \A m \in queue'[d] : m \in queue[d] /\ commit'[m] = commit[m],
           \A d \in Devs : work'[d].pc \in {"ready", "queued"} => session'[d] \in Sessions,
           \A d \in Devs : Kept(d) \/ Renewed(d)
    PROVE  Core'
<1>1. \A d \in Devs : /\ generated[d] \in Nat /\ generated'[d] \in Nat
                      /\ generated[d] <= generated'[d]
  <2>1. \A d \in Devs : generated[d] \in Nat /\ generated'[d] \in Nat
    BY DEF Core, StoreTypes
  <2>2. \A d \in Devs : generated'[d] = generated[d] \/ generated'[d] = generated[d] + 1
    BY DEF Kept, Renewed
  <2> QED BY <2>1, <2>2
<1>2. \A d \in Devs : session[d] \in Sessions => session'[d] \in Sessions
  BY DEF Kept, Renewed
<1>3. ASSUME NEW d \in Devs, NEW dh, NEW c, Linked(d, dh, c)
      PROVE  Linked(d, dh, c)'
  BY <1>1, <1>3, LinkedGrows
<1>4. Written'
  <2>1. ASSUME NEW d \in Devs, NEW m \in Alive(d)'
        PROVE  /\ m \in SentBy(d) /\ bubble'[m] # "none"
               /\ session'[d] \in Sessions /\ env'[m] \in Envelopes
               /\ Linked(d, env[m].dh, env[m].key[1])' /\ env'[m].key[2] = env'[m].n
    <3>1. /\ m \in SentBy(d) /\ bubble[m] # "none"
          /\ session[d] \in Sessions /\ env[m] \in Envelopes
          /\ Linked(d, env[m].dh, env[m].key[1]) /\ env[m].key[2] = env[m].n
      BY <2>1 DEF Core, Written
    <3>2. m \in Ids
      BY <3>1 DEF SentBy
    <3>3. Linked(d, env[m].dh, env[m].key[1])'
      <4>1. PICK dh, c : dh = env[m].dh /\ c = env[m].key[1]
        OBVIOUS
      <4>2. Linked(d, dh, c)'
        BY <1>3, <3>1, <4>1
      <4> QED BY <4>1, <4>2
    <3> QED BY <1>2, <3>1, <3>2, <3>3
  <2> QED BY <2>1 DEF Written
<1>5. Owned'
  <2>1. ASSUME NEW d \in Devs, session'[d] \in Sessions
        PROVE  Linked(d, session[d].dhs, session[d].cks)'
    <3>1. CASE Renewed(d)
      <4>1. PICK e \in Devs \ {d} : \E l \in 0..generated[e] :
               NewSide(session'[d], <<d, generated[d] + 1>>, <<e, l>>)
        BY <3>1 DEF Renewed
      <4>2. PICK l \in 0..generated[e] :
               NewSide(session'[d], <<d, generated[d] + 1>>, <<e, l>>)
        BY <4>1
      <4>3. generated[d] + 1 \in 1..generated'[d] /\ l \in 0..generated'[e]
        BY <1>1, <3>1 DEF Renewed
      <4> QED BY <4>2, <4>3 DEF Linked, NewSide
    <3>2. CASE Kept(d)
      <4>1. Linked(d, session'[d].dhs, session'[d].cks)
        <5>1. ASSUME NEW m \in queue[d], session'[d] = commit[m]
              PROVE  Linked(d, session'[d].dhs, session'[d].cks)
          <6>1. m \in Alive(d)
            BY DEF Alive
          <6> QED BY <5>1, <6>1 DEF Core, Written, Commits
        <5>2. CASE session[d] \in Sessions /\ session'[d].cks = session[d].cks
                   /\ session'[d].dhs = session[d].dhs
          BY <5>2 DEF Core, Owned
        <5> QED BY <2>1, <3>2, <5>1, <5>2 DEF Kept
      <4>2. PICK dh, c : dh = session'[d].dhs /\ c = session'[d].cks
        OBVIOUS
      <4>3. Linked(d, dh, c)'
        BY <1>3, <4>1, <4>2
      <4> QED BY <4>2, <4>3
    <3> QED BY <3>1, <3>2
  <2> QED BY <2>1 DEF Owned
<1>6. Commits'
  <2>1. ASSUME NEW d \in Devs, NEW m \in queue'[d]
        PROVE  /\ commit'[m] \in Sessions
               /\ commit'[m].dhs = env'[m].dh /\ commit'[m].ns = env'[m].n + 1
               /\ commit'[m].cks = env'[m].key[1]
               /\ commit'[m].dhs = session'[d].dhs => commit'[m].dhr = session'[d].dhr
    <3>1. m \in queue[d] /\ m \in Alive(d) /\ commit'[m] = commit[m]
      BY <2>1 DEF Alive
    <3>2. /\ commit[m] \in Sessions
          /\ commit[m].dhs = env[m].dh /\ commit[m].ns = env[m].n + 1
          /\ commit[m].cks = env[m].key[1]
          /\ commit[m].dhs = session[d].dhs => commit[m].dhr = session[d].dhr
      BY <3>1 DEF Core, Commits
    <3>3. CASE Renewed(d)
      BY <3>1, <3>2, <3>3, OlderKeys DEF Renewed, NewSide
    <3>4. CASE Kept(d)
      BY <3>1, <3>2, <3>4 DEF Kept
    <3> QED BY <3>1, <3>2, <3>3, <3>4
  <2> QED BY <2>1 DEF Commits
<1>7. Distinct'
  BY DEF Core, Distinct
<1>8. NoMirror'
  BY NoMirrorKept
<1> QED BY <1>4, <1>5, <1>6, <1>7, <1>8 DEF Core

-----------------------------------------------------------------------------
(* Steps that leave the sessions alone.                                    *)

LEMMA SpentKept ==
    ASSUME Core, NEW d \in Devs, env' = env, Kept(d),
           Posted(d)' \subseteq Posted(d), queue'[d] \subseteq queue[d],
           AtWork(d)' \subseteq AtWork(d), AtWork(d)' # {} => session'[d] = session[d],
           work'[d].pc \in {"prepared", "ready"} => work[d].pc \in {"prepared", "ready"}
    PROVE  SpentBy(d)'
<1>1. ASSUME NEW m \in Alive(d), Behind(d, m)
      PROVE  Behind(d, m)'
  <2>1. session[d] \in Sessions /\ env[m] \in Envelopes
    BY DEF Core, Written
  <2>2. session[d].ns \in Nat /\ env[m].n \in Nat
    BY <2>1, SessionCount DEF Envelopes
  <2>3. session'[d].dhs = session[d].dhs
    BY DEF Kept
  <2>4. session'[d].ns \in Nat /\ session[d].ns <= session'[d].ns
    BY <2>2, SessionCount DEF Kept
  <2> QED BY <1>1, <2>2, <2>3, <2>4 DEF Behind
<1>2. SpentBy(d) /\ Alive(d)' \subseteq Alive(d)
  BY DEF Core, Spent, Alive
<1>3. \A m \in Posted(d)' : Behind(d, m)'
  BY <1>1, <1>2 DEF SpentBy, Alive
<1>4. work'[d].pc \in {"prepared", "ready"} => \A m \in queue'[d] : Behind(d, m)'
  BY <1>1, <1>2 DEF SpentBy, Alive
<1>5. ASSUME NEW x \in AtWork(d)'
      PROVE  /\ env'[x].dh = session'[d].dhs /\ env'[x].n = session'[d].ns
             /\ \A m \in Alive(d)' \ {x} : Behind(d, m)'
  <2>1. x \in AtWork(d) /\ session'[d] = session[d]
    OBVIOUS
  <2>2. /\ env[x].dh = session[d].dhs /\ env[x].n = session[d].ns
        /\ \A m \in Alive(d) \ {x} : Behind(d, m)
    BY <1>2, <2>1 DEF SpentBy
  <2>3. \A m \in Alive(d)' \ {x} : Behind(d, m)'
    BY <1>1, <1>2, <2>2
  <2> QED BY <2>1, <2>2, <2>3
<1> QED BY <1>3, <1>4, <1>5 DEF SpentBy

LEMMA SpentRenewed ==
    ASSUME Core, NEW d \in Devs, env' = env, Renewed(d), Alive(d)' \subseteq Alive(d),
           AtWork(d)' = {}
    PROVE  SpentBy(d)'
<1>1. session'[d].dhs = <<d, generated[d] + 1>>
  BY DEF Renewed, NewSide
<1>2. \A m \in Alive(d)' : Behind(d, m)'
  BY <1>1, OlderKeys DEF Behind
<1> QED BY <1>2 DEF SpentBy, Alive

LEMMA ReceivedKept ==
    ASSUME Core, \A m \in Ids : rows[m] # "none" => rows'[m] # "none",
           \A m \in live' \cup shown' :
               m \in live \cup shown \/ (m \in Ids /\ rows'[m] # "none"),
           \A d \in Devs : recv'[d].pc # "idle" =>
               \/ recv[d].pc # "idle" /\ recv'[d].msg = recv[d].msg
               \/ recv'[d].msg \in Ids /\ rows'[recv'[d].msg] # "none"
    PROVE  Received'
<1>1. Received
  BY DEF Core
<1>2. \A m \in live' \cup shown' : m \in Ids /\ rows'[m] # "none"
  BY <1>1 DEF Received
<1>3. \A d \in Devs : recv'[d].pc # "idle" =>
          recv'[d].msg \in Ids /\ rows'[recv'[d].msg] # "none"
  BY <1>1 DEF Received
<1> QED BY <1>2, <1>3 DEF Received

LEMMA Quiet ==
    ASSUME Core, UNCHANGED <<session, generated, env>>, Received',
           queue' \in [Devs -> SUBSET Ids], commit' = [m \in Ids |-> commit'[m]],
           \A d \in Devs : Posted(d)' \subseteq Posted(d),
           \A d \in Devs : \A m \in queue'[d] : m \in queue[d] /\ commit'[m] = commit[m],
           \A d \in Devs : \/ work'[d] = work[d]
                           \/ work'[d].pc = "idle"
                           \/ /\ work[d].pc = "prepared" /\ work'[d].pc = "ready"
                              /\ session[d] \in Sessions,
           \A m \in Ids : bubble[m] # "none" => bubble'[m] # "none"
    PROVE  Core'
<1>1. StoreTypes'
  BY DEF Core, StoreTypes
<1>2. \A d \in Devs : Kept(d)
  BY DEF Kept
<1>3. \A d \in Devs : /\ AtWork(d)' \subseteq AtWork(d) /\ queue'[d] \subseteq queue[d]
                      /\ Alive(d)' \subseteq Alive(d)
  BY DEF Alive, AtWork
<1>4. \A d \in Devs :
          work'[d].pc \in {"prepared", "ready"} => work[d].pc \in {"prepared", "ready"}
  OBVIOUS
<1>5. Spent'
  BY <1>2, <1>3, <1>4, SpentKept DEF Spent
<1>6. \A d \in Devs : work'[d].pc \in {"ready", "queued"} => session'[d] \in Sessions
  BY DEF Core, Owned
<1> QED BY <1>1, <1>2, <1>3, <1>5, <1>6, Threads

\* Nothing is posted that was not.
LEMMA PostedFewer ==
    ASSUME \A m \in Ids : rows'[m] # "none" =>
               rows[m] # "none" \/ \E p \in posts : p.id = m,
           \A p \in posts' : \E q \in posts : q.id = p.id
    PROVE  \A d \in Devs : Posted(d)' \subseteq Posted(d)
BY DEF Posted, SentBy

\* What leaves the queue.
LEMMA UnqueueLeaves ==
    ASSUME Core, NEW m \in Ids, Unqueue(m)
    PROVE  /\ queue' \in [Devs -> SUBSET Ids] /\ commit' = [x \in Ids |-> commit'[x]]
           /\ \A d \in Devs : \A x \in queue'[d] : x \in queue[d] /\ commit'[x] = commit[x]
<1>1. /\ queue \in [Devs -> SUBSET Ids] /\ commit = [x \in Ids |-> commit[x]]
      /\ \A d \in Devs : queue[d] \subseteq SentBy(d)
  BY DEF Core, StoreTypes, Written, Alive
<1>2. queue' = [queue EXCEPT ![m[1]] = @ \ {m}] /\ commit' = [commit EXCEPT ![m] = NoSession]
  BY DEF Unqueue
<1>3. queue' \in [Devs -> SUBSET Ids] /\ commit' = [x \in Ids |-> commit'[x]]
  BY <1>1, <1>2
<1>4. ASSUME NEW d \in Devs, NEW x \in queue'[d]
      PROVE  x \in queue[d] /\ commit'[x] = commit[x]
  <2>1. x \in queue[d] /\ (d = m[1] => x # m)
    BY <1>1, <1>2, <1>4
  <2>2. x \in Ids /\ x[1] = d
    BY <1>1, <2>1 DEF SentBy
  <2>3. x # m
    BY <2>1, <2>2
  <2> QED BY <1>1, <1>2, <2>1, <2>2, <2>3
<1> QED BY <1>3, <1>4

LEMMA StoreFacts ==
    ASSUME Core
    PROVE  queue \in [Devs -> SUBSET Ids] /\ commit = [x \in Ids |-> commit[x]]
BY DEF Core, StoreTypes

LEMMA QuietSender ==
    ASSUME IInv, Core, NEW d \in Devs,
           \/ LoadSession(d)
           \/ \E m \in SentBy(d) : \/ GiveUp(d, m) \/ PruneSettled(d, m)
                                   \/ PruneOrphan(d, m) \/ DeliveredEvent(d, m)
    PROVE  Core'
<1> USE DEF sessions, items, outbound, server, inbound, history, bounds
<1>1. CASE LoadSession(d)
  <2>1. session[d] \in Sessions
    BY <1>1 DEF LoadSession, Core, StoreTypes
  <2>2. UNCHANGED <<session, generated, env, items, bubble, posts, rows, live, shown, recv>>
    BY <1>1 DEF LoadSession
  <2>3. Received'
    BY <2>2, ReceivedKept
  <2>4. \A e \in Devs : \/ work'[e] = work[e]
                        \/ /\ work[e].pc = "prepared" /\ work'[e].pc = "ready"
                           /\ session[e] \in Sessions
    BY <1>1, <2>1 DEF LoadSession, IInv, SenderTypes, Works
  <2>5. \A e \in Devs : Posted(e)' \subseteq Posted(e)
    BY <2>2, PostedFewer
  <2> QED BY <2>2, <2>3, <2>4, <2>5, StoreFacts, Quiet
<1>2. ASSUME NEW m \in SentBy(d), GiveUp(d, m) \/ PruneSettled(d, m) \/ PruneOrphan(d, m)
      PROVE  Core'
  <2>1. Unqueue(m) /\ UNCHANGED <<session, generated, env, bubble, posts, rows, live, shown,
                                  recv, work>>
    BY <1>2 DEF GiveUp, PruneSettled, PruneOrphan
  <2>2. m \in Ids
    BY DEF SentBy
  <2>3. Received'
    BY <2>1, ReceivedKept
  <2>4. \A e \in Devs : Posted(e)' \subseteq Posted(e)
    BY <2>1, PostedFewer
  <2> QED BY <2>1, <2>2, <2>3, <2>4, UnqueueLeaves, Quiet
<1>3. ASSUME NEW m \in SentBy(d), DeliveredEvent(d, m)
      PROVE  Core'
  <2>1. UNCHANGED <<session, generated, env, items, posts, rows, live, shown, recv, work>>
    BY <1>3 DEF DeliveredEvent
  <2>2. \A x \in Ids : bubble[x] # "none" => bubble'[x] # "none"
    BY <1>3 DEF DeliveredEvent, IInv, SenderTypes
  <2>3. Received'
    BY <2>1, ReceivedKept
  <2>4. \A e \in Devs : Posted(e)' \subseteq Posted(e)
    BY <2>1, PostedFewer
  <2> QED BY <2>1, <2>2, <2>3, <2>4, StoreFacts, Quiet
<1> QED BY <1>1, <1>2, <1>3

LEMMA QuietTransport ==
    ASSUME IInv, Core, Transport
    PROVE  Core'
<1> USE DEF sessions, items, outbound, server, inbound, history, bounds
<1>0. posts \subseteq Posts /\ rows \in [Ids -> Rows] /\ bubble \in [Ids -> Bubbles]
  BY DEF IInv, SenderTypes, ReceiverTypes
<1>1. ASSUME NEW p \in posts, Accept(p)
      PROVE  Core'
  <2>1. UNCHANGED <<session, generated, env, items, bubble, shown, recv, work>>
    BY <1>1 DEF Accept
  <2>2. p.id \in Ids /\ [p EXCEPT !.at = "server"].id = p.id
    BY <1>0 DEF Posts
  <2>3. \/ rows' = [rows EXCEPT ![p.id] = "pending"] /\ live' \subseteq live \cup {p.id}
        \/ rows' = rows /\ live' = live
    BY <1>1 DEF Accept
  <2>4. \A m \in Ids : rows'[m] = rows[m] \/ (m = p.id /\ rows'[m] # "none")
    BY <1>0, <2>2, <2>3
  <2>5. \A m \in live' : m \in live \/ (m \in Ids /\ rows'[m] # "none")
    BY <1>0, <2>2, <2>3
  <2>6. Received'
    BY <2>1, <2>4, <2>5, ReceivedKept
  <2>7. \A q \in posts' : \E r \in posts : r.id = q.id
    BY <1>1, <2>2 DEF Accept
  <2>8. \A e \in Devs : Posted(e)' \subseteq Posted(e)
    BY <2>4, <2>7, PostedFewer
  <2> QED BY <2>1, <2>6, <2>8, StoreFacts, Quiet
<1>2. ASSUME NEW p \in posts, Settle(p)
      PROVE  Core'
  <2>1. Unqueue(p.id) /\ p.id \in Ids
        /\ UNCHANGED <<session, generated, env, rows, live, shown, recv, work>>
    BY <1>0, <1>2 DEF Settle, Posts
  <2>2. \A x \in Ids : bubble[x] # "none" => bubble'[x] # "none"
    BY <1>0, <1>2 DEF Settle
  <2>3. Received'
    BY <2>1, ReceivedKept
  <2>4. posts' \subseteq posts
    BY <1>2 DEF Settle
  <2>5. \A e \in Devs : Posted(e)' \subseteq Posted(e)
    BY <2>1, <2>4, PostedFewer
  <2> QED BY <2>1, <2>2, <2>3, <2>5, UnqueueLeaves, Quiet
<1>3. ASSUME NEW p \in posts, PostFails(p)
      PROVE  Core'
  <2>1. UNCHANGED <<session, generated, env, items, rows, live, shown, recv, work>>
    BY <1>3 DEF PostFails
  <2>2. \A x \in Ids : bubble[x] # "none" => bubble'[x] # "none"
    BY <1>0, <1>3 DEF PostFails
  <2>3. Received'
    BY <2>1, ReceivedKept
  <2>4. posts' \subseteq posts
    BY <1>3 DEF PostFails
  <2>5. \A e \in Devs : Posted(e)' \subseteq Posted(e)
    BY <2>1, <2>4, PostedFewer
  <2> QED BY <2>1, <2>2, <2>3, <2>5, StoreFacts, Quiet
<1> QED BY <1>1, <1>2, <1>3 DEF Transport

LEMMA QuietReceiver ==
    ASSUME IInv, Core, NEW d \in Devs,
           \/ WipeKey(d) \/ Show(d) \/ CommitTerminal(d)
           \/ \E m \in SentTo(d) : Ack(d, m) \/ AckLost(d, m) \/ ReadReceipt(d, m)
    PROVE  Core'
<1> USE DEF sessions, items, outbound, server, inbound, history, bounds
<1>0. rows \in [Ids -> Rows] /\ recv \in [Devs -> Recvs]
  BY DEF IInv, ReceiverTypes
<1>1. CASE WipeKey(d) \/ Show(d) \/ CommitTerminal(d)
  <2>1. UNCHANGED <<session, generated, env, items, bubble, posts, rows, live, work>>
    BY <1>1 DEF WipeKey, Show, CommitTerminal
  <2>2. \A e \in Devs : recv'[e].pc # "idle" =>
            recv[e].pc # "idle" /\ recv'[e].msg = recv[e].msg
    BY <1>0, <1>1 DEF WipeKey, Show, CommitTerminal, Recvs, NoRecv
  <2>3. \A m \in shown' : m \in shown \/ (m \in Ids /\ rows'[m] # "none")
    BY <1>1, <2>1 DEF WipeKey, Show, CommitTerminal, Core, Received
  <2>4. Received'
    BY <2>1, <2>2, <2>3, ReceivedKept
  <2>5. \A e \in Devs : Posted(e)' \subseteq Posted(e)
    BY <2>1, PostedFewer
  <2> QED BY <2>1, <2>4, <2>5, StoreFacts, Quiet
<1>2. ASSUME NEW m \in SentTo(d), Ack(d, m) \/ AckLost(d, m) \/ ReadReceipt(d, m)
      PROVE  Core'
  <2>1. UNCHANGED <<session, generated, env, items, bubble, posts, live, shown, recv, work>>
        /\ rows' = [rows EXCEPT ![m] = "delivered"]
    BY <1>2 DEF Ack, AckLost, ReadReceipt
  <2>2. m \in Ids /\ rows[m] # "none"
    BY <1>2 DEF Ack, AckLost, ReadReceipt, IInv, ShownFirst, Core, Received, SentTo
  <2>3. \A x \in Ids : rows'[x] # "none" <=> rows[x] # "none"
    BY <1>0, <2>1, <2>2
  <2>4. Received'
    BY <2>1, <2>3, ReceivedKept
  <2>5. \A e \in Devs : Posted(e)' \subseteq Posted(e)
    BY <2>1, <2>3, PostedFewer
  <2> QED BY <2>1, <2>4, <2>5, StoreFacts, Quiet
<1> QED BY <1>1, <1>2

LEMMA QuietRestart ==
    ASSUME IInv, Core, NEW d \in Devs, Crash(d) \/ LoadHistory(d)
    PROVE  Core'
<1> USE DEF sessions, items, outbound, server, inbound, history, bounds
<1>1. UNCHANGED <<session, generated, env, items, bubble, rows, shown>>
  BY DEF Crash, LoadHistory
<1>2. live' \subseteq live /\ posts' \subseteq posts
  BY DEF Crash, LoadHistory
<1>3. work \in [Devs -> Works] /\ recv \in [Devs -> Recvs]
  BY DEF IInv, SenderTypes, ReceiverTypes
<1>4. \A e \in Devs : work'[e] = work[e] \/ work'[e].pc = "idle"
  BY <1>3 DEF Crash, LoadHistory, Idle
<1>5. \A e \in Devs : recv'[e] = recv[e] \/ recv'[e].pc = "idle"
  BY <1>3 DEF Crash, LoadHistory, NoRecv
<1>6. Received'
  BY <1>1, <1>2, <1>5, ReceivedKept
<1>7. \A e \in Devs : Posted(e)' \subseteq Posted(e)
  BY <1>1, <1>2, PostedFewer
<1> QED BY <1>1, <1>4, <1>6, <1>7, StoreFacts, Quiet

-----------------------------------------------------------------------------
(* Steps that change a session.                                            *)

LEMMA OneDevice ==
    ASSUME Core, NEW d \in Devs, NEW t \in Sessions \cup {NoSession},
           session' = [session EXCEPT ![d] = t], UNCHANGED <<env, queue, commit, bubble>>,
           generated' \in [Devs -> Nat], Received',
           \A e \in Devs \ {d} : generated'[e] = generated[e] /\ work'[e] = work[e]
                                 /\ Posted(e)' \subseteq Posted(e),
           Alive(d)' \subseteq Alive(d),
           work'[d].pc \in {"ready", "queued"} => t \in Sessions,
           Kept(d) \/ Renewed(d), SpentBy(d)'
    PROVE  Core'
<1>1. /\ session \in [Devs -> Sessions \cup {NoSession}]
      /\ queue \in [Devs -> SUBSET Ids]
      /\ env = [m \in Ids |-> env[m]] /\ commit = [m \in Ids |-> commit[m]]
  BY DEF Core, StoreTypes
<1>2. /\ session' \in [Devs -> Sessions \cup {NoSession}] /\ session'[d] = t
      /\ \A e \in Devs \ {d} : session'[e] = session[e]
  BY <1>1
<1>3. StoreTypes'
  BY <1>1, <1>2 DEF StoreTypes
<1>4. \A e \in Devs \ {d} : Kept(e)
  BY <1>2 DEF Kept
<1>5. \A e \in Devs \ {d} : AtWork(e)' \subseteq AtWork(e) /\ Alive(e)' \subseteq Alive(e)
  BY DEF Alive, AtWork
<1>6. \A e \in Devs \ {d} : SpentBy(e)'
  BY <1>2, <1>4, <1>5, SpentKept
<1>7. Spent'
  BY <1>6 DEF Spent
<1>8. \A e \in Devs : work'[e].pc \in {"ready", "queued"} => session'[e] \in Sessions
  BY <1>2 DEF Core, Owned
<1>9. \A e \in Devs : Alive(e)' \subseteq Alive(e)
  BY <1>5
<1>10. \A e \in Devs : Kept(e) \/ Renewed(e)
  BY <1>4
<1> QED BY <1>3, <1>7, <1>8, <1>9, <1>10, Threads

\* A session that keeps its side and moves on leaves behind what it had.
LEMMA BehindKept ==
    ASSUME Core, NEW d \in Devs, NEW m \in Alive(d), Behind(d, m), env' = env,
           session'[d] \in Sessions, session'[d].dhs = session[d].dhs,
           session[d].ns <= session'[d].ns
    PROVE  Behind(d, m)'
<1>1. session[d] \in Sessions /\ env[m] \in Envelopes
  BY DEF Core, Written
<1>2. session[d].ns \in Nat /\ session'[d].ns \in Nat /\ env[m].n \in Nat
  BY <1>1, SessionCount DEF Envelopes
<1> QED BY <1>2 DEF Behind

LEMMA IdOf ==
    ASSUME NEW d \in Devs, NEW m \in SentBy(d)
    PROVE  \E k \in 1..Sends[d] : m = <<d, k>>
BY DEF SentBy, Ids

LEMMA PrepareSendSound ==
    ASSUME IInv, Core, NEW d \in Devs, PrepareSend(d)
    PROVE  Core'
<1> USE DEF sessions, items, outbound, server, inbound, history, bounds
<1> DEFINE s == session[d]
           t == AllApplied(d)
<1>1. /\ session' = [session EXCEPT ![d] = t]
      /\ UNCHANGED <<env, queue, commit, bubble, generated, posts, rows, live, shown, recv>>
  BY DEF PrepareSend
<1>2. work' = [work EXCEPT ![d].pc = "prepared"] /\ work \in [Devs -> Works]
  BY DEF PrepareSend, IInv, SenderTypes
<1>3. work'[d].pc = "prepared" /\ \A e \in Devs \ {d} : work'[e] = work[e]
  BY <1>2 DEF Works
<1>4. /\ session \in [Devs -> Sessions \cup {NoSession}] /\ generated \in [Devs -> Nat]
  BY DEF Core, StoreTypes
<1>5. Received'
  BY <1>1, ReceivedKept
<1>6. \A e \in Devs : Posted(e)' = Posted(e)
  BY <1>1 DEF Posted
<1>7. AtWork(d)' = {} /\ Alive(d)' \subseteq Alive(d)
  BY <1>1, <1>3, <1>6 DEF AtWork, Alive
<1> HIDE DEF t
<1>8. CASE s \in Sessions
  <2>1. \A m \in queue[d] : /\ commit[m] \in Sessions /\ m \in Alive(d)
                            /\ commit[m].dhs = env[m].dh /\ commit[m].ns = env[m].n + 1
                            /\ commit[m].dhs = s.dhs => commit[m].dhr = s.dhr
    BY DEF Core, Commits, Alive
  <2>2. Advanced(d, t, Sends[d])
    BY <1>8, <2>1, AllAppliedType DEF t
  <2>3. /\ t \in Sessions /\ t.dhs = s.dhs /\ t.dhr = s.dhr /\ s.ns <= t.ns
        /\ session'[d] = t
    BY <1>1, <1>4, <2>2 DEF Advanced
  <2>4. Kept(d)
    <3>1. t = s \/ \E m \in queue[d] : t = commit[m]
      BY <2>2 DEF Advanced
    <3> QED BY <1>1, <1>8, <2>3, <3>1 DEF Kept
  <2>5. ASSUME NEW m \in queue[d]
        PROVE  Behind(d, m)'
    <3>1. m \in SentBy(d) /\ env[m] \in Envelopes
      BY <2>1 DEF Core, Written
    <3>2. PICK k \in 1..Sends[d] : m = <<d, k>>
      BY <3>1, IdOf
    <3>3. commit[m].dhs = s.dhs /\ commit[m].dhr = s.dhr => commit[m].ns <= t.ns
      BY <2>2, <2>5, <3>2 DEF Advanced
    <3>4. env[m].n \in Nat /\ t.ns \in Nat
      BY <2>3, <3>1, SessionCount DEF Envelopes
    <3>5. env[m].dh = t.dhs => env[m].n < t.ns
      BY <2>1, <2>3, <2>5, <3>3, <3>4
    <3> QED BY <1>1, <2>3, <3>5 DEF Behind
  <2>6. \A m \in Posted(d) : Behind(d, m)'
    <3>1. \A m \in Posted(d) : Behind(d, m) /\ m \in Alive(d)
      BY DEF Core, Spent, SpentBy, Alive
    <3> QED BY <1>1, <2>3, <3>1, BehindKept
  <2>7. SpentBy(d)'
    BY <1>1, <1>6, <1>7, <2>5, <2>6 DEF SpentBy
  <2> QED BY <1>1, <1>3, <1>4, <1>5, <1>6, <1>7, <2>3, <2>4, <2>7, OneDevice
<1>9. CASE s = NoSession
  <2>1. Alive(d) = {}
    BY <1>9, SessionAssumption DEF Core, Written
  <2>2. t = s
    BY <2>1, NoneApplied DEF Alive, t
  <2>3. session' = session
    BY <1>1, <1>4, <2>2
  <2>4. Kept(d)
    BY <1>1, <2>3 DEF Kept
  <2>5. Posted(d)' = {} /\ queue'[d] = {}
    BY <1>1, <1>6, <2>1 DEF Alive
  <2>6. SpentBy(d)'
    BY <1>7, <2>5 DEF SpentBy
  <2> QED BY <1>1, <1>3, <1>4, <1>5, <1>6, <1>7, <1>9, <2>2, <2>4, <2>6, OneDevice
<1> QED BY <1>4, <1>8, <1>9

LEMMA PeerOther ==
    ASSUME NEW d \in Devs
    PROVE  Peer(d) \in Devs \ {d}
<1>1. Devs # {d}
  BY MessagesAssumption, FS_Singleton
<1>2. \E e \in Devs : e # d
  BY <1>1
<1> QED BY <1>2 DEF Peer

LEMMA StartSessionSound ==
    ASSUME IInv, Core, NEW d \in Devs, StartSession(d)
    PROVE  Core'
<1> USE DEF sessions, items, outbound, server, inbound, history, bounds
<1>1. PICK otk \in Bundles :
        LET x == [by |-> d, no |-> inits[d] + 1, otk |-> otk] IN
        /\ session' = [session EXCEPT ![d] = InitSender(x, Fresh(d), Spk(Peer(d)))]
        /\ work' = [work EXCEPT ![d].pc = "ready", ![d].x3dh = x]
  BY DEF StartSession
<1>2. PICK x \in Secrets :
        /\ session' = [session EXCEPT ![d] = InitSender(x, Fresh(d), Spk(Peer(d)))]
        /\ work' = [work EXCEPT ![d].pc = "ready", ![d].x3dh = x]
  <2>1. inits[d] + 1 \in Nat /\ otk \in BOOLEAN
    BY MessagesAssumption DEF IInv, SenderTypes
  <2>2. [by |-> d, no |-> inits[d] + 1, otk |-> otk] \in Secrets
    BY <2>1 DEF Secrets
  <2> QED BY <1>1, <2>2
<1>3. /\ UNCHANGED <<env, queue, commit, bubble, posts, rows, live, shown, recv>>
      /\ generated' = [generated EXCEPT ![d] = @ + 1]
  BY DEF StartSession
<1>4. work \in [Devs -> Works] /\ generated \in [Devs -> Nat]
  BY DEF IInv, SenderTypes, Core, StoreTypes
<1>5. work'[d].pc = "ready" /\ \A e \in Devs \ {d} : work'[e] = work[e]
  BY <1>2, <1>4 DEF Works
<1>6. /\ generated' \in [Devs -> Nat] /\ generated'[d] = generated[d] + 1
      /\ \A e \in Devs \ {d} : generated'[e] = generated[e]
  BY <1>3, <1>4
<1> DEFINE t == InitSender(x, Fresh(d), Spk(Peer(d)))
<1>7. t \in Sessions /\ NewSide(t, <<d, generated[d] + 1>>, <<Peer(d), 0>>)
  <2>1. Fresh(d) \in KeyPairs /\ Spk(Peer(d)) \in KeyPairs
    BY <1>4, PeerOther DEF Fresh, Spk, KeyPairs
  <2>2. Fresh(d) = <<d, generated[d] + 1>> /\ Spk(Peer(d)) = <<Peer(d), 0>>
    BY DEF Fresh, Spk
  <2> QED BY <2>1, <2>2, InitSenderType
<1> HIDE DEF t
<1>8. session' = [session EXCEPT ![d] = t]
  BY <1>2 DEF t
<1>9. session'[d] = t
  BY <1>8 DEF Core, StoreTypes
<1>10. Renewed(d)
  <2>1. Peer(d) \in Devs \ {d} /\ 0 \in 0..generated[Peer(d)]
    BY <1>4, PeerOther
  <2> QED BY <1>6, <1>7, <1>9, <2>1 DEF Renewed
<1>11. Received'
  BY <1>3, ReceivedKept
<1>12. \A e \in Devs : Posted(e)' = Posted(e)
  BY <1>3 DEF Posted
<1>13. AtWork(d)' = {} /\ Alive(d)' \subseteq Alive(d)
  BY <1>3, <1>5, <1>12 DEF AtWork, Alive
<1>14. SpentBy(d)'
  BY <1>3, <1>10, <1>13, SpentRenewed
<1> QED BY <1>3, <1>5, <1>6, <1>7, <1>8, <1>10, <1>11, <1>12, <1>13, <1>14, OneDevice

LEMMA CommitSessionSound ==
    ASSUME IInv, Core, NEW d \in Devs, CommitSession(d)
    PROVE  Core'
<1> USE DEF sessions, items, outbound, server, inbound, history, bounds
<1> DEFINE s == session[d]
           t == AfterEncrypt(s)
<1>0. PICK x : x = work[d].msg
  OBVIOUS
<1>1. /\ session' = [session EXCEPT ![d] = t] /\ work' = [work EXCEPT ![d] = Idle]
      /\ UNCHANGED <<env, queue, commit, bubble, generated, rows, live, shown, recv>>
      /\ posts' = posts \cup {[id |-> x, by |-> "user", at |-> "client"]}
  BY <1>0 DEF CommitSession, Post
<1>2. work \in [Devs -> Works] /\ work[d].pc = "queued" /\ x \in Ids
  BY <1>0 DEF CommitSession, IInv, SenderTypes
<1>3. s \in Sessions /\ s.ns \in Nat /\ generated \in [Devs -> Nat]
      /\ session \in [Devs -> Sessions \cup {NoSession}]
  BY <1>2, SessionCount DEF Core, Owned, StoreTypes
<1>4. /\ t \in Sessions /\ t.dhs = s.dhs /\ t.dhr = s.dhr /\ t.cks = s.cks
      /\ t.ns = s.ns + 1 /\ s.ns <= t.ns
  BY <1>3, EncryptType
<1>5. x \in AtWork(d) /\ x \in Alive(d) /\ x \in SentBy(d)
  BY <1>0, <1>2 DEF AtWork, Alive, Core, Written
<1> HIDE DEF t
<1>6. session'[d] = t
  BY <1>1, <1>3
<1>7. Kept(d)
  BY <1>1, <1>3, <1>4, <1>6 DEF Kept
<1>8. Received'
  BY <1>1, ReceivedKept
<1>9. Posted(d)' \subseteq Posted(d) \cup {x}
      /\ \A e \in Devs \ {d} : Posted(e)' \subseteq Posted(e)
  BY <1>1, <1>5 DEF Posted, SentBy
<1>10. work'[d].pc = "idle" /\ \A e \in Devs \ {d} : work'[e] = work[e]
  BY <1>1, <1>2 DEF Idle
<1>11. AtWork(d)' = {} /\ Alive(d)' \subseteq Alive(d)
  BY <1>1, <1>5, <1>9, <1>10 DEF AtWork, Alive
<1>12. SpentBy(d)'
  <2>1. env[x].dh = s.dhs /\ env[x].n = s.ns /\ \A m \in Alive(d) \ {x} : Behind(d, m)
    BY <1>5 DEF Core, Spent, SpentBy
  <2>2. Behind(d, x)'
    BY <1>1, <1>3, <1>4, <1>6, <2>1 DEF Behind
  <2>3. \A m \in Alive(d) \ {x} : Behind(d, m)'
    BY <1>1, <1>4, <1>6, <2>1, BehindKept
  <2>4. \A m \in Posted(d)' : m \in Alive(d)
    BY <1>11 DEF Alive
  <2>5. \A m \in Posted(d)' : Behind(d, m)'
    BY <2>2, <2>3, <2>4
  <2> QED BY <1>10, <1>11, <2>5 DEF SpentBy
<1> QED BY <1>1, <1>3, <1>4, <1>7, <1>8, <1>9, <1>10, <1>11, <1>12, OneDevice

LEMMA SendAgainSound ==
    ASSUME IInv, Core, NEW d \in Devs, NEW m \in SentBy(d), Resume(d, m) \/ Retry(d, m)
    PROVE  Core'
<1> USE DEF sessions, items, outbound, server, inbound, history, bounds
<1>1. PICK by : Pending(d, m, by) /\ SendAgain(d, m, by)
  BY DEF Resume, Retry
<1> DEFINE s == session[d]
           t == Applied(s, m)
<1>2. /\ session' = [session EXCEPT ![d] = t]
      /\ UNCHANGED <<env, queue, commit, generated, work, rows, live, shown, recv>>
      /\ posts' = posts \cup {[id |-> m, by |-> by, at |-> "client"]}
  BY <1>1 DEF SendAgain, Post
<1>3. m \in queue[d] /\ m \in Alive(d)
  BY <1>1 DEF Pending, Alive
<1>4. /\ s \in Sessions /\ env[m] \in Envelopes /\ commit[m] \in Sessions
      /\ commit[m].dhs = env[m].dh /\ commit[m].ns = env[m].n + 1
      /\ commit[m].dhs = s.dhs => commit[m].dhr = s.dhr
  BY <1>3 DEF Core, Written, Commits
<1>5. /\ session \in [Devs -> Sessions \cup {NoSession}] /\ generated \in [Devs -> Nat]
      /\ queue \in [Devs -> SUBSET Ids] /\ env = [x \in Ids |-> env[x]]
      /\ commit = [x \in Ids |-> commit[x]]
  BY DEF Core, StoreTypes
<1>6. /\ t \in {s, commit[m]} /\ t \in Sessions
      /\ t.dhs = s.dhs /\ t.dhr = s.dhr /\ s.ns <= t.ns
      /\ commit[m].dhs = s.dhs /\ commit[m].dhr = s.dhr => commit[m].ns <= t.ns
  BY <1>4, AppliedType
<1> HIDE DEF t
<1>7. session'[d] = t /\ \A e \in Devs \ {d} : session'[e] = session[e]
  BY <1>2, <1>5
<1>8. Kept(d)
  BY <1>2, <1>3, <1>4, <1>6, <1>7 DEF Kept
<1>9. Received'
  BY <1>2, ReceivedKept
<1>10. Posted(d)' \subseteq Posted(d) \cup {m}
       /\ \A e \in Devs \ {d} : Posted(e)' \subseteq Posted(e)
  BY <1>2 DEF Posted, SentBy
<1>11. AtWork(d)' = AtWork(d) /\ Alive(d)' \subseteq Alive(d)
  BY <1>2, <1>3, <1>10 DEF AtWork, Alive
<1>12. AtWork(d) = {}
  BY <1>1 DEF SendAgain, Locked, AtWork
<1>13. SpentBy(d)'
  <2>1. Behind(d, m)'
    <3>1. env[m].n \in Nat /\ t.ns \in Nat
      BY <1>4, <1>6, SessionCount DEF Envelopes
    <3>2. env[m].dh = t.dhs => env[m].n < t.ns
      BY <1>4, <1>6, <3>1
    <3> QED BY <1>2, <1>7, <3>2 DEF Behind
  <2>2. ASSUME NEW x \in Alive(d), Behind(d, x)
        PROVE  Behind(d, x)'
    BY <1>2, <1>6, <1>7, <2>2, BehindKept
  <2>3. ASSUME NEW x \in Posted(d)'
        PROVE  Behind(d, x)'
    <3>1. x = m \/ (x \in Alive(d) /\ Behind(d, x))
      BY <1>10 DEF Core, Spent, SpentBy, Alive
    <3> QED BY <2>1, <2>2, <3>1
  <2>4. ASSUME work'[d].pc \in {"prepared", "ready"}, NEW x \in queue'[d]
        PROVE  Behind(d, x)'
    <3>1. x \in Alive(d) /\ Behind(d, x)
      BY <1>2, <2>4 DEF Core, Spent, SpentBy, Alive
    <3> QED BY <2>2, <3>1
  <2> QED BY <1>11, <1>12, <2>3, <2>4 DEF SpentBy
<1>14. /\ \A x \in Ids : bubble[x] # "none" => bubble'[x] # "none"
  BY <1>1 DEF Resume, Retry, IInv, SenderTypes
<1>15. StoreTypes'
  BY <1>2, <1>5, <1>6 DEF StoreTypes
<1>16. \A e \in Devs \ {d} : Kept(e)
  BY <1>2, <1>7 DEF Kept
<1>17. \A e \in Devs \ {d} : AtWork(e)' \subseteq AtWork(e) /\ Alive(e)' \subseteq Alive(e)
  BY <1>2, <1>10 DEF AtWork, Alive
<1>18. \A e \in Devs \ {d} : SpentBy(e)'
  BY <1>2, <1>7, <1>10, <1>16, <1>17, SpentKept
<1>19. Spent'
  BY <1>13, <1>18 DEF Spent
<1>20. \A e \in Devs : work'[e].pc \in {"ready", "queued"} => session'[e] \in Sessions
  BY <1>2, <1>6, <1>7 DEF Core, Owned
<1>21. \A e \in Devs : Alive(e)' \subseteq Alive(e) /\ (Kept(e) \/ Renewed(e))
  BY <1>8, <1>11, <1>16, <1>17
<1> QED BY <1>2, <1>9, <1>14, <1>15, <1>19, <1>20, <1>21, Threads

\* What has arrived was written by another device, with keys it has made.
LEMMA ArrivedWritten ==
    ASSUME Core, NEW d \in Devs, NEW m \in SentTo(d), Arrives(d, m)
    PROVE  /\ m \in Ids /\ rows[m] # "none" /\ env[m] \in Envelopes /\ AtWork(d) = {}
           /\ \E e \in Devs \ {d} : \E l \in 0..generated[e] : env[m].dh = <<e, l>>
<1>1. m \in Ids /\ m[1] # d /\ m[1] \in Devs
  BY DEF SentTo, Ids
<1>2. rows[m] # "none"
  BY DEF Arrives, Core, Received
<1>3. m \in Alive(m[1])
  BY <1>1, <1>2 DEF Alive, Posted, SentBy
<1>4. env[m] \in Envelopes /\ Linked(m[1], env[m].dh, env[m].key[1])
  BY <1>1, <1>3 DEF Core, Written
<1>5. PICK k \in 1..generated[m[1]] : env[m].dh = <<m[1], k>>
  BY <1>4 DEF Linked
<1>6. generated[m[1]] \in Nat
  BY <1>1 DEF Core, StoreTypes
<1>7. k \in 0..generated[m[1]]
  BY <1>6
<1>8. AtWork(d) = {}
  BY DEF Arrives, Locked, AtWork
<1> QED BY <1>1, <1>2, <1>4, <1>5, <1>7, <1>8

\* A receipt that advances a session.
LEMMA AdvanceSound ==
    ASSUME IInv, Core, NEW d \in Devs, NEW m \in SentTo(d), Arrives(d, m),
           NEW t \in Sessions, Advance(d, t), NEW pc,
           \/ session[d] \in Sessions /\ SameSide(t, session[d])
           \/ NewSide(t, Fresh(d), env[m].dh),
           recv' = [recv EXCEPT ![d] = [pc |-> pc, msg |-> m]],
           UNCHANGED <<outbound, rows, shown>>
    PROVE  Core'
<1> USE DEF sessions, items, outbound, server, inbound, history, bounds
<1> DEFINE s == session[d]
<1>1. /\ session' = [session EXCEPT ![d] = t]
      /\ generated' = [generated EXCEPT ![d] = IF t.dhs = Fresh(d) THEN @ + 1 ELSE @]
      /\ UNCHANGED <<env, queue, commit, bubble, posts, work>>
  BY DEF Advance
<1>2. session \in [Devs -> Sessions \cup {NoSession}] /\ generated \in [Devs -> Nat]
  BY DEF Core, StoreTypes
<1>3. /\ m \in Ids /\ rows[m] # "none" /\ env[m] \in Envelopes /\ AtWork(d) = {}
      /\ \E e \in Devs \ {d} : \E l \in 0..generated[e] : env[m].dh = <<e, l>>
  BY ArrivedWritten
<1>4. session'[d] = t
  BY <1>1, <1>2
<1>5. generated' \in [Devs -> Nat] /\ \A e \in Devs \ {d} : generated'[e] = generated[e]
  BY <1>1, <1>2
<1>6. Received'
  <2>1. live' = live \ {m}
    BY DEF Arrives
  <2>2. recv \in [Devs -> Recvs]
    BY DEF IInv, ReceiverTypes
  <2>3. \A e \in Devs : recv'[e] = recv[e] \/ recv'[e].msg = m
    BY <2>2
  <2>4. \A x \in live' \cup shown' : x \in live \cup shown
    BY <2>1
  <2>5. \A e \in Devs : recv'[e].pc # "idle" =>
               \/ recv[e].pc # "idle" /\ recv'[e].msg = recv[e].msg
               \/ recv'[e].msg \in Ids /\ rows'[recv'[e].msg] # "none"
    BY <1>3, <2>3
  <2> QED BY <2>4, <2>5, ReceivedKept
<1>7. \A e \in Devs : Posted(e)' = Posted(e) /\ AtWork(e)' = AtWork(e)
  BY <1>1 DEF Posted, AtWork
<1>8. Alive(d)' \subseteq Alive(d)
  BY <1>1, <1>7 DEF Alive
<1>9. CASE s \in Sessions /\ SameSide(t, s)
  <2>1. s.dhs # Fresh(d)
    <3>1. PICK k \in 1..generated[d] : s.dhs = <<d, k>>
      BY <1>9 DEF Core, Owned, Linked
    <3>2. generated[d] \in Nat
      BY <1>2
    <3> QED BY <3>1, <3>2 DEF Fresh
  <2>2. generated' = generated
    BY <1>1, <1>2, <1>9, <2>1 DEF SameSide
  <2>3. s.ns <= t.ns
    BY <1>9, SessionCount DEF SameSide
  <2>4. Kept(d)
    BY <1>4, <1>9, <2>2, <2>3 DEF Kept, SameSide
  <2>5. SpentBy(d)'
    BY <1>1, <1>3, <1>7, <2>4, SpentKept
  <2> QED BY <1>1, <1>5, <1>6, <1>7, <1>8, <2>4, <2>5, OneDevice
<1>10. CASE NewSide(t, Fresh(d), env[m].dh)
  <2>1. generated'[d] = generated[d] + 1
    BY <1>1, <1>2, <1>10 DEF NewSide
  <2>2. Renewed(d)
    BY <1>3, <1>4, <1>10, <2>1 DEF Renewed, Fresh
  <2>3. SpentBy(d)'
    BY <1>1, <1>3, <1>7, <1>8, <2>2, SpentRenewed
  <2> QED BY <1>1, <1>5, <1>6, <1>7, <1>8, <2>2, <2>3, OneDevice
<1> QED BY <1>9, <1>10

LEMMA ReceiptSound ==
    ASSUME IInv, Core, NEW d \in Devs, NEW m \in SentTo(d), Decrypt(d, m) \/ Bootstrap(d, m)
    PROVE  Core'
<1>1. Arrives(d, m) /\ env[m] \in Envelopes
  BY ArrivedWritten DEF Decrypt, Bootstrap
<1>2. Fresh(d) \in KeyPairs /\ session[d] \in Sessions \cup {NoSession}
  BY DEF Core, StoreTypes, Fresh, KeyPairs
<1>3. CASE Decrypt(d, m)
  <2>1. session[d] \in Sessions /\ Opens(session[d], env[m], Fresh(d))
    BY <1>2, <1>3 DEF Decrypt, Decrypts
  <2>2. PICK t : t = AfterDecrypt(session[d], env[m], Fresh(d))
    OBVIOUS
  <2>3. t \in Sessions /\ (SameSide(t, session[d]) \/ NewSide(t, Fresh(d), env[m].dh))
    BY <1>1, <1>2, <2>1, <2>2, DecryptType
  <2>4. /\ Advance(d, t) /\ recv' = [recv EXCEPT ![d] = [pc |-> "opened", msg |-> m]]
        /\ UNCHANGED <<outbound, rows, shown>>
    BY <1>3, <2>2 DEF Decrypt
  <2> QED BY <1>1, <2>1, <2>3, <2>4, AdvanceSound
<1>4. CASE Bootstrap(d, m)
  <2>1. /\ env[m].x3dh \in Secrets
        /\ Opens(InitReceiver(env[m].x3dh, Spk(d)), env[m], Fresh(d))
    BY <1>1, <1>4 DEF Bootstrap, Bootstraps, Envelopes
  <2>2. PICK t : t = AfterDecrypt(InitReceiver(env[m].x3dh, Spk(d)), env[m], Fresh(d))
    OBVIOUS
  <2>3. Spk(d) \in KeyPairs
    BY DEF Spk, KeyPairs
  <2>4. t \in Sessions /\ NewSide(t, Fresh(d), env[m].dh)
    BY <1>1, <1>2, <2>1, <2>2, <2>3, InitReceiverType
  <2>5. /\ Advance(d, t) /\ recv' = [recv EXCEPT ![d] = [pc |-> "booted", msg |-> m]]
        /\ UNCHANGED <<outbound, rows, shown>>
    BY <1>4, <2>2 DEF Bootstrap
  <2> QED BY <1>1, <2>4, <2>5, AdvanceSound
<1> QED BY <1>3, <1>4

\* A failure that clears nothing leaves all as it was.
LEMMA FailSound ==
    ASSUME IInv, Core, NEW d \in Devs, NEW m \in SentTo(d), Fail(d, m), cleared' = {}
    PROVE  Core'
<1> USE DEF sessions, items, outbound, server, inbound, history, bounds
<1>1. ~Clears(d, m)
  BY DEF Fail
<1>2. UNCHANGED <<session, generated, env, items, bubble, posts, rows, shown, recv, work>>
      /\ live' \subseteq live
  BY <1>1 DEF Fail, Arrives
<1>3. Received'
  BY <1>2, ReceivedKept
<1>4. \A e \in Devs : Posted(e)' \subseteq Posted(e)
  BY <1>2, PostedFewer
<1> QED BY <1>2, <1>3, <1>4, StoreFacts, Quiet

-----------------------------------------------------------------------------
(* A new message.                                                          *)

LEMMA SealedType ==
    ASSUME NEW s \in Sessions, NEW x \in Secrets \cup {NoX3dh}
    PROVE  LET v == Sealed(s, x) IN
           /\ v \in Envelopes /\ v.dh = s.dhs /\ v.n = s.ns
           /\ v.key[1] = s.cks /\ v.key[2] = s.ns
<1>1. s.dhs \in KeyPairs /\ s.cks \in Chains /\ s.ns \in Nat /\ s.pn \in Nat
  BY DEF Sessions
<1> QED BY <1>1 DEF Sealed, Header, SealKey, Envelopes

LEMMA EnqueueSound ==
    ASSUME IInv, Core, NEW d \in Devs, Enqueue(d)
    PROVE  Core'
<1> USE DEF sessions, items, outbound, server, inbound, history, bounds
<1>0. PICK s : s = session[d]
  OBVIOUS
<1>1. PICK v, t : v = Sealed(s, work[d].x3dh) /\ t = AfterEncrypt(s)
  OBVIOUS
<1>2. PICK m \in SentBy(d) :
        /\ bubble[m] = "none" /\ bubble' = [bubble EXCEPT ![m] = "sending"]
        /\ env' = [env EXCEPT ![m] = v] /\ commit' = [commit EXCEPT ![m] = t]
        /\ queue' = [queue EXCEPT ![d] = @ \cup {m}]
        /\ work' = [work EXCEPT ![d].pc = "queued", ![d].msg = m]
  BY <1>0, <1>1 DEF Enqueue
<1>3. UNCHANGED <<session, generated, posts, rows, live, shown, recv>>
  BY DEF Enqueue
<1>4. /\ work \in [Devs -> Works] /\ bubble \in [Ids -> Bubbles]
      /\ session \in [Devs -> Sessions \cup {NoSession}] /\ generated \in [Devs -> Nat]
      /\ queue \in [Devs -> SUBSET Ids]
      /\ env = [x \in Ids |-> env[x]] /\ commit = [x \in Ids |-> commit[x]]
  BY DEF IInv, SenderTypes, Core, StoreTypes
<1>5. s \in Sessions /\ work[d].pc = "ready" /\ work[d].x3dh \in Secrets \cup {NoX3dh}
  BY <1>0, <1>4 DEF Enqueue, Core, Owned, Works
<1>6. /\ v \in Envelopes /\ v.dh = s.dhs /\ v.n = s.ns
      /\ v.key[1] = s.cks /\ v.key[2] = s.ns
  BY <1>1, <1>5, SealedType
<1>7. t \in Sessions /\ t.dhs = s.dhs /\ t.dhr = s.dhr /\ t.cks = s.cks /\ t.ns = s.ns + 1
  BY <1>1, <1>5, EncryptType
<1>8. m \in Ids /\ m[1] = d
  BY DEF SentBy
<1>9. \A e \in Devs : m \notin Alive(e)
  BY <1>2 DEF Core, Written
<1>10. /\ env'[m] = v /\ commit'[m] = t /\ bubble'[m] = "sending"
       /\ \A x \in Ids \ {m} : env'[x] = env[x] /\ commit'[x] = commit[x]
                               /\ bubble'[x] = bubble[x]
  BY <1>2, <1>4, <1>8
<1>11. queue'[d] = queue[d] \cup {m} /\ \A e \in Devs \ {d} : queue'[e] = queue[e]
  BY <1>2, <1>4
<1>12. /\ work'[d].pc = "queued" /\ work'[d].msg = m
       /\ \A e \in Devs \ {d} : work'[e] = work[e]
  <2>1. work[d] \in Works
    BY <1>4
  <2>2. PICK w : w = [work[d] EXCEPT !.pc = "queued", !.msg = m]
    OBVIOUS
  <2>3. w.pc = "queued" /\ w.msg = m
    BY <2>1, <2>2 DEF Works
  <2>4. work' = [work EXCEPT ![d] = w]
    BY <1>2, <2>2
  <2> QED BY <1>4, <2>3, <2>4
<1>13. \A e \in Devs : Posted(e)' = Posted(e)
  BY <1>3 DEF Posted
<1>14. /\ AtWork(d) = {} /\ AtWork(d)' = {m}
       /\ \A e \in Devs \ {d} : AtWork(e)' = AtWork(e)
  BY <1>5, <1>8, <1>12 DEF AtWork
<1>15. /\ Alive(d)' = Alive(d) \cup {m} /\ Alive(d) = Posted(d) \cup queue[d]
       /\ \A e \in Devs \ {d} : Alive(e)' = Alive(e)
  BY <1>11, <1>13, <1>14 DEF Alive
<1>16. \A e \in Devs : \A x \in Alive(e) :
          x \in Ids /\ x # m /\ env'[x] = env[x] /\ bubble'[x] = bubble[x]
          /\ commit'[x] = commit[x]
  <2>1. \A e \in Devs : \A x \in Alive(e) : x \in Ids
    BY DEF Core, Written, SentBy
  <2> QED BY <1>9, <1>10, <2>1
<1>17. StoreTypes'
  BY <1>2, <1>3, <1>4, <1>8 DEF StoreTypes
<1>18. Received'
  BY <1>3, ReceivedKept
<1>19. Written'
  <2>1. ASSUME NEW e \in Devs, NEW x \in Alive(e)
        PROVE  /\ x \in SentBy(e) /\ bubble'[x] # "none"
               /\ session'[e] \in Sessions /\ env'[x] \in Envelopes
               /\ Linked(e, env[x].dh, env[x].key[1])' /\ env'[x].key[2] = env'[x].n
    <3>1. /\ x \in SentBy(e) /\ bubble[x] # "none"
          /\ session[e] \in Sessions /\ env[x] \in Envelopes
          /\ Linked(e, env[x].dh, env[x].key[1]) /\ env[x].key[2] = env[x].n
      BY DEF Core, Written
    <3>2. Linked(e, env[x].dh, env[x].key[1])'
      BY <1>3, <1>16, <3>1 DEF Linked
    <3> QED BY <1>3, <1>16, <3>1, <3>2
  <2>2. /\ m \in SentBy(d) /\ bubble'[m] # "none"
        /\ session'[d] \in Sessions /\ env'[m] \in Envelopes
        /\ Linked(d, env[m].dh, env[m].key[1])' /\ env'[m].key[2] = env'[m].n
    <3>1. Linked(d, s.dhs, s.cks)
      BY <1>0, <1>5 DEF Core, Owned
    <3>2. Linked(d, env[m].dh, env[m].key[1])'
      BY <1>3, <1>6, <1>10, <3>1 DEF Linked
    <3> QED BY <1>0, <1>3, <1>5, <1>6, <1>10, <3>2
  <2>3. \A e \in Devs : \A x \in Alive(e)' : x \in Alive(e) \/ (e = d /\ x = m)
    BY <1>15
  <2> QED BY <2>1, <2>2, <2>3 DEF Written
<1>20. Owned'
  <2>1. \A e \in Devs : session[e] \in Sessions => Linked(e, session[e].dhs, session[e].cks)
    BY DEF Core, Owned
  <2>2. \A e \in Devs :
            session'[e] \in Sessions => Linked(e, session[e].dhs, session[e].cks)'
    BY <1>3, <2>1 DEF Linked
  <2>3. \A e \in Devs : work'[e].pc \in {"ready", "queued"} => session'[e] \in Sessions
    BY <1>0, <1>3, <1>5, <1>12 DEF Core, Owned
  <2> QED BY <2>2, <2>3 DEF Owned
<1>21. Commits'
  <2>1. ASSUME NEW e \in Devs, NEW x \in queue[e]
        PROVE  /\ commit'[x] \in Sessions
               /\ commit'[x].dhs = env'[x].dh /\ commit'[x].ns = env'[x].n + 1
               /\ commit'[x].cks = env'[x].key[1]
               /\ commit'[x].dhs = session'[e].dhs => commit'[x].dhr = session'[e].dhr
    <3>1. x \in Alive(e)
      BY DEF Alive
    <3> QED BY <1>3, <1>16, <3>1 DEF Core, Commits
  <2>2. /\ commit'[m] \in Sessions
        /\ commit'[m].dhs = env'[m].dh /\ commit'[m].ns = env'[m].n + 1
        /\ commit'[m].cks = env'[m].key[1]
        /\ commit'[m].dhs = session'[d].dhs => commit'[m].dhr = session'[d].dhr
    BY <1>0, <1>3, <1>6, <1>7, <1>10
  <2>3. \A e \in Devs : \A x \in queue'[e] : x \in queue[e] \/ (e = d /\ x = m)
    BY <1>11
  <2> QED BY <2>1, <2>2, <2>3 DEF Commits
<1>22. \A e \in Devs : \A x \in Alive(e) : Behind(e, x) => Behind(e, x)'
  BY <1>3, <1>16 DEF Behind
<1>23. \A x \in Alive(d) : Behind(d, x)
  BY <1>5, <1>15 DEF Core, Spent, SpentBy
<1>24. Spent'
  <2>1. ASSUME NEW e \in Devs \ {d}
        PROVE  SpentBy(e)'
    <3>1. SpentBy(e)
      BY DEF Core, Spent
    <3>2. /\ Posted(e)' = Posted(e) /\ queue'[e] = queue[e] /\ AtWork(e)' = AtWork(e)
          /\ Alive(e)' = Alive(e) /\ work'[e] = work[e] /\ session'[e] = session[e]
      BY <1>3, <1>11, <1>12, <1>13, <1>14, <1>15
    <3>3. \A x \in AtWork(e) : x \in Alive(e) /\ env'[x] = env[x]
      BY <1>16 DEF Alive
    <3>4. \A x \in Posted(e)' : Behind(e, x)'
      BY <1>22, <3>1, <3>2 DEF SpentBy, Alive
    <3>5. work'[e].pc \in {"prepared", "ready"} => \A x \in queue'[e] : Behind(e, x)'
      BY <1>22, <3>1, <3>2 DEF SpentBy, Alive
    <3>6. \A x \in AtWork(e)' :
          /\ env'[x].dh = session'[e].dhs /\ env'[x].n = session'[e].ns
          /\ \A y \in Alive(e)' \ {x} : Behind(e, y)'
      BY <1>22, <3>1, <3>2, <3>3 DEF SpentBy
    <3> QED BY <3>4, <3>5, <3>6 DEF SpentBy
  <2>2. SpentBy(d)'
    <3>1. \A x \in Posted(d)' : Behind(d, x)'
      BY <1>13, <1>15, <1>22, <1>23
    <3>2. env'[m].dh = session'[d].dhs /\ env'[m].n = session'[d].ns
      BY <1>0, <1>3, <1>6, <1>10
    <3>3. \A x \in Alive(d)' \ {m} : Behind(d, x)'
      BY <1>15, <1>22, <1>23
    <3> QED BY <1>12, <1>14, <3>1, <3>2, <3>3 DEF SpentBy
  <2> QED BY <2>1, <2>2 DEF Spent
<1>25. Distinct'
  <2>1. ASSUME NEW x \in Alive(d)
        PROVE  v.dh # env[x].dh \/ v.n # env[x].n
    <3>1. env[x].dh = s.dhs => env[x].n < s.ns
      BY <1>0, <1>23 DEF Behind
    <3>2. s.ns \in Nat /\ env[x] \in Envelopes
      BY <1>5, SessionCount DEF Core, Written
    <3>3. env[x].n \in Nat
      BY <3>2 DEF Envelopes
    <3> QED BY <1>6, <3>1, <3>2, <3>3
  <2>2. ASSUME NEW e \in Devs, NEW x \in Alive(e)', NEW y \in Alive(e)', x # y
        PROVE  env'[x].dh # env'[y].dh \/ env'[x].n # env'[y].n
    <3>1. CASE x \in Alive(e) /\ y \in Alive(e)
      BY <1>16, <2>2, <3>1 DEF Core, Distinct
    <3>2. CASE e = d /\ x = m /\ y \in Alive(d)
      BY <1>10, <1>16, <2>1, <3>2
    <3>3. CASE e = d /\ y = m /\ x \in Alive(d)
      BY <1>10, <1>16, <2>1, <3>3
    <3> QED BY <1>15, <2>2, <3>1, <3>2, <3>3
  <2> QED BY <2>2 DEF Distinct
<1>26. NoMirror'
  <2>1. ASSUME NEW e \in Devs, NEW c \in InHand(e)'
        PROVE  c \in InHand(e)
    <3>1. CASE session'[e] \in Sessions /\ c = session'[e].cks
      BY <1>3, <3>1 DEF InHand
    <3>2. ASSUME NEW x \in Alive(e)', c = env'[x].key[1]
          PROVE  c \in InHand(e)
      <4>1. CASE x \in Alive(e)
        BY <1>16, <3>2, <4>1 DEF InHand
      <4>2. CASE e = d /\ x = m
        BY <1>0, <1>5, <1>6, <1>10, <3>2, <4>2 DEF InHand
      <4> QED BY <1>15, <4>1, <4>2
    <3> QED BY <2>1, <3>1, <3>2 DEF InHand
  <2> QED BY <2>1 DEF Core, NoMirror
<1> QED BY <1>17, <1>18, <1>19, <1>20, <1>21, <1>24, <1>25, <1>26 DEF Core

-----------------------------------------------------------------------------
(* No key comes back.                                                      *)

LEMMA CoreInitial ==
    ASSUME Init
    PROVE  Core
<1>1. \A d \in Devs : Alive(d) = {} /\ session[d] = NoSession /\ queue[d] = {}
  BY DEF Init, Alive, Posted, AtWork, SentBy, Idle
<1>2. \A d \in Devs : session[d] \notin Sessions /\ InHand(d) = {}
  BY <1>1, SessionAssumption DEF InHand
<1>3. \A d \in Devs : Posted(d) = {} /\ AtWork(d) = {}
  BY <1>1 DEF Alive
<1>4. StoreTypes
  BY DEF Init, StoreTypes
<1>5. Received
  BY DEF Init, Received, NoRecv
<1>6. Written /\ Commits /\ Distinct /\ NoMirror
  BY <1>1, <1>2 DEF Written, Commits, Distinct, NoMirror
<1>7. Owned
  BY <1>2 DEF Init, Owned, Idle
<1>8. Spent
  BY <1>1, <1>3 DEF Spent, SpentBy
<1> QED BY <1>4, <1>5, <1>6, <1>7, <1>8 DEF Core

LEMMA CoreInductive ==
    ASSUME IInv, Core, [Next]_vars, cleared' = {}
    PROVE  Core'
<1>1. CASE UNCHANGED vars
  <2>1. UNCHANGED <<session, generated, env, queue, commit, bubble, posts, rows, live, shown,
                    recv, work>>
    BY <1>1 DEF vars, sessions, items, outbound, server, inbound
  <2>2. Received'
    BY <2>1, ReceivedKept
  <2>3. \A e \in Devs : Posted(e)' \subseteq Posted(e)
    BY <2>1, PostedFewer
  <2> QED BY <2>1, <2>2, <2>3, StoreFacts, Quiet
<1>2. CASE Transport
  BY <1>2, QuietTransport
<1>3. ASSUME NEW d \in Devs, Sender(d)
      PROVE  Core'
  <2>1. CASE PrepareSend(d) \/ LoadSession(d) \/ StartSession(d) \/ Enqueue(d)
             \/ CommitSession(d)
    BY <2>1, PrepareSendSound, QuietSender, StartSessionSound, EnqueueSound,
       CommitSessionSound
  <2>2. ASSUME NEW m \in SentBy(d), Resume(d, m) \/ Retry(d, m)
        PROVE  Core'
    BY <2>2, SendAgainSound
  <2>3. CASE \E m \in SentBy(d) : \/ GiveUp(d, m) \/ PruneSettled(d, m)
                                  \/ PruneOrphan(d, m) \/ DeliveredEvent(d, m)
    BY <2>3, QuietSender
  <2> QED BY <1>3, <2>1, <2>2, <2>3 DEF Sender
<1>4. ASSUME NEW d \in Devs, Receiver(d)
      PROVE  Core'
  <2>1. CASE \/ WipeKey(d) \/ Show(d) \/ CommitTerminal(d)
             \/ \E m \in SentTo(d) : Ack(d, m) \/ AckLost(d, m) \/ ReadReceipt(d, m)
    BY <2>1, QuietReceiver
  <2>2. ASSUME NEW m \in SentTo(d), Decrypt(d, m) \/ Bootstrap(d, m)
        PROVE  Core'
    BY <2>2, ReceiptSound
  <2>3. ASSUME NEW m \in SentTo(d), Fail(d, m)
        PROVE  Core'
    BY <2>3, FailSound
  <2> QED BY <1>4, <2>1, <2>2, <2>3 DEF Receiver
<1>5. ASSUME NEW d \in Devs, Crash(d) \/ LoadHistory(d)
      PROVE  Core'
  BY <1>5, QuietRestart
<1> QED BY <1>1, <1>2, <1>3, <1>4, <1>5 DEF Next

\* What was cleared stays on record.
LEMMA ClearedGrows ==
    ASSUME [Next]_vars, cleared' = {}
    PROVE  cleared = {}
<1> USE DEF history
<1>1. CASE UNCHANGED vars
  BY <1>1 DEF vars
<1>2. CASE Transport
  BY <1>2 DEF Transport, Accept, Settle, PostFails
<1>3. ASSUME NEW d \in Devs, Sender(d)
      PROVE  cleared = {}
  <2>1. CASE PrepareSend(d) \/ LoadSession(d) \/ StartSession(d) \/ Enqueue(d)
             \/ CommitSession(d)
    BY <2>1 DEF PrepareSend, LoadSession, StartSession, Enqueue, CommitSession
  <2>2. CASE \E m \in SentBy(d) : Resume(d, m) \/ Retry(d, m)
    BY <2>2 DEF Resume, Retry, SendAgain
  <2>3. CASE \E m \in SentBy(d) : \/ GiveUp(d, m) \/ PruneSettled(d, m)
                                  \/ PruneOrphan(d, m) \/ DeliveredEvent(d, m)
    BY <2>3 DEF GiveUp, PruneSettled, PruneOrphan, DeliveredEvent
  <2> QED BY <1>3, <2>1, <2>2, <2>3 DEF Sender
<1>4. ASSUME NEW d \in Devs, Receiver(d)
      PROVE  cleared = {}
  <2>1. CASE WipeKey(d) \/ Show(d) \/ CommitTerminal(d)
    BY <2>1 DEF WipeKey, Show, CommitTerminal
  <2>2. CASE \E m \in SentTo(d) : Ack(d, m) \/ AckLost(d, m) \/ ReadReceipt(d, m)
    BY <2>2 DEF Ack, AckLost, ReadReceipt
  <2>3. CASE \E m \in SentTo(d) : Decrypt(d, m) \/ Bootstrap(d, m)
    BY <2>3 DEF Decrypt, Bootstrap
  <2>4. CASE \E m \in SentTo(d) : Fail(d, m)
    <3>1. PICK m \in SentTo(d) : Fail(d, m)
      BY <2>4
    <3>2. cleared' = IF Clears(d, m) THEN cleared \cup {d} ELSE cleared
      BY <3>1 DEF Fail
    <3> QED BY <3>2
  <2> QED BY <1>4, <2>1, <2>2, <2>3, <2>4 DEF Receiver
<1>5. ASSUME NEW d \in Devs, Crash(d) \/ LoadHistory(d)
      PROVE  cleared = {}
  BY <1>5 DEF Crash, LoadHistory
<1> QED BY <1>1, <1>2, <1>3, <1>4, <1>5 DEF Next

LEMMA CoreKeys ==
    ASSUME Core
    PROVE  KeysNotReused
<1>1. ASSUME NEW m \in Ids, NEW x \in Ids, m # x, rows[m] # "none", rows[x] # "none",
             env[m].key = env[x].key
      PROVE  FALSE
  <2>1. m[1] \in Devs /\ m \in Alive(m[1]) /\ x[1] \in Devs /\ x \in Alive(x[1])
    BY <1>1 DEF Alive, Posted, SentBy, Ids
  <2>2. /\ Linked(m[1], env[m].dh, env[m].key[1]) /\ env[m].key[2] = env[m].n
        /\ Linked(x[1], env[x].dh, env[x].key[1]) /\ env[x].key[2] = env[x].n
    BY <2>1 DEF Core, Written
  <2>3. CASE m[1] # x[1]
    <3>1. env[m].key[1] \in InHand(m[1]) /\ env[x].key[1] \in InHand(x[1])
      BY <2>1 DEF InHand
    <3> QED BY <1>1, <2>1, <2>3, <3>1 DEF Core, NoMirror
  <2>4. CASE m[1] = x[1]
    <3>1. PICK k \in Nat, e \in Devs \ {m[1]}, l \in Nat :
            env[m].dh = <<m[1], k>> /\ End(env[m].key[1]) = {<<m[1], k>>, <<e, l>>}
      <4>1. PICK k \in 1..generated[m[1]], e \in Devs \ {m[1]} : \E l \in 0..generated[e] :
            env[m].dh = <<m[1], k>> /\ End(env[m].key[1]) = {<<m[1], k>>, <<e, l>>}
        BY <2>2 DEF Linked
      <4>2. generated[m[1]] \in Nat /\ generated[e] \in Nat
        BY <2>1 DEF Core, StoreTypes
      <4> QED BY <4>1, <4>2
    <3>2. PICK j \in Nat, f \in Devs \ {m[1]}, i \in Nat :
            env[x].dh = <<m[1], j>> /\ End(env[x].key[1]) = {<<m[1], j>>, <<f, i>>}
      <4>1. PICK j \in 1..generated[x[1]], f \in Devs \ {x[1]} : \E i \in 0..generated[f] :
            env[x].dh = <<x[1], j>> /\ End(env[x].key[1]) = {<<x[1], j>>, <<f, i>>}
        BY <2>2 DEF Linked
      <4>2. generated[x[1]] \in Nat /\ generated[f] \in Nat
        BY <2>1 DEF Core, StoreTypes
      <4> QED BY <2>4, <4>1, <4>2
    <3>3. <<m[1], k>> \in {<<m[1], j>>, <<f, i>>}
      BY <1>1, <3>1, <3>2
    <3>4. env[m].dh = env[x].dh /\ env[m].n = env[x].n
      BY <1>1, <2>2, <3>1, <3>2, <3>3
    <3> QED BY <1>1, <2>1, <2>4, <3>4 DEF Core, Distinct
  <2> QED BY <2>3, <2>4
<1> QED BY <1>1 DEF KeysNotReused

-----------------------------------------------------------------------------
(* No key comes back: the theorem.                                         *)

LEMMA KeysInitial ==
    ASSUME Init
    PROVE  KInv
BY Initial, CoreInitial DEF KInv

LEMMA KeysInductive ==
    ASSUME KInv, [Next]_vars
    PROVE  KInv'
<1>1. IInv /\ IInv'
  BY Inductive DEF KInv
<1>2. ASSUME cleared' = {}
      PROVE  Core'
  <2>1. Core
    BY <1>2, ClearedGrows DEF KInv
  <2> QED BY <1>1, <1>2, <2>1, CoreInductive
<1> QED BY <1>1, <1>2 DEF KInv

\* As long as no session was cleared, the server never takes two messages sealed under one
\* key: not when a client is closed between the queue write and the session write
\* (saveGeneratedSessionCommits), when a queued commit is applied late
\* (applyQueuedSessionCommits), when an item is sent again, when a new session replaces
\* the stored one or when both sides seal at once.
THEOREM NoKeyComesBack == Spec => []KeysHold
<1>1. KInv => KeysHold
  BY CoreKeys DEF KInv, KeysHold
<1> QED BY <1>1, KeysInitial, KeysInductive, PTL DEF Spec

-----------------------------------------------------------------------------
(* As long as no client is closed, no two sessions cross and no key is     *)
(* evicted, the two devices keep one RatchetChannel: the inductive         *)
(* invariant.                                                              *)

\* None of the causes that SessionsHold excepts.
Calm == crashes = 0 /\ ~Crossed /\ forgotten = {}

\* A session that is not there yet is the one its first message will make.
Side(d) == IF session[d] = NoSession THEN InitReceiver(session[Peer(d)].rk[1], Spk(d))
           ELSE session[d]

\* What was sealed, and its session saved; what was opened.
Out  == {m \in Ids : bubble[m] # "none" /\ m \notin AtWork(m[1])}
Read == shown \cup {recv[d].msg : d \in {e \in Devs : recv[e].pc # "idle"}}

\* A message as an envelope of the channel.
Letter(m) == [from |-> m[1], id |-> m[2] - 1, dh |-> env[m].dh, pn |-> env[m].pn,
              n |-> env[m].n, key |-> env[m].key]
Letters(S) == {Letter(m) : m \in S}

\* A bound on what either device sends.
Longest == CHOOSE n \in Nat : \A d \in Devs : Sends[d] <= n

\* The channel: its envelopes are the letters, its sessions those in storage.
Ch == INSTANCE RatchetProofs
        WITH Sides <- Devs, Initiators <- Openers, Secrets <- Secrets, MaxSent <- Longest,
             session <- [d \in Devs |-> Side(d)], sent <- Letters(Out),
             opened <- Letters(Read), forgotten <- {}

\* Nobody has written yet.
Silent == /\ \A d \in Devs : /\ session[d] = NoSession /\ generated[d] = 0
                             /\ inits[d] = 0 /\ work[d].x3dh = NoX3dh
          /\ \A m \in Ids : bubble[m] = "none"

\* Messages are written in order.
InOrder == \A m, x \in Ids : m[1] = x[1] /\ x[2] < m[2] /\ bubble[m] # "none" => bubble[x] # "none"

\* The session the initiator has started, with its secret in the first message only.
FirstOf(e) == <<e, 1>>
Opening(e) ==
    /\ session[e] # NoSession /\ inits[e] > 0
    /\ \A m \in Ids : bubble[m] # "none" /\ env[m].x3dh # NoX3dh =>
          m = FirstOf(e) /\ env[m].x3dh = session[e].rk[1]
    /\ \A d \in Devs : work[d].x3dh # NoX3dh =>
          /\ d = e /\ work[d].x3dh = session[e].rk[1] /\ work[d].pc \in {"ready", "queued"}
          /\ work[d].pc = "ready" => \A m \in SentBy(d) : bubble[m] = "none"
    /\ session[Peer(e)] # NoSession => FirstOf(e) \in Read

\* The sessions, and the message that is being sealed.
Standing ==
    /\ \A d \in Devs : /\ generated[d] = Side(d).dhs[2]
                       /\ session[d] # NoSession => CanEncrypt(session[d])
    /\ \A d \in Devs : \A m \in AtWork(d) :
          /\ [env[m] EXCEPT !.x3dh = NoX3dh] = Sealed(session[d], NoX3dh)
          /\ \A x \in SentBy(d) : bubble[x] # "none" <=> x[2] <= m[2]

\* What was opened is not opened again.
ReadOnce ==
    /\ \A d \in Devs : recv[d].pc # "idle" => recv[d].msg \in SentTo(d)
    /\ \A m \in shown : \E d \in Devs : /\ m \in SentTo(d)
                                        /\ \/ m \in tracked[d].done
                                           \/ recv[d].pc = "shown" /\ recv[d].msg = m

Dialogue(e) == Opening(e) /\ Standing /\ ReadOnce /\ Ch!JInv(e)

Together == InOrder /\ (Silent \/ \E e \in Devs : Dialogue(e))

CInv == crashes \in Nat /\ (Calm => cleared = {} /\ Together)

-----------------------------------------------------------------------------
(* The operators of the session are those of the channel.                  *)

\* skipMessageKeys and dhRatchetStep.
LEMMA SkipSame ==
    ASSUME NEW s, NEW until
    PROVE  Ch!Skip(s, until) = Skip(s, until)
BY DEF Ch!Skip, Skip, Ch!NoChain, NoChain

LEMMA DhStepSame ==
    ASSUME NEW s, NEW remote, NEW fresh
    PROVE  Ch!DhStep(s, remote, fresh) = DhStep(s, remote, fresh)
<1>1. \A q : Ch!Evict(q) = Evict(q)
  BY DEF Ch!Evict, Evict
<1> QED BY <1>1 DEF Ch!DhStep, DhStep, Ch!DH, DH

\* An attempt looks at the header and the key.
LEMMA AttemptSame ==
    ASSUME NEW s, NEW m, NEW x, NEW fresh,
           x.dh = m.dh, x.pn = m.pn, x.n = m.n, x.key = m.key
    PROVE  /\ Ch!Outcome(s, x, fresh) = Outcome(s, m, fresh)
           /\ Ch!AfterDecrypt(s, x, fresh) = AfterDecrypt(s, m, fresh)
           /\ Ch!IsDhStep(s, x) = IsDhStep(s, m) /\ Ch!Stored(s, x) = Stored(s, m)
<1>1. Ch!IsDhStep(s, x) = IsDhStep(s, m) /\ Ch!Stored(s, x) = Stored(s, m)
  BY DEF Ch!IsDhStep, IsDhStep, Ch!Stored, Stored
<1>2. Ch!AtChain(s, x, fresh) = AtChain(s, m, fresh)
  BY <1>1, SkipSame, DhStepSame DEF Ch!AtChain, AtChain
<1>3. Ch!AtKey(s, x, fresh) = AtKey(s, m, fresh)
  BY <1>2, SkipSame DEF Ch!AtKey, AtKey
<1>4. Ch!Outcome(s, x, fresh) = Outcome(s, m, fresh)
  BY <1>1, <1>2, SkipSame DEF Ch!Outcome, Outcome, Ch!TooMany, TooMany, Ch!NoChain, NoChain
<1>5. Ch!AfterDecrypt(s, x, fresh) = AfterDecrypt(s, m, fresh)
  BY <1>1, <1>3 DEF Ch!AfterDecrypt, AfterDecrypt, Ch!Without, Without
<1> QED BY <1>1, <1>4, <1>5

\* There are two devices.
LEMMA TwoDevs ==
    ASSUME NEW d \in Devs
    PROVE  /\ Devs = {d, Peer(d)} /\ Peer(d) \in Devs /\ Peer(d) # d /\ Peer(Peer(d)) = d
           /\ \A e \in Devs : e # d => e = Peer(d)
<1>1. \A p \in Devs : \A a, b \in Devs : a # p /\ b # p => a = b
  <2>1. ASSUME NEW p \in Devs
        PROVE  \E o \in Devs : Devs \ {p} = {o}
    <3>1. IsFiniteSet(Devs \ {p}) /\ Cardinality(Devs \ {p}) = 1
      BY MessagesAssumption, FS_RemoveElement
    <3> QED BY <3>1, FS_Singleton
  <2> QED BY <2>1
<1>2. Peer(d) \in Devs /\ Peer(d) # d /\ Peer(Peer(d)) \in Devs /\ Peer(Peer(d)) # Peer(d)
  BY PeerOther
<1> QED BY <1>1, <1>2

\* What the channel asks of its constants.
LEMMA LongestSends == Longest \in Nat /\ \A d \in Devs : Sends[d] <= Longest
<1>1. \E n \in Nat : \A d \in Devs : Sends[d] <= n
  <2>1. PICK d \in Devs : TRUE
    BY MessagesAssumption, FS_EmptySet
  <2>2. \A e \in Devs : e = d \/ e = Peer(d)
    BY TwoDevs
  <2>3. Sends[d] \in Nat /\ Sends[Peer(d)] \in Nat
    BY MessagesAssumption, PeerOther
  <2>4. \A e \in Devs : Sends[e] <= Sends[d] + Sends[Peer(d)]
    BY <2>2, <2>3
  <2> QED BY <2>3, <2>4
<1> QED BY <1>1 DEF Longest

\* Both count alike.
LEMMA CountSame ==
    ASSUME NEW S
    PROVE  Ch!IsFiniteSet(S) = IsFiniteSet(S) /\ Ch!Cardinality(S) = Cardinality(S)
BY DEF Ch!IsFiniteSet, IsFiniteSet, Ch!Cardinality, Cardinality

LEMMA ChannelConstants ==
    /\ Ch!IsFiniteSet(Devs) /\ Ch!Cardinality(Devs) = 2 /\ Openers \subseteq Devs
    /\ Longest \in Nat /\ NoPub \notin Devs \X Nat
BY CountSame, LongestSends, MessagesAssumption, SessionAssumption DEF KeyPairs

\* The steps of a dialogue keep what the channel keeps.
LEMMA ChannelStep ==
    ASSUME NEW e \in Devs, Ch!JInv(e), [Ch!Next]_(Ch!vars)
    PROVE  Ch!JInv(e)'
BY Ch!NextKeeps, ChannelConstants, SkipAssumption

\* A letter that was not read still opens.
LEMMA ChannelStays ==
    ASSUME NEW e \in Devs, Ch!JInv(e)
    PROVE  Ch!StaysOpenable
BY Ch!MeetsStaysOpenable, ChannelConstants, SkipAssumption

\* A session has moved past what it sealed with its key pair.
LEMMA ChannelBehind ==
    ASSUME NEW e \in Devs, Ch!JInv(e), NEW x \in Letters(Out), x.dh = Side(x.from).dhs
    PROVE  x.n < Side(x.from).ns
<1>1. x.from \in Devs
  BY DEF Ch!JInv, Ch!IInv, Ch!Types
<1>2. [d \in Devs |-> Side(d)][x.from] = Side(x.from)
  BY <1>1
<1> HIDE DEF Side, Letters, Out
<1> QED BY <1>2, Ch!SealedBehind, ChannelConstants, SkipAssumption

-----------------------------------------------------------------------------
(* Letters.                                                                *)

LEMMA LetterHeader ==
    ASSUME NEW m
    PROVE  /\ Letter(m).from = m[1] /\ Letter(m).id = m[2] - 1 /\ Letter(m).dh = env[m].dh
           /\ Letter(m).pn = env[m].pn /\ Letter(m).n = env[m].n /\ Letter(m).key = env[m].key
BY DEF Letter

LEMMA IdParts ==
    ASSUME NEW m \in Ids
    PROVE  m[1] \in Devs /\ m[2] \in 1..Sends[m[1]] /\ m = <<m[1], m[2]>> /\ m[2] \in Nat
BY MessagesAssumption DEF Ids

\* Letters of two messages differ.
LEMMA LetterOne ==
    ASSUME NEW m \in Ids, NEW x \in Ids, Letter(m) = Letter(x)
    PROVE  m = x
<1>1. m[1] = x[1] /\ m[2] - 1 = x[2] - 1
  <2>1. Letter(m).from = m[1] /\ Letter(m).id = m[2] - 1
    BY LetterHeader
  <2>2. Letter(x).from = x[1] /\ Letter(x).id = x[2] - 1
    BY LetterHeader
  <2> QED BY <2>1, <2>2
<1>2. /\ m = <<m[1], m[2]>> /\ m[2] \in Nat
      /\ x = <<x[1], x[2]>> /\ x[2] \in Nat
  BY IdParts
<1>3. \A a, b \in Nat : a - 1 = b - 1 => a = b
  OBVIOUS
<1>4. m[2] = x[2]
  BY <1>1, <1>2, <1>3
<1> QED BY <1>1, <1>2, <1>4

\* What the server has was saved first.
LEMMA PostedOut ==
    ASSUME Core, NEW d \in Devs, NEW m \in Posted(d)
    PROVE  m \in Out /\ m \notin AtWork(d)
<1>1. m \in SentBy(d) /\ bubble[m] # "none" /\ env[m] \in Envelopes /\ session[d] \in Sessions
  BY DEF Core, Written, Alive
<1>2. m \notin AtWork(d)
  <2>1. SUFFICES ASSUME m \in AtWork(d) PROVE FALSE
    OBVIOUS
  <2>2. env[m].dh = session[d].dhs /\ env[m].n = session[d].ns /\ Behind(d, m)
    BY <2>1 DEF Core, Spent, SpentBy
  <2>3. session[d].ns \in Nat
    BY <1>1, SessionCount
  <2> QED BY <2>2, <2>3 DEF Behind
<1> QED BY <1>1, <1>2 DEF Out, SentBy

\* What has a row was posted.
LEMMA OnServer ==
    ASSUME Core, NEW m \in Ids, rows[m] # "none"
    PROVE  m \in Out /\ m \in Posted(m[1]) /\ m[1] \in Devs /\ session[m[1]] \in Sessions
           /\ env[m] \in Envelopes
<1>1. m[1] \in Devs /\ m \in Posted(m[1])
  BY IdParts DEF Posted, SentBy
<1> QED BY <1>1, PostedOut DEF Alive, Core, Written

\* What was opened is on the server.
LEMMA ReadOut ==
    ASSUME Core
    PROVE  Read \subseteq Out
BY OnServer DEF Read, Core, Received

\* The session after a queued message was saved, unless it is the one being sent.
LEMMA QueueOut ==
    ASSUME Core, NEW d \in Devs, AtWork(d) = {}
    PROVE  queue[d] \subseteq Out
BY DEF Core, Written, Alive, Out, SentBy

-----------------------------------------------------------------------------
(* What a dialogue knows of its sessions.                                  *)

\* A session that has saved what it sealed takes nothing from the queue.
LEMMA QueueIsBehind ==
    ASSUME NEW e \in Devs, Core, Ch!JInv(e), NEW d \in Devs, AtWork(d) = {},
           NEW m \in queue[d]
    PROVE  session[d] \in Sessions /\ ~ShouldApply(session[d], commit[m])
<1>1. /\ session[d] \in Sessions /\ commit[m] \in Sessions /\ m \in SentBy(d)
      /\ commit[m].dhs = env[m].dh /\ commit[m].ns = env[m].n + 1 /\ env[m] \in Envelopes
  BY DEF Core, Written, Alive, Commits
<1>2. session[d] # NoSession /\ Side(d) = session[d]
  BY <1>1, SessionAssumption DEF Side
<1>3. Letter(m) \in Letters(Out) /\ Letter(m).from = d
  BY <1>1, QueueOut DEF Letters, Letter, SentBy
<1>4. env[m].dh = session[d].dhs => env[m].n < session[d].ns
  BY <1>2, <1>3, ChannelBehind, LetterHeader
<1>5. env[m].n \in Nat /\ session[d].ns \in Nat
  BY <1>1, SessionCount DEF Envelopes
<1> QED BY <1>1, <1>2, <1>4, <1>5 DEF ShouldApply

\* The secret of a session stays the first of its root key.
LEMMA RootSecret ==
    ASSUME NEW s \in Sessions, NEW m \in Envelopes, NEW fresh \in KeyPairs, Len(s.rk) > 0
    PROVE  /\ AfterDecrypt(s, m, fresh).rk[1] = s.rk[1]
           /\ AfterDecrypt(s, m, fresh).cks \in {s.cks, AfterDecrypt(s, m, fresh).rk}
           /\ IsDhStep(s, m) /\ Stored(s, m) = {} =>
                 AfterDecrypt(s, m, fresh).cks = AfterDecrypt(s, m, fresh).rk
           /\ Len(AfterDecrypt(s, m, fresh).rk) > 0
<1> DEFINE t == AfterDecrypt(s, m, fresh)
           c == AtChain(s, m, fresh)
<1>0. m.dh \in KeyPairs /\ m.n \in Nat /\ m.pn \in Nat
  BY DEF Envelopes
<1>1. CASE Stored(s, m) # {}
  <2>1. t = [s EXCEPT !.skipped =
               Without(s.skipped, CHOOSE i \in Stored(s, m) : s.skipped[i].key = m.key)]
    BY <1>1 DEF AfterDecrypt
  <2>2. t.rk = s.rk /\ t.cks = s.cks
    BY <2>1 DEF Sessions
  <2> QED BY <1>1, <2>2
<1>2. CASE Stored(s, m) = {}
  <2>1. /\ c \in Sessions /\ Len(c.rk) > 0 /\ c.rk[1] = s.rk[1] /\ c.cks \in {s.cks, c.rk}
        /\ IsDhStep(s, m) => c.cks = c.rk
    <3>1. CASE ~IsDhStep(s, m)
      BY <3>1 DEF AtChain
    <3>2. CASE IsDhStep(s, m)
      <4> DEFINE b == Skip(s, m.pn)
                 rk1 == Append(b.rk, DH(b.dhs, m.dh))
                 rk2 == Append(rk1, DH(fresh, m.dh))
      <4>1. b \in Sessions /\ b.rk = s.rk
        BY <1>0, SkipType
      <4>2. c = DhStep(b, m.dh, fresh)
        BY <3>2 DEF AtChain
      <4>3. c \in Sessions
        BY <1>0, <4>1, <4>2, DhStepType
      <4>4. c = [b EXCEPT !.pn = b.ns, !.ns = 0, !.nr = 0, !.dhr = m.dh,
                          !.skipped = Evict(b.skipped), !.ckr = rk1, !.dhs = fresh,
                          !.rk = rk2, !.cks = rk2]
        BY <4>2 DEF DhStep
      <4> HIDE DEF b, c
      <4>5. DH(b.dhs, m.dh) \in Secrets \cup SUBSET KeyPairs
            /\ DH(fresh, m.dh) \in Secrets \cup SUBSET KeyPairs
        BY <1>0, <4>1 DEF DH, Sessions
      <4>6. b.rk \in Seq(Secrets \cup SUBSET KeyPairs) /\ Len(b.rk) \in Nat
        BY <4>1, LenProperties DEF Sessions, Chains
      <4>7. rk1 \in Seq(Secrets \cup SUBSET KeyPairs) /\ Len(rk1) = Len(b.rk) + 1
            /\ rk1[1] = b.rk[1]
        BY <4>1, <4>5, <4>6, AppendProperties
      <4> HIDE DEF rk1
      <4>8. Len(rk2) = Len(rk1) + 1 /\ rk2[1] = rk1[1]
        BY <4>1, <4>5, <4>6, <4>7, AppendProperties
      <4> HIDE DEF rk2
      <4>9. c.rk = rk2 /\ c.cks = rk2
        BY <4>1, <4>4 DEF Sessions
      <4> QED BY <4>1, <4>3, <4>6, <4>7, <4>8, <4>9
    <3> QED BY <3>1, <3>2
  <2> HIDE DEF c
  <2> DEFINE k == Skip(c, m.n)
  <2>2. k \in Sessions /\ k.rk = c.rk /\ k.cks = c.cks
    BY <1>0, <2>1, SkipType DEF SameSide
  <2>3. t = [k EXCEPT !.nr = k.nr + 1]
    BY <1>2 DEF AfterDecrypt, AtKey, c
  <2> HIDE DEF k, t
  <2>4. t.rk = k.rk /\ t.cks = k.cks
    BY <2>2, <2>3 DEF Sessions
  <2> QED BY <2>1, <2>2, <2>4 DEF t
<1> QED BY <1>1, <1>2

\* A key that is not evicted by a step is still stored after it.
LEMMA StepStores ==
    ASSUME NEW s \in Sessions, NEW m \in Envelopes, NEW fresh \in KeyPairs,
           IsDhStep(s, m), Stored(s, m) = {}
    PROVE  Keys(Evict(Skip(s, m.pn).skipped)) \subseteq Keys(AfterDecrypt(s, m, fresh).skipped)
<1> DEFINE b == Skip(s, m.pn)
           c == AtChain(s, m, fresh)
           k == Skip(c, m.n)
           t == AfterDecrypt(s, m, fresh)
<1>0. m.dh \in KeyPairs /\ m.n \in Nat /\ m.pn \in Nat
  BY DEF Envelopes
<1>1. b \in Sessions
  BY <1>0, SkipType
<1>2. c = DhStep(b, m.dh, fresh)
  BY DEF AtChain
<1>3. c \in Sessions
  BY <1>0, <1>1, <1>2, DhStepType
<1>4. c.skipped = Evict(b.skipped)
  <2> HIDE DEF b, c
  <2> QED BY <1>1, <1>2 DEF DhStep, Sessions
<1> HIDE DEF c
<1>5. k \in Sessions
  BY <1>0, <1>3, SkipType
<1>6. Keys(c.skipped) \subseteq Keys(k.skipped)
  <2>1. CASE c.ckr = NoChain \/ m.n <= c.nr
    BY <2>1 DEF Skip
  <2>2. CASE ~(c.ckr = NoChain \/ m.n <= c.nr)
    <3> DEFINE more == [i \in 1..(m.n - c.nr) |->
                          [dh |-> c.dhr, n |-> c.nr + i - 1, key |-> <<c.ckr, c.nr + i - 1>>]]
    <3>1. k = [c EXCEPT !.nr = m.n, !.skipped = c.skipped \o more]
      BY <2>2 DEF Skip
    <3>2. c.nr \in Nat /\ m.n - c.nr \in Nat /\ c.skipped \in Seq(Entries)
      BY <1>0, <1>3, <2>2 DEF Sessions, Entries
    <3>3. more \in Seq(Entries)
      <4>1. \A i \in 1..(m.n - c.nr) : c.nr + i - 1 \in Nat
        BY <3>2
      <4>2. \A i \in 1..(m.n - c.nr) :
                [dh |-> c.dhr, n |-> c.nr + i - 1, key |-> <<c.ckr, c.nr + i - 1>>] \in Entries
        BY <1>3, <4>1 DEF Sessions, Entries
      <4> QED BY <3>2, <4>2
    <3> HIDE DEF more, k
    <3>4. k.skipped = c.skipped \o more
      BY <1>3, <3>1 DEF Sessions
    <3>5. /\ Len(c.skipped) \in Nat /\ Len(more) \in Nat
          /\ Len(c.skipped \o more) = Len(c.skipped) + Len(more)
          /\ \A i \in 1..Len(c.skipped) : (c.skipped \o more)[i] = c.skipped[i]
      BY <3>2, <3>3, LenProperties, ConcatProperties
    <3>6. \A i \in 1..Len(c.skipped) : i \in 1..Len(k.skipped) /\ k.skipped[i] = c.skipped[i]
      BY <3>4, <3>5
    <3> QED BY <3>6 DEF Keys
  <2> QED BY <2>1, <2>2
<1>7. t.skipped = k.skipped
  <2>1. t = [k EXCEPT !.nr = k.nr + 1]
    BY DEF AfterDecrypt, AtKey, c
  <2> HIDE DEF t, k
  <2> QED BY <1>5, <2>1 DEF Sessions
<1> HIDE DEF b, k, t
<1> QED BY <1>4, <1>6, <1>7 DEF b, t

-----------------------------------------------------------------------------
(* Steps that neither seal nor open.                                       *)

\* Sessions, letters and readings are the same.
LEMMA ChannelStill ==
    ASSUME session' = session, Letters(Out)' = Letters(Out), Letters(Read)' = Letters(Read)
    PROVE  UNCHANGED Ch!vars
<1>1. \A d \in Devs : Side(d)' = Side(d)
  BY DEF Side
<1> HIDE DEF Side, Letters, Out, Read
<1> QED BY <1>1 DEF Ch!vars

\* The messages known to the sender, and what it has in hand, are the same.
SameHand ==
    /\ UNCHANGED <<session, generated, inits, env>>
    /\ \A m \in Ids : bubble'[m] # "none" <=> bubble[m] # "none"
    /\ \A d \in Devs : /\ work'[d].x3dh = work[d].x3dh /\ AtWork(d)' = AtWork(d)
                       /\ work[d].x3dh # NoX3dh => work'[d].pc = work[d].pc

LEMMA HandStill ==
    ASSUME SameHand, Read' = Read
    PROVE  UNCHANGED Ch!vars
<1>1. \A m \in Ids : m \in Out' <=> m \in Out
  BY IdParts DEF SameHand, Out
<1>2. Out' = Out
  BY <1>1 DEF Out
<1>3. \A m : Letter(m)' = Letter(m)
  BY DEF SameHand, Letter
<1>4. Letters(Out)' = Letters(Out) /\ Letters(Read)' = Letters(Read)
  BY <1>2, <1>3 DEF Letters
<1> QED BY <1>4, ChannelStill DEF SameHand

\* Then the dialogue goes on.
LEMMA StillTalking ==
    ASSUME NEW e \in Devs, InOrder, Dialogue(e), SameHand, Read' = Read, ReadOnce'
    PROVE  InOrder' /\ Dialogue(e)'
<1>1. Ch!JInv(e)'
  BY HandStill, ChannelStep DEF Dialogue
<1>2. \A d \in Devs : Side(d)' = Side(d) /\ SentBy(d) \subseteq Ids
  BY DEF SameHand, Side, SentBy
<1>3. Opening(e)'
  BY <1>2 DEF Dialogue, Opening, SameHand
<1>4. Standing'
  BY <1>2 DEF Dialogue, Standing, SameHand
<1>5. InOrder'
  BY DEF InOrder, SameHand
<1> QED BY <1>1, <1>3, <1>4, <1>5 DEF Dialogue

\* A bubble that is there.
LEMMA BubbleThere ==
    ASSUME IInv, NEW m \in Ids, NEW v, v # "none", bubble[m] # "none",
           bubble' = [bubble EXCEPT ![m] = v]
    PROVE  \A x \in Ids : bubble'[x] # "none" <=> bubble[x] # "none"
BY DEF IInv, SenderTypes

\* Nothing has changed for the receivers.
LEMMA InboundStill ==
    ASSUME UNCHANGED inbound, ReadOnce
    PROVE  Read' = Read /\ ReadOnce'
BY DEF inbound, Read, ReadOnce

\* The steps of a sender other than to start, to seal and to save.
LEMMA SenderTalks ==
    ASSUME IInv, Core, NEW e \in Devs, Dialogue(e), NEW d \in Devs,
           \/ PrepareSend(d) \/ LoadSession(d)
           \/ \E m \in SentBy(d) : \/ Resume(d, m) \/ Retry(d, m) \/ GiveUp(d, m)
                                   \/ PruneSettled(d, m) \/ PruneOrphan(d, m)
                                   \/ DeliveredEvent(d, m)
    PROVE  SameHand /\ UNCHANGED inbound
<1> USE DEF sessions, items, outbound, server, history, bounds
<1>0. /\ session \in [Devs -> Sessions \cup {NoSession}] /\ work \in [Devs -> Works]
      /\ Ch!JInv(e)
      /\ \A x \in Devs : work[x].x3dh # NoX3dh => work[x].pc \in {"ready", "queued"}
  BY DEF Core, StoreTypes, IInv, SenderTypes, Dialogue, Opening
<1>1. CASE PrepareSend(d)
  <2>1. /\ session' = [session EXCEPT ![d] = AllApplied(d)] /\ work[d].pc = "idle"
        /\ work' = [work EXCEPT ![d].pc = "prepared"]
        /\ UNCHANGED <<generated, inits, env, bubble, inbound>>
    BY <1>1 DEF PrepareSend
  <2>2. AtWork(d) = {}
    BY <2>1 DEF AtWork
  <2>3. session' = session
    BY <1>0, <2>1, <2>2, QueueIsBehind, NoneApplied
  <2>4. \A x \in Devs : IF x = d THEN work'[x] = [work[x] EXCEPT !.pc = "prepared"]
                        ELSE work'[x] = work[x]
    BY <1>0, <2>1
  <2>5. work'[d].pc = "prepared" /\ work'[d].x3dh = work[d].x3dh
    BY <1>0, <2>4 DEF Works
  <2>6. \A x \in Devs : AtWork(x)' = AtWork(x)
    BY <2>1, <2>4, <2>5 DEF AtWork
  <2> QED BY <1>0, <2>1, <2>3, <2>4, <2>5, <2>6 DEF SameHand
<1>2. CASE LoadSession(d)
  <2>1. /\ work[d].pc = "prepared" /\ work' = [work EXCEPT ![d].pc = "ready"]
        /\ UNCHANGED <<session, generated, inits, env, bubble, inbound>>
    BY <1>2 DEF LoadSession
  <2>2. \A x \in Devs : IF x = d THEN work'[x] = [work[x] EXCEPT !.pc = "ready"]
                        ELSE work'[x] = work[x]
    BY <1>0, <2>1
  <2>3. work'[d].pc = "ready" /\ work'[d].x3dh = work[d].x3dh
    BY <1>0, <2>2 DEF Works
  <2>4. \A x \in Devs : AtWork(x)' = AtWork(x)
    BY <2>1, <2>2, <2>3 DEF AtWork
  <2> QED BY <1>0, <2>1, <2>2, <2>3, <2>4 DEF SameHand
<1>3. ASSUME NEW m \in SentBy(d), Resume(d, m) \/ Retry(d, m)
      PROVE  SameHand /\ UNCHANGED inbound
  <2>1. /\ session' = [session EXCEPT ![d] = Applied(@, m)] /\ ~Locked(d) /\ m \in queue[d]
        /\ UNCHANGED <<generated, inits, env, work, inbound>>
    BY <1>3 DEF Resume, Retry, SendAgain, Pending
  <2>2. AtWork(d) = {}
    BY <2>1 DEF AtWork, Locked
  <2>3. session' = session
    BY <1>0, <2>1, <2>2, QueueIsBehind DEF Applied
  <2>4. m \in Ids /\ bubble[m] # "none"
    BY <2>1 DEF Core, Written, Alive, SentBy
  <2>5. bubble' = bubble \/ bubble' = [bubble EXCEPT ![m] = "sending"]
    BY <1>3 DEF Resume, Retry
  <2>6. \A x \in Ids : bubble'[x] # "none" <=> bubble[x] # "none"
    BY <2>4, <2>5, BubbleThere
  <2> QED BY <2>1, <2>3, <2>6 DEF SameHand, AtWork
<1>4. ASSUME NEW m \in SentBy(d), GiveUp(d, m) \/ PruneSettled(d, m) \/ PruneOrphan(d, m)
      PROVE  SameHand /\ UNCHANGED inbound
  <2>1. UNCHANGED <<session, generated, inits, env, work, bubble, inbound>>
    BY <1>4 DEF GiveUp, PruneSettled, PruneOrphan
  <2> QED BY <2>1 DEF SameHand, AtWork
<1>5. ASSUME NEW m \in SentBy(d), DeliveredEvent(d, m)
      PROVE  SameHand /\ UNCHANGED inbound
  <2>1. /\ bubble' = [bubble EXCEPT ![m] = "delivered"] /\ rows[m] = "delivered"
        /\ UNCHANGED <<session, generated, inits, env, work, inbound>>
    BY <1>5 DEF DeliveredEvent
  <2>2. m \in Ids /\ bubble[m] # "none"
    BY <2>1, OnServer DEF Out, SentBy
  <2>3. \A x \in Ids : bubble'[x] # "none" <=> bubble[x] # "none"
    BY <2>1, <2>2, BubbleThere
  <2> QED BY <2>1, <2>3 DEF SameHand, AtWork
<1> QED BY <1>1, <1>2, <1>3, <1>4, <1>5

\* The requests and their answers.
LEMMA TransportTalks ==
    ASSUME IInv, Core, Transport
    PROVE  SameHand /\ UNCHANGED inbound
<1> USE DEF sessions, items, outbound, server, history, bounds
<1>1. PICK p \in posts : Accept(p) \/ Settle(p) \/ PostFails(p)
  BY DEF Transport
<1>2. UNCHANGED <<session, generated, inits, env, work, inbound>>
  BY <1>1 DEF Accept, Settle, PostFails
<1>3. p.id \in Ids /\ bubble[p.id] # "none"
  <2>1. p.id \in Ids
    BY DEF IInv, SenderTypes, Posts
  <2>2. p.id \in Posted(p.id[1]) /\ p.id[1] \in Devs
    BY <2>1, IdParts DEF Posted, SentBy
  <2> QED BY <2>1, <2>2, PostedOut DEF Out
<1>4. \/ bubble' = bubble \/ bubble' = [bubble EXCEPT ![p.id] = "sent"]
      \/ bubble' = [bubble EXCEPT ![p.id] = "error"]
  BY <1>1 DEF Accept, Settle, PostFails
<1>5. \A x \in Ids : bubble'[x] # "none" <=> bubble[x] # "none"
  BY <1>3, <1>4, BubbleThere
<1> QED BY <1>2, <1>5 DEF SameHand, AtWork

-----------------------------------------------------------------------------
(* What arrives.                                                           *)

LEMMA OtherIsPeer == \A d : Ch!Other(d) = Peer(d)
BY DEF Ch!Other, Peer

\* The next key pair is the same.
LEMMA FreshSame ==
    ASSUME Standing, NEW d \in Devs
    PROVE  Ch!Fresh(d) = Fresh(d)
BY DEF Ch!Fresh, Ch!KeyPair, Fresh, Standing

\* A message that gets hold of the lock was sealed and saved, and not opened before.
LEMMA ArrivedNew ==
    ASSUME Core, ReadOnce, NEW d \in Devs, NEW m \in SentTo(d), Arrives(d, m)
    PROVE  /\ m \in Ids /\ m[1] = Peer(d) /\ m \in Out /\ m \notin Read
           /\ env[m] \in Envelopes /\ session[Peer(d)] \in Sessions
           /\ recv[d].pc = "idle" /\ AtWork(d) = {} /\ work[d].pc \notin {"ready", "queued"}
<1>1. /\ m \in Ids /\ m[1] # d /\ m[1] \in Devs /\ rows[m] # "none" /\ AtWork(d) = {}
  BY ArrivedWritten, IdParts DEF SentTo
<1>2. m[1] = Peer(d)
  BY <1>1, TwoDevs
<1>3. recv[d].pc = "idle" /\ m \notin tracked[d].done /\ work[d].pc \notin {"ready", "queued"}
  BY DEF Arrives, Locked
<1>4. m \notin shown
  <2>1. SUFFICES ASSUME m \in shown PROVE FALSE
    OBVIOUS
  <2>2. PICK f \in Devs : /\ m \in SentTo(f)
                          /\ m \in tracked[f].done \/ (recv[f].pc = "shown" /\ recv[f].msg = m)
    BY <2>1 DEF ReadOnce
  <2>3. f = d
    BY <1>1, <2>2, TwoDevs DEF SentTo
  <2> QED BY <1>3, <2>2, <2>3
<1>5. \A f \in Devs : recv[f].pc # "idle" => recv[f].msg # m
  <2>1. SUFFICES ASSUME NEW f \in Devs, recv[f].pc # "idle", recv[f].msg = m PROVE FALSE
    OBVIOUS
  <2>2. m \in SentTo(f)
    BY <2>1 DEF ReadOnce
  <2>3. f = d
    BY <1>1, <2>2, TwoDevs DEF SentTo
  <2> QED BY <1>3, <2>1, <2>3
<1> QED BY <1>1, <1>2, <1>3, <1>4, <1>5, OnServer DEF Read

\* It opens, or it is too far ahead.
LEMMA ArrivedOpens ==
    ASSUME NEW e \in Devs, Core, Dialogue(e), NEW d \in Devs, NEW m \in SentTo(d),
           Arrives(d, m)
    PROVE  Outcome(Side(d), env[m], Fresh(d)) \in {"ok", "skip"}
<1>1. m \in Ids /\ m[1] = Peer(d) /\ m \in Out /\ m \notin Read /\ Read \subseteq Ids
  BY ArrivedNew, ReadOut DEF Dialogue, Out
<1>2. Letter(m) \in Letters(Out) /\ Letter(m) \notin Letters(Read)
  BY <1>1, LetterOne DEF Letters
<1>3. Ch!Other(Letter(m).from) = d /\ Ch!Fresh(d) = Fresh(d)
  BY <1>1, OtherIsPeer, FreshSame, LetterHeader, TwoDevs DEF Dialogue
<1>4. [p \in Devs |-> Side(p)][d] = Side(d)
  OBVIOUS
<1>5. Ch!Outcome(Side(d), Letter(m), Fresh(d)) \in {"ok", "skip"}
  <2>1. Ch!StaysOpenable
    BY ChannelStays DEF Dialogue
  <2> HIDE DEF Side, Letters, Out, Read
  <2> QED BY <1>2, <1>3, <1>4, <2>1 DEF Ch!StaysOpenable
<1> DEFINE x == Letter(m)
<1>6. x.dh = env[m].dh /\ x.pn = env[m].pn /\ x.n = env[m].n /\ x.key = env[m].key
  BY LetterHeader
<1> HIDE DEF x, Side
<1>7. Ch!Outcome(Side(d), x, Fresh(d)) = Outcome(Side(d), env[m], Fresh(d))
  BY <1>6, AttemptSame
<1> QED BY <1>5, <1>7 DEF x

\* So no session is cleared.
LEMMA NoneCleared ==
    ASSUME NEW e \in Devs, Core, Dialogue(e), NEW d \in Devs, NEW m \in SentTo(d),
           Arrives(d, m)
    PROVE  ~Clears(d, m)
BY ArrivedOpens DEF Clears, Side

\* The steps of a receiver other than to open.
LEMMA ReceiverTalks ==
    ASSUME IInv, Core, NEW e \in Devs, Dialogue(e), NEW d \in Devs,
           \/ WipeKey(d) \/ Show(d) \/ CommitTerminal(d) \/ LoadHistory(d)
           \/ \E m \in SentTo(d) : \/ Ack(d, m) \/ AckLost(d, m) \/ ReadReceipt(d, m)
                                   \/ Fail(d, m)
    PROVE  SameHand /\ Read' = Read /\ ReadOnce' /\ cleared' = cleared
<1>0. /\ recv \in [Devs -> Recvs] /\ tracked \in [Devs -> IdSets] /\ ReadOnce
      /\ \A f \in Devs : recv[f].pc = "shown" => recv[f].msg \in shown
  <2>1. recv \in [Devs -> Recvs] /\ tracked \in [Devs -> IdSets]
    BY DEF IInv, ReceiverTypes
  <2>2. \A f \in Devs : recv[f].pc = "shown" => recv[f].msg \in shown
    BY DEF IInv, ShownFirst
  <2> QED BY <2>1, <2>2 DEF Dialogue
<1> USE DEF sessions, items, outbound, server, inbound, history, bounds
<1>1. CASE WipeKey(d)
  <2>1. /\ recv[d].pc = "booted" /\ recv' = [recv EXCEPT ![d].pc = "opened"]
        /\ UNCHANGED <<session, generated, inits, env, work, bubble, shown, tracked, cleared>>
    BY <1>1 DEF WipeKey
  <2>2. \A f \in Devs : IF f = d THEN recv'[f] = [recv[f] EXCEPT !.pc = "opened"]
                        ELSE recv'[f] = recv[f]
    BY <1>0, <2>1
  <2>3. recv'[d].pc = "opened" /\ recv'[d].msg = recv[d].msg
    BY <1>0, <2>2 DEF Recvs
  <2>4. Read' = Read
    BY <2>1, <2>2, <2>3 DEF Read
  <2>5. ReadOnce'
    BY <1>0, <2>1, <2>2, <2>3 DEF ReadOnce, SentTo
  <2> QED BY <2>1, <2>4, <2>5 DEF SameHand, AtWork
<1>2. CASE Show(d)
  <2>1. /\ recv[d].pc = "opened" /\ recv' = [recv EXCEPT ![d].pc = "shown"]
        /\ shown' = shown \cup {recv[d].msg}
        /\ UNCHANGED <<session, generated, inits, env, work, bubble, tracked, cleared>>
    BY <1>2 DEF Show
  <2>2. \A f \in Devs : IF f = d THEN recv'[f] = [recv[f] EXCEPT !.pc = "shown"]
                        ELSE recv'[f] = recv[f]
    BY <1>0, <2>1
  <2>3. recv'[d].pc = "shown" /\ recv'[d].msg = recv[d].msg
    BY <1>0, <2>2 DEF Recvs
  <2>4. Read' = Read
    BY <2>1, <2>2, <2>3 DEF Read
  <2>5. ReadOnce'
    <3>1. recv[d].msg \in SentTo(d)
      BY <1>0, <2>1 DEF ReadOnce
    <3>2. \A f \in Devs : recv'[f].pc # "idle" => recv'[f].msg \in SentTo(f)
      BY <1>0, <2>2, <2>3, <3>1 DEF ReadOnce
    <3>3. \A m \in shown' : \E f \in Devs : /\ m \in SentTo(f)
                                            /\ \/ m \in tracked'[f].done
                                               \/ recv'[f].pc = "shown" /\ recv'[f].msg = m
      <4>1. ASSUME NEW m \in shown
            PROVE  \E f \in Devs : /\ m \in SentTo(f)
                                   /\ \/ m \in tracked'[f].done
                                      \/ recv'[f].pc = "shown" /\ recv'[f].msg = m
        BY <1>0, <2>1, <2>2, <2>3 DEF ReadOnce
      <4> QED BY <2>1, <2>3, <3>1, <4>1
    <3> QED BY <3>2, <3>3 DEF ReadOnce, SentTo
  <2> QED BY <2>1, <2>4, <2>5 DEF SameHand, AtWork
<1>3. CASE CommitTerminal(d)
  <2>1. /\ recv[d].pc = "shown" /\ recv' = [recv EXCEPT ![d] = NoRecv]
        /\ tracked' = [tracked EXCEPT ![d] =
              [done |-> tracked[d].done \cup {recv[d].msg},
               ack |-> tracked[d].ack \cup {recv[d].msg}]]
        /\ UNCHANGED <<session, generated, inits, env, work, bubble, shown, cleared>>
    BY <1>3 DEF CommitTerminal, Track
  <2>2. /\ recv'[d].pc = "idle" /\ tracked'[d].done = tracked[d].done \cup {recv[d].msg}
        /\ \A f \in Devs \ {d} : recv'[f] = recv[f] /\ tracked'[f] = tracked[f]
    BY <1>0, <2>1 DEF NoRecv
  <2>3. recv[d].msg \in shown
    BY <1>0, <2>1
  <2>4. Read' = Read
    BY <2>1, <2>2, <2>3 DEF Read
  <2>5. ReadOnce'
    BY <1>0, <2>1, <2>2 DEF ReadOnce, SentTo
  <2> QED BY <2>1, <2>4, <2>5 DEF SameHand, AtWork
<1>4. CASE LoadHistory(d)
  <2>1. /\ tracked' = [tracked EXCEPT ![d] = Restored(d)]
        /\ UNCHANGED <<session, generated, inits, env, work, bubble, shown, recv, cleared>>
    BY <1>4 DEF LoadHistory
  <2>2. \A f \in Devs : tracked[f].done \subseteq tracked'[f].done
    BY <1>0, <2>1 DEF Restored
  <2>3. Read' = Read
    BY <2>1 DEF Read
  <2>4. ReadOnce'
    BY <1>0, <2>1, <2>2 DEF ReadOnce, SentTo
  <2> QED BY <2>1, <2>3, <2>4 DEF SameHand, AtWork
<1>5. ASSUME NEW m \in SentTo(d), Ack(d, m) \/ AckLost(d, m) \/ ReadReceipt(d, m)
      PROVE  SameHand /\ Read' = Read /\ ReadOnce' /\ cleared' = cleared
  <2>1. /\ tracked' = tracked \/ tracked' = [tracked EXCEPT ![d] =
                                               [tracked[d] EXCEPT !.ack = @ \ {m}]]
        /\ UNCHANGED <<session, generated, inits, env, work, bubble, shown, recv, cleared>>
    BY <1>5 DEF Ack, AckLost, ReadReceipt, Track
  <2>2. \A f \in Devs : tracked[f].done \subseteq tracked'[f].done
    BY <1>0, <2>1 DEF IdSets
  <2>3. Read' = Read
    BY <2>1 DEF Read
  <2>4. ReadOnce'
    BY <1>0, <2>1, <2>2 DEF ReadOnce, SentTo
  <2> QED BY <2>1, <2>3, <2>4 DEF SameHand, AtWork
<1>6. ASSUME NEW m \in SentTo(d), Fail(d, m)
      PROVE  SameHand /\ Read' = Read /\ ReadOnce' /\ cleared' = cleared
  <2>1. Arrives(d, m)
    BY <1>6 DEF Fail
  <2>2. ~Clears(d, m)
    BY <2>1, NoneCleared
  <2>3. UNCHANGED <<session, generated, inits, env, work, bubble, shown, recv, tracked, cleared>>
    BY <1>6, <2>2 DEF Fail
  <2>4. Read' = Read /\ ReadOnce'
    BY <1>0, <2>3 DEF Read, ReadOnce, SentTo
  <2> QED BY <2>3, <2>4 DEF SameHand, AtWork
<1> QED BY <1>1, <1>2, <1>3, <1>4, <1>5, <1>6

-----------------------------------------------------------------------------
(* A receipt.                                                              *)

\* What Decrypt and Bootstrap have in common: the session, stored or made for it, opens
\* the message and goes on as "t".
Receipt(e, d, m, t, pc) ==
    /\ Arrives(d, m) /\ t \in Sessions /\ t.cks # NoChain
    /\ Opens(Side(d), env[m], Fresh(d)) /\ t = AfterDecrypt(Side(d), env[m], Fresh(d))
    /\ t.dhs = Fresh(d) \/ t.dhs = Side(d).dhs
    /\ IsDhStep(Side(d), env[m]) /\ Stored(Side(d), env[m]) = {} =>
          Keys(Skip(Side(d), env[m].pn).skipped) \subseteq Keys(t.skipped)
    /\ d = e => t.rk[1] = session[e].rk[1]
    /\ d # e => session[d] # NoSession \/ m = FirstOf(e)
    /\ Advance(d, t)
    /\ pc \in {"opened", "booted"} /\ recv' = [recv EXCEPT ![d] = [pc |-> pc, msg |-> m]]
    /\ UNCHANGED <<inits, work, env, bubble, shown, tracked>>

\* It is a receipt of the channel.
LEMMA ReceiptMaps ==
    ASSUME IInv, Core, NEW e \in Devs, Dialogue(e), NEW d \in Devs, NEW m \in SentTo(d),
           NEW t, NEW pc, Receipt(e, d, m, t, pc)
    PROVE  Ch!Receive(d, Letter(m)) /\ Letter(m) \in Letters(Out)
           /\ Side(d)' = t /\ session'[d] = t /\ Side(Peer(d))' = Side(Peer(d))
           /\ session'[Peer(d)] = session[Peer(d)] /\ Read' = Read \cup {m}
<1> DEFINE s == Side(d)
           x == Letter(m)
<1>a. /\ Arrives(d, m) /\ t \in Sessions /\ Opens(s, env[m], Fresh(d))
      /\ t = AfterDecrypt(s, env[m], Fresh(d))
      /\ session' = [session EXCEPT ![d] = t]
      /\ pc \in {"opened", "booted"} /\ recv' = [recv EXCEPT ![d] = [pc |-> pc, msg |-> m]]
      /\ UNCHANGED <<inits, work, env, bubble, shown, tracked>>
  BY DEF Receipt, Advance
<1>b. IsDhStep(s, env[m]) /\ Stored(s, env[m]) = {} =>
          Keys(Skip(s, env[m].pn).skipped) \subseteq Keys(t.skipped)
  BY DEF Receipt
<1>0. /\ session \in [Devs -> Sessions \cup {NoSession}] /\ recv \in [Devs -> Recvs]
      /\ Standing /\ ReadOnce
  BY DEF Core, StoreTypes, IInv, ReceiverTypes, Dialogue
<1>1. /\ m \in Ids /\ m[1] = Peer(d) /\ m \in Out /\ session[Peer(d)] \in Sessions
      /\ recv[d].pc = "idle"
  BY <1>0, <1>a, ArrivedNew
<1>2. Peer(d) \in Devs /\ Peer(d) # d /\ Devs = {d, Peer(d)}
  BY TwoDevs
<1>4. session'[d] = t /\ session'[Peer(d)] = session[Peer(d)]
  BY <1>0, <1>2, <1>a
<1>5. t # NoSession /\ session[Peer(d)] # NoSession
  BY <1>1, <1>a, SessionAssumption
<1>6. Side(d)' = t /\ Side(Peer(d))' = Side(Peer(d))
  BY <1>4, <1>5 DEF Side
<1>7. [p \in Devs |-> Side(p)]' = [[p \in Devs |-> Side(p)] EXCEPT ![d] = t]
  <2>1. \A p \in Devs : Side(p)' = IF p = d THEN t ELSE Side(p)
    BY <1>2, <1>6
  <2> HIDE DEF Side
  <2> QED BY <2>1
<1>8. Read' = Read \cup {m}
  <2>1. recv'[d] = [pc |-> pc, msg |-> m] /\ recv'[Peer(d)] = recv[Peer(d)]
    BY <1>0, <1>2, <1>a
  <2>2. recv'[d].pc # "idle" /\ recv'[d].msg = m
    BY <1>a, <2>1
  <2>3. ASSUME NEW y \in Read'
        PROVE  y \in Read \cup {m}
    BY <1>2, <1>a, <2>1, <2>2 DEF Read
  <2>4. ASSUME NEW y \in Read \cup {m}
        PROVE  y \in Read'
    BY <1>1, <1>2, <1>a, <2>1, <2>2 DEF Read
  <2> QED BY <2>3, <2>4
<1>9. \A y : Letter(y)' = Letter(y)
  BY <1>a DEF Letter
<1>10. Letters(Read)' = Letters(Read) \cup {Letter(m)}
  BY <1>8, <1>9 DEF Letters
<1>11. Out' = Out
  BY <1>a DEF Out, AtWork
<1>12. Letters(Out)' = Letters(Out)
  BY <1>9, <1>11 DEF Letters
<1>13. Letter(m).from = Ch!Other(d) /\ Letter(m) \in Letters(Out)
  BY <1>1, OtherIsPeer, LetterHeader DEF Letters
<1>14. Ch!Fresh(d) = Fresh(d)
  BY <1>0, FreshSame
<1> HIDE DEF s, x
<1>c. x.dh = env[m].dh /\ x.pn = env[m].pn /\ x.n = env[m].n /\ x.key = env[m].key
  BY LetterHeader DEF x
<1>15. /\ Ch!Opens(s, x, Fresh(d)) /\ Ch!AfterDecrypt(s, x, Fresh(d)) = t
       /\ Ch!IsDhStep(s, x) = IsDhStep(s, env[m]) /\ Ch!Stored(s, x) = Stored(s, env[m])
  <2>1. /\ Ch!Outcome(s, x, Fresh(d)) = Outcome(s, env[m], Fresh(d))
        /\ Ch!AfterDecrypt(s, x, Fresh(d)) = AfterDecrypt(s, env[m], Fresh(d))
        /\ Ch!IsDhStep(s, x) = IsDhStep(s, env[m]) /\ Ch!Stored(s, x) = Stored(s, env[m])
    BY <1>c, AttemptSame
  <2> QED BY <1>a, <2>1 DEF Opens, Ch!Opens
<1>16. Ch!IsDhStep(s, x) /\ Ch!Stored(s, x) = {} =>
          Ch!Keys(Ch!Skip(s, x.pn).skipped) \subseteq Ch!Keys(t.skipped)
  <2>1. Ch!Skip(s, x.pn) = Skip(s, env[m].pn)
    BY <1>c, SkipSame
  <2>2. \A q : Ch!Keys(q) = Keys(q)
    BY DEF Ch!Keys, Keys
  <2> QED BY <1>15, <1>b, <2>1, <2>2
<1>17. [p \in Devs |-> Side(p)][d] = s
  BY DEF s
<1> HIDE DEF Side, Letters, Out, Read
<1>18. Ch!Receive(d, x)
  BY <1>7, <1>10, <1>12, <1>13, <1>14, <1>15, <1>16, <1>17 DEF Ch!Receive, x
<1> QED BY <1>4, <1>6, <1>8, <1>13, <1>18 DEF x

\* The dialogue goes on.
LEMMA ReceiptTalks ==
    ASSUME IInv, Core, NEW e \in Devs, InOrder, Dialogue(e), NEW d \in Devs,
           NEW m \in SentTo(d), NEW t, NEW pc, Receipt(e, d, m, t, pc)
    PROVE  InOrder' /\ Dialogue(e)'
<1>a. /\ Arrives(d, m) /\ t \in Sessions /\ t.cks # NoChain /\ Advance(d, t)
      /\ t.dhs = Fresh(d) \/ t.dhs = Side(d).dhs
      /\ d = e => t.rk[1] = session[e].rk[1]
      /\ d # e => session[d] # NoSession \/ m = FirstOf(e)
      /\ pc \in {"opened", "booted"} /\ recv' = [recv EXCEPT ![d] = [pc |-> pc, msg |-> m]]
      /\ UNCHANGED <<inits, work, env, bubble, shown, tracked>>
  BY DEF Receipt
<1>0. /\ recv \in [Devs -> Recvs] /\ Standing /\ ReadOnce /\ Opening(e)
      /\ generated \in [Devs -> Nat]
  BY DEF IInv, ReceiverTypes, Dialogue, Core, StoreTypes
<1>1. /\ m \in Ids /\ m \in SentTo(d) /\ recv[d].pc = "idle" /\ AtWork(d) = {}
  BY <1>0, <1>a, ArrivedNew
<1>2. Peer(d) \in Devs /\ Peer(d) # d /\ Devs = {d, Peer(d)}
  BY TwoDevs
<1>3. /\ Ch!Receive(d, Letter(m)) /\ Letter(m) \in Letters(Out) /\ Side(d)' = t
      /\ session'[d] = t /\ Side(Peer(d))' = Side(Peer(d))
      /\ session'[Peer(d)] = session[Peer(d)] /\ Read' = Read \cup {m}
  BY ReceiptMaps
<1>4. Ch!JInv(e)'
  <2>1. Ch!Next
    BY <1>3 DEF Ch!Next
  <2> QED BY <2>1, ChannelStep DEF Dialogue
<1>5. t # NoSession
  BY <1>a, SessionAssumption
<1>6. \A f \in Devs : AtWork(f)' = AtWork(f)
  BY <1>a DEF AtWork
<1>7. Opening(e)'
  <2>1. session'[e] # NoSession /\ session'[e].rk[1] = session[e].rk[1]
    BY <1>0, <1>2, <1>3, <1>5, <1>a DEF Opening
  <2>2. session'[Peer(e)] # NoSession => FirstOf(e) \in Read'
    <3>1. CASE d = e
      BY <1>0, <1>3, <3>1 DEF Opening
    <3>2. CASE d # e
      <4>1. Peer(e) = d
        BY <1>2, <3>2, TwoDevs
      <4> QED BY <1>0, <1>3, <1>a, <3>2, <4>1 DEF Opening
    <3> QED BY <3>1, <3>2
  <2> QED BY <1>0, <1>a, <2>1, <2>2 DEF Opening, FirstOf, SentBy
<1>8. Standing'
  <2>1. ASSUME NEW f \in Devs
        PROVE  /\ generated'[f] = Side(f)'.dhs[2]
               /\ session'[f] # NoSession => CanEncrypt(session'[f])
    <3>1. CASE f = d
      <4>1. generated'[d] = IF t.dhs = Fresh(d) THEN generated[d] + 1 ELSE generated[d]
        BY <1>0, <1>a DEF Advance
      <4>2. Fresh(d)[2] = generated[d] + 1
        BY DEF Fresh
      <4>3. generated'[d] = t.dhs[2]
        BY <1>0, <1>a, <4>1, <4>2 DEF Standing
      <4> QED BY <1>3, <1>a, <3>1, <4>3 DEF CanEncrypt
    <3>2. CASE f = Peer(d)
      <4>1. generated'[f] = generated[f]
        BY <1>0, <1>2, <1>a, <3>2 DEF Advance
      <4> QED BY <1>0, <1>3, <3>2, <4>1 DEF Standing, CanEncrypt
    <3> QED BY <1>2, <3>1, <3>2
  <2>2. ASSUME NEW f \in Devs, NEW x \in AtWork(f)'
        PROVE  /\ [env'[x] EXCEPT !.x3dh = NoX3dh] = Sealed(session'[f], NoX3dh)
               /\ \A y \in SentBy(f) : bubble'[y] # "none" <=> y[2] <= x[2]
    <3>1. x \in AtWork(f) /\ f = Peer(d)
      BY <1>1, <1>2, <1>6, <2>2
    <3>2. session'[f] = session[f] /\ env' = env /\ bubble' = bubble
      BY <1>3, <1>a, <3>1
    <3>3. /\ [env[x] EXCEPT !.x3dh = NoX3dh] = Sealed(session[f], NoX3dh)
          /\ \A y \in SentBy(f) : bubble[y] # "none" <=> y[2] <= x[2]
      BY <1>0, <3>1 DEF Standing
    <3> QED BY <3>2, <3>3
  <2> QED BY <2>1, <2>2 DEF Standing, SentBy
<1>9. ReadOnce'
  <2>1. recv'[d] = [pc |-> pc, msg |-> m] /\ recv'[Peer(d)] = recv[Peer(d)]
    BY <1>0, <1>2, <1>a
  <2>2. recv'[d].pc # "shown" /\ recv'[d].pc # "idle" /\ recv'[d].msg = m
    BY <1>a, <2>1
  <2>3. \A f \in Devs : recv'[f].pc # "idle" => recv'[f].msg \in SentTo(f)
    BY <1>0, <1>1, <1>2, <2>1, <2>2 DEF ReadOnce
  <2>4. ASSUME NEW x \in shown
        PROVE  \E f \in Devs : /\ x \in SentTo(f)
                               /\ \/ x \in tracked[f].done
                                  \/ recv'[f].pc = "shown" /\ recv'[f].msg = x
    BY <1>0, <1>1, <1>2, <2>1 DEF ReadOnce
  <2> QED BY <1>a, <2>3, <2>4 DEF ReadOnce, SentTo
<1>10. InOrder'
  BY <1>a DEF InOrder
<1> QED BY <1>4, <1>7, <1>8, <1>9, <1>10 DEF Dialogue

\* The stored session opens a message, and evicts no key.
LEMMA DecryptIsReceipt ==
    ASSUME IInv, Core, NEW e \in Devs, Dialogue(e), NEW d \in Devs, NEW m \in SentTo(d),
           Decrypt(d, m), forgotten' = {}
    PROVE  Receipt(e, d, m, AfterDecrypt(session[d], env[m], Fresh(d)), "opened")
<1> DEFINE s == session[d]
           t == AfterDecrypt(s, env[m], Fresh(d))
<1>1. /\ Arrives(d, m) /\ s # NoSession /\ Opens(s, env[m], Fresh(d)) /\ Advance(d, t)
      /\ recv' = [recv EXCEPT ![d] = [pc |-> "opened", msg |-> m]]
      /\ Dropped(s, env[m]) = {}
      /\ UNCHANGED <<inits, work, env, bubble, shown, tracked>>
  BY DEF Decrypt, Decrypts, outbound
<1>2. /\ s \in Sessions /\ Fresh(d) \in KeyPairs /\ env[m] \in Envelopes
  BY <1>1, ArrivedWritten DEF Core, StoreTypes, Fresh, KeyPairs
<1>3. Side(d) = s
  BY <1>1 DEF Side
<1>4. s.cks # NoChain
  BY <1>1 DEF Dialogue, Standing, CanEncrypt
<1>5. Len(s.rk) > 0
  <2>1. [p \in Devs |-> Side(p)][d] = s
    BY <1>3
  <2>2. Ch!Alternation(e)
    BY DEF Dialogue, Ch!JInv, Ch!Meeting
  <2>3. s.cks # Ch!NoChain => Len(s.rk) >= 2
    <3> HIDE DEF Side, s
    <3> QED BY <2>1, <2>2 DEF Ch!Alternation
  <2>4. s.rk \in Chains
    BY <1>2 DEF Sessions
  <2>5. Len(s.rk) \in Nat
    BY <2>4, LenProperties DEF Chains
  <2> QED BY <1>4, <2>3, <2>5 DEF Ch!NoChain, NoChain
<1> HIDE DEF s
<1>6. /\ t.rk[1] = s.rk[1] /\ t.cks \in {s.cks, t.rk} /\ Len(t.rk) > 0
  BY <1>2, <1>5, RootSecret
<1>7. t \in Sessions /\ (t.dhs = Fresh(d) \/ t.dhs = s.dhs)
  BY <1>1, <1>2, DecryptType DEF SameSide, NewSide
<1>8. t.cks # NoChain
  BY <1>4, <1>6 DEF NoChain
<1>9. IsDhStep(s, env[m]) /\ Stored(s, env[m]) = {} =>
          Keys(Skip(s, env[m].pn).skipped) \subseteq Keys(t.skipped)
  BY <1>1, <1>2, StepStores DEF Dropped
<1> HIDE DEF t
<1>10. Receipt(e, d, m, t, "opened")
  BY <1>1, <1>3, <1>6, <1>7, <1>8, <1>9 DEF Receipt, s, t
<1> QED BY <1>10 DEF s, t

\* A session is made only for the first message, by a device that has none.
LEMMA BootstrapIsReceipt ==
    ASSUME IInv, Core, NEW e \in Devs, Dialogue(e), NEW d \in Devs, NEW m \in SentTo(d),
           Bootstrap(d, m)
    PROVE  Receipt(e, d, m, AfterDecrypt(Side(d), env[m], Fresh(d)), "booted")
<1> DEFINE x == env[m].x3dh
           s == InitReceiver(x, Spk(d))
           t == AfterDecrypt(s, env[m], Fresh(d))
<1>1. /\ Arrives(d, m) /\ x # NoX3dh /\ Opens(s, env[m], Fresh(d)) /\ Advance(d, t)
      /\ recv' = [recv EXCEPT ![d] = [pc |-> "booted", msg |-> m]]
      /\ UNCHANGED <<inits, work, env, bubble, shown, tracked>>
  BY DEF Bootstrap, Bootstraps, outbound
<1>2. /\ m \in Ids /\ m[1] = Peer(d) /\ m \in Out /\ m \notin Read /\ env[m] \in Envelopes
  BY <1>1, ArrivedNew DEF Dialogue
<1>3. m = FirstOf(e) /\ x = session[e].rk[1]
  BY <1>1, <1>2 DEF Dialogue, Opening, Out
<1>4. d # e /\ d = Peer(e)
  <2>1. Peer(d) = e
    BY <1>2, <1>3 DEF FirstOf
  <2> QED BY <2>1, TwoDevs
<1>5. session[d] = NoSession
  BY <1>2, <1>3, <1>4 DEF Dialogue, Opening
<1>6. Side(d) = s
  <2>1. Peer(d) = e
    BY <1>4, TwoDevs
  <2> QED BY <1>3, <1>5, <2>1 DEF Side
<1>7. x \in Secrets /\ Spk(d) \in KeyPairs /\ Fresh(d) \in KeyPairs
  BY <1>1, <1>2 DEF Envelopes, Spk, KeyPairs, Core, StoreTypes, Fresh
<1>8. /\ s \in Sessions /\ s.dhr = NoPub /\ s.skipped = << >> /\ s.ckr = NoChain
      /\ Len(s.rk) = 1 /\ s.rk[1] = x
  <2>1. <<x>> \in Chains /\ NoChain \in Chains /\ << >> \in Seq(Entries)
    BY <1>7, EmptySeq DEF NoChain, Chains
  <2>2. /\ s.dhs = Spk(d) /\ s.dhr = NoPub /\ s.rk = <<x>> /\ s.cks = NoChain
        /\ s.ckr = NoChain /\ s.ns = 0 /\ s.nr = 0 /\ s.pn = 0 /\ s.skipped = << >>
    BY DEF InitReceiver
  <2>3. s \in Sessions
    BY <1>7, <2>1 DEF InitReceiver, Sessions, Entries
  <2> QED BY <2>2, <2>3
<1>9. IsDhStep(s, env[m]) /\ Stored(s, env[m]) = {}
  <2>1. Len(s.skipped) = 0
    BY <1>8, EmptySeq
  <2> QED BY <1>8, <2>1 DEF IsDhStep, Stored
<1>10. t \in Sessions /\ t.dhs = Fresh(d)
  BY <1>1, <1>2, <1>7, InitReceiverType DEF NewSide
<1> HIDE DEF s, x
<1>11. Len(t.rk) > 0 /\ t.cks = t.rk
  BY <1>2, <1>7, <1>8, <1>9, RootSecret
<1>12. t.cks # NoChain
  BY <1>11 DEF NoChain
<1>13. Keys(Skip(s, env[m].pn).skipped) \subseteq Keys(t.skipped)
  <2>1. Skip(s, env[m].pn) = s
    BY <1>8 DEF Skip
  <2>2. Len(s.skipped) = 0
    BY <1>8, EmptySeq
  <2>3. Keys(s.skipped) = {}
    BY <2>2 DEF Keys
  <2> QED BY <2>1, <2>3
<1> HIDE DEF t
<1>14. Receipt(e, d, m, t, "booted")
  BY <1>1, <1>3, <1>4, <1>6, <1>10, <1>12, <1>13 DEF Receipt, s, t
<1> QED BY <1>6, <1>14 DEF t

-----------------------------------------------------------------------------
(* A message is sealed.                                                    *)

\* A message is out only when the session after it is saved.
LEMMA EnqueueTalks ==
    ASSUME IInv, Core, NEW e \in Devs, InOrder, Dialogue(e), NEW d \in Devs, Enqueue(d)
    PROVE  InOrder' /\ Dialogue(e)' /\ UNCHANGED Ch!vars
<1> USE DEF sessions, server, inbound, history, bounds
<1>1. PICK m \in SentBy(d) :
         /\ bubble[m] = "none" /\ \A x \in SentBy(d) : x[2] < m[2] => bubble[x] # "none"
         /\ bubble' = [bubble EXCEPT ![m] = "sending"]
         /\ env' = [env EXCEPT ![m] = Sealed(session[d], work[d].x3dh)]
         /\ work' = [work EXCEPT ![d].pc = "queued", ![d].msg = m]
  BY DEF Enqueue
<1>2. /\ work[d].pc = "ready"
      /\ UNCHANGED <<session, generated, inits, cleared>> /\ UNCHANGED inbound
  BY DEF Enqueue
<1>3. /\ work \in [Devs -> Works] /\ bubble \in [Ids -> Bubbles]
      /\ env = [y \in Ids |-> env[y]] /\ Opening(e) /\ Standing /\ ReadOnce
      /\ \A f \in Devs : AtWork(f) \subseteq SentBy(f)
  BY DEF IInv, SenderTypes, Core, StoreTypes, Dialogue, Written, Alive
<1>4. m \in Ids /\ m[1] = d
  BY DEF SentBy
<1>5. /\ bubble'[m] = "sending" /\ env'[m] = Sealed(session[d], work[d].x3dh)
      /\ \A x \in Ids \ {m} : bubble'[x] = bubble[x] /\ env'[x] = env[x]
  BY <1>1, <1>3, <1>4
<1>6. /\ work'[d] = [work[d] EXCEPT !.pc = "queued", !.msg = m]
      /\ \A f \in Devs \ {d} : work'[f] = work[f]
  BY <1>1, <1>3
<1>7. work'[d].pc = "queued" /\ work'[d].msg = m /\ work'[d].x3dh = work[d].x3dh
  BY <1>3, <1>6 DEF Works
<1>8. AtWork(d) = {} /\ AtWork(d)' = {m} /\ \A f \in Devs \ {d} : AtWork(f)' = AtWork(f)
  BY <1>2, <1>4, <1>6, <1>7 DEF AtWork
<1>9. Out' = Out /\ m \notin Out
  <2>1. m \notin Out /\ m \notin Out'
    BY <1>1, <1>4, <1>8 DEF Out
  <2>2. ASSUME NEW x \in Ids \ {m}
        PROVE  x \in Out' <=> x \in Out
    <3>1. x[1] \in Devs
      BY IdParts
    <3>2. x \in AtWork(x[1])' <=> x \in AtWork(x[1])
      BY <1>8, <3>1
    <3> QED BY <1>5, <3>2 DEF Out
  <2> QED BY <2>1, <2>2 DEF Out
<1>10. Read' = Read /\ ReadOnce'
  BY <1>2, <1>3, InboundStill
<1>11. Read \subseteq Out /\ Out \subseteq Ids
  BY ReadOut DEF Out
<1>12. \A x \in Out : Letter(x)' = Letter(x)
  BY <1>5, <1>9, <1>11 DEF Letter
<1>13. Letters(Out)' = Letters(Out) /\ Letters(Read)' = Letters(Read)
  BY <1>9, <1>10, <1>11, <1>12 DEF Letters
<1>14. UNCHANGED Ch!vars
  BY <1>2, <1>13, ChannelStill
<1>15. Ch!JInv(e)'
  BY <1>14, ChannelStep DEF Dialogue
<1>16. \A x \in SentBy(d) : x \in Ids /\ x[1] = d /\ x[2] \in Nat
                            /\ (x[2] = m[2] => x = m)
  BY <1>4, IdParts DEF SentBy
<1>17. InOrder'
  BY <1>1, <1>4, <1>5 DEF InOrder, SentBy
<1>18. Opening(e)'
  <2>1. ASSUME work[d].x3dh # NoX3dh
        PROVE  d = e /\ work[d].x3dh = session[e].rk[1] /\ m = FirstOf(e)
    <3>1. d = e /\ work[d].x3dh = session[e].rk[1] /\ \A x \in SentBy(d) : bubble[x] = "none"
      BY <1>2, <1>3, <2>1 DEF Opening
    <3>2. <<d, 1>> \in SentBy(d)
      <4>1. 1 \in 1..Sends[d]
        BY <1>4, IdParts, MessagesAssumption
      <4> QED BY <4>1 DEF SentBy, Ids
    <3>3. m[2] \in 1..Sends[d] /\ m = <<d, m[2]>>
      BY <1>4, IdParts
    <3>4. ~(1 < m[2])
      BY <1>1, <3>1, <3>2
    <3>5. m[2] = 1
      BY <3>3, <3>4, MessagesAssumption
    <3> QED BY <3>1, <3>3, <3>5 DEF FirstOf
  <2>2. Sealed(session[d], work[d].x3dh).x3dh = work[d].x3dh
    BY DEF Sealed
  <2>3. ASSUME NEW x \in Ids, bubble'[x] # "none", env'[x].x3dh # NoX3dh
        PROVE  x = FirstOf(e) /\ env'[x].x3dh = session[e].rk[1]
    <3>1. CASE x = m
      BY <1>5, <2>1, <2>2, <2>3, <3>1
    <3>2. CASE x # m
      BY <1>3, <1>5, <2>3, <3>2 DEF Opening
    <3> QED BY <3>1, <3>2
  <2>4. ASSUME NEW f \in Devs, work'[f].x3dh # NoX3dh
        PROVE  /\ f = e /\ work'[f].x3dh = session[e].rk[1] /\ work'[f].pc \in {"ready", "queued"}
               /\ work'[f].pc = "ready" => \A x \in SentBy(f) : bubble'[x] = "none"
    <3>1. CASE f = d
      BY <1>7, <2>1, <2>4, <3>1
    <3>2. CASE f # d
      <4>1. f = e /\ work'[f] = work[f]
        BY <1>3, <1>6, <2>4, <3>2 DEF Opening
      <4>2. \A x \in SentBy(f) : x \in Ids \ {m}
        BY <1>4, <3>2 DEF SentBy
      <4> QED BY <1>3, <1>5, <2>4, <4>1, <4>2 DEF Opening
    <3> QED BY <3>1, <3>2
  <2> QED BY <1>2, <1>3, <1>10, <2>3, <2>4 DEF Opening, FirstOf, SentBy
<1>19. Standing'
  <2>1. \A f \in Devs : /\ generated'[f] = Side(f)'.dhs[2]
                        /\ session'[f] # NoSession => CanEncrypt(session'[f])
    BY <1>2, <1>3 DEF Standing, Side
  <2>2. ASSUME NEW f \in Devs, NEW y \in AtWork(f)'
        PROVE  /\ [env'[y] EXCEPT !.x3dh = NoX3dh] = Sealed(session'[f], NoX3dh)
               /\ \A x \in SentBy(f) : bubble'[x] # "none" <=> x[2] <= y[2]
    <3>1. CASE f = d
      <4>1. y = m /\ session'[f] = session[d]
        BY <1>2, <1>8, <2>2, <3>1
      <4>2. [Sealed(session[d], work[d].x3dh) EXCEPT !.x3dh = NoX3dh]
              = Sealed(session[d], NoX3dh)
        BY DEF Sealed
      <4>3. ASSUME NEW x \in SentBy(d)
            PROVE  bubble'[x] # "none" <=> x[2] <= m[2]
        <5>1. CASE x[2] < m[2]
          BY <1>1, <1>5, <1>16, <5>1
        <5>2. CASE x = m
          BY <1>5, <1>16, <5>2
        <5>3. CASE x[2] > m[2]
          BY <1>1, <1>4, <1>5, <1>16, <5>3, InOrder DEF InOrder
        <5> QED BY <1>16, <5>1, <5>2, <5>3
      <4> QED BY <1>5, <3>1, <4>1, <4>2, <4>3
    <3>2. CASE f # d
      <4>1. y \in AtWork(f) /\ session'[f] = session[f] /\ y \in SentBy(f)
        BY <1>2, <1>3, <1>8, <2>2, <3>2
      <4>2. \A x \in SentBy(f) : x \in Ids \ {m}
        BY <1>4, <3>2 DEF SentBy
      <4>3. /\ [env[y] EXCEPT !.x3dh = NoX3dh] = Sealed(session[f], NoX3dh)
            /\ \A x \in SentBy(f) : bubble[x] # "none" <=> x[2] <= y[2]
        BY <1>3, <4>1 DEF Standing
      <4> QED BY <1>5, <4>1, <4>2, <4>3
    <3> QED BY <3>1, <3>2
  <2> QED BY <2>1, <2>2 DEF Standing, SentBy
<1> QED BY <1>10, <1>14, <1>15, <1>17, <1>18, <1>19 DEF Dialogue

\* The earlier messages of a sender are counted by the number of the one it is sending.
LEMMA LettersBefore ==
    ASSUME NEW d \in Devs, NEW m \in SentBy(d),
           \A x \in SentBy(d) : x \in Out <=> x[2] < m[2]
    PROVE  Cardinality({x \in Letters(Out) : x.from = d}) = m[2] - 1
<1> DEFINE n == m[2] - 1
           S == {x \in Letters(Out) : x.from = d}
           f == [k \in 1..n |-> Letter(<<d, k>>)]
<1>1. m \in Ids /\ m[1] = d /\ m[2] \in 1..Sends[d] /\ m[2] \in Nat /\ Sends[d] \in Nat
  BY IdParts, MessagesAssumption DEF SentBy
<1>2. n \in Nat /\ \A k \in 1..n : k \in 1..Sends[d] /\ k < m[2] /\ k \in Nat
  BY <1>1
<1>3. \A k \in 1..n : <<d, k>> \in SentBy(d) /\ <<d, k>> \in Out /\ <<d, k>>[1] = d
                      /\ <<d, k>>[2] = k
  BY <1>1, <1>2 DEF SentBy, Ids
<1>4. f \in [1..n -> S]
  <2>1. ASSUME NEW k \in 1..n
        PROVE  Letter(<<d, k>>) \in S
    BY <1>3, LetterHeader DEF Letters
  <2> QED BY <2>1
<1>5. \A a, b \in 1..n : f[a] = f[b] => a = b
  <2>1. ASSUME NEW a \in 1..n, NEW b \in 1..n, Letter(<<d, a>>) = Letter(<<d, b>>)
        PROVE  a = b
    <3>1. <<d, a>> \in Ids /\ <<d, b>> \in Ids
      BY <1>3 DEF SentBy
    <3> QED BY <2>1, <3>1, LetterOne, <1>3
  <2> QED BY <2>1
<1>6. \A s \in S : \E a \in 1..n : f[a] = s
  <2>1. ASSUME NEW s \in S
        PROVE  \E a \in 1..n : f[a] = s
    <3>1. PICK x \in Out : s = Letter(x)
      BY DEF Letters
    <3>2. x \in Ids /\ x[1] = d
      BY <3>1, LetterHeader DEF Out
    <3>3. x \in SentBy(d) /\ x[2] \in Nat /\ x[2] \in 1..Sends[d] /\ x = <<d, x[2]>>
      BY <3>2, IdParts DEF SentBy
    <3>4. x[2] \in 1..n
      BY <1>1, <3>1, <3>3
    <3> QED BY <3>1, <3>3, <3>4
  <2> QED BY <2>1
<1> HIDE DEF f, S
<1>7. f \in Bijection(1..n, S)
  BY <1>4, <1>5, <1>6 DEF Bijection, Injection, IsInjective, Surjection
<1>8. ExistsBijection(1..n, S)
  BY <1>7 DEF ExistsBijection
<1>9. n \in Nat
  BY <1>1
<1> HIDE DEF n
<1>10. Cardinality(S) = n
  BY <1>8, <1>9, FS_CountingElements
<1> QED BY <1>10 DEF S, n

\* The session moves on with the message it has sealed.
LEMMA CommitTalks ==
    ASSUME IInv, Core, NEW e \in Devs, InOrder, Dialogue(e), NEW d \in Devs, CommitSession(d)
    PROVE  InOrder' /\ Dialogue(e)' /\ Ch!Send(d)
<1> USE DEF items, server, inbound, history, bounds
<1> DEFINE m == work[d].msg
           s == session[d]
           t == AfterEncrypt(s)
<1>1. /\ work[d].pc = "queued" /\ session' = [session EXCEPT ![d] = t]
      /\ work' = [work EXCEPT ![d] = Idle]
      /\ UNCHANGED <<generated, inits, env, bubble, cleared>> /\ UNCHANGED inbound
  BY DEF CommitSession
<1>2. /\ work \in [Devs -> Works] /\ session \in [Devs -> Sessions \cup {NoSession}]
      /\ s \in Sessions /\ m \in Ids /\ Opening(e) /\ Standing /\ ReadOnce
  BY <1>1 DEF IInv, SenderTypes, Core, StoreTypes, Dialogue, Owned
<1>3. AtWork(d) = {m} /\ m \in Alive(d)
  BY <1>1, <1>2 DEF AtWork, Alive
<1>4. m \in SentBy(d) /\ bubble[m] # "none" /\ env[m] \in Envelopes
  BY <1>3 DEF Core, Written
<1>5. work'[d] = Idle /\ \A f \in Devs \ {d} : work'[f] = work[f]
  BY <1>1, <1>2
<1>6. work'[d].pc = "idle" /\ work'[d].x3dh = NoX3dh
  BY <1>5 DEF Idle
<1>7. AtWork(d)' = {} /\ \A f \in Devs \ {d} : AtWork(f)' = AtWork(f)
  BY <1>5, <1>6 DEF AtWork
<1>8. m \in Ids /\ m[1] = d
  BY <1>4 DEF SentBy
<1>9. Out' = Out \cup {m} /\ m \notin Out
  <2>1. m \notin Out /\ m \in Out'
    BY <1>1, <1>3, <1>4, <1>7, <1>8 DEF Out
  <2>2. ASSUME NEW x \in Ids \ {m}
        PROVE  x \in Out' <=> x \in Out
    <3>1. x[1] \in Devs
      BY IdParts
    <3>2. x \in AtWork(x[1])' <=> x \in AtWork(x[1])
      BY <1>3, <1>7, <3>1
    <3> QED BY <1>1, <3>2 DEF Out
  <2> QED BY <2>1, <2>2 DEF Out
<1>10. Read' = Read /\ ReadOnce'
  BY <1>1, <1>2, InboundStill
<1>11. \A x : Letter(x)' = Letter(x)
  BY <1>1 DEF Letter
<1>12. Letters(Out)' = Letters(Out) \cup {Letter(m)} /\ Letters(Read)' = Letters(Read)
  BY <1>9, <1>10, <1>11 DEF Letters
<1>13. s # NoSession /\ t \in Sessions /\ t # NoSession /\ Side(d) = s
  BY <1>2, SessionAssumption, EncryptType DEF Side
<1>14. /\ t.dhs = s.dhs /\ t.cks = s.cks /\ t.rk = s.rk
  BY <1>2 DEF AfterEncrypt, Sessions
<1>15. /\ session'[d] = t /\ \A f \in Devs \ {d} : session'[f] = session[f]
  BY <1>1, <1>2
<1>16. Side(d)' = t
  BY <1>13, <1>15 DEF Side
<1>17. ASSUME NEW f \in Devs \ {d}
       PROVE  Side(f)' = Side(f)
  <2>1. Peer(f) = d
    BY TwoDevs
  <2> QED BY <1>14, <1>15, <2>1 DEF Side
<1>18. [p \in Devs |-> Side(p)]' = [[p \in Devs |-> Side(p)] EXCEPT ![d] = t]
  <2>1. \A p \in Devs : Side(p)' = IF p = d THEN t ELSE Side(p)
    BY <1>16, <1>17
  <2> HIDE DEF Side, t
  <2> QED BY <2>1
<1>19. Ch!Cardinality({x \in Letters(Out) : x.from = d}) = m[2] - 1
  <2>1. ASSUME NEW x \in SentBy(d)
        PROVE  x \in Out <=> x[2] < m[2]
    <3>1. x \in Ids /\ x[1] = d /\ x[2] \in Nat /\ m[2] \in Nat
      BY <1>8, IdParts DEF SentBy
    <3>2. bubble[x] # "none" <=> x[2] <= m[2]
      BY <1>2, <1>3 DEF Standing
    <3>3. x \in Out <=> bubble[x] # "none" /\ x # m
      BY <1>3, <3>1 DEF Out
    <3>4. x = m <=> x[2] = m[2]
      BY <1>8, <3>1, IdParts
    <3> QED BY <3>1, <3>2, <3>3, <3>4
  <2>2. Cardinality({x \in Letters(Out) : x.from = d}) = m[2] - 1
    BY <1>4, <2>1, LettersBefore
  <2> QED BY <2>2, CountSame
<1>20. m[2] - 1 < Longest
  BY <1>8, IdParts, LongestSends, MessagesAssumption
<1>21. Letter(m) = [from |-> d, id |-> m[2] - 1, dh |-> s.dhs, pn |-> s.pn, n |-> s.ns,
                    key |-> <<s.cks, s.ns>>]
  <2>1. [env[m] EXCEPT !.x3dh = NoX3dh] = Sealed(s, NoX3dh)
    BY <1>2, <1>3 DEF Standing
  <2>2. LET v == [env[m] EXCEPT !.x3dh = NoX3dh]
        IN  v.dh = env[m].dh /\ v.pn = env[m].pn /\ v.n = env[m].n /\ v.key = env[m].key
    BY <1>4 DEF Envelopes
  <2>3. LET v == Sealed(s, NoX3dh)
        IN  v.dh = s.dhs /\ v.pn = s.pn /\ v.n = s.ns /\ v.key = <<s.cks, s.ns>>
    BY DEF Sealed, Header, SealKey
  <2>4. env[m].dh = s.dhs /\ env[m].pn = s.pn /\ env[m].n = s.ns /\ env[m].key = <<s.cks, s.ns>>
    <3> HIDE DEF m, s
    <3> QED BY <2>1, <2>2, <2>3
  <2> HIDE DEF m, s
  <2> QED BY <1>8, <2>4 DEF Letter
<1>22. CanEncrypt(s)
  BY <1>2, <1>13 DEF Standing
<1>23. Ch!Send(d)
  <2>1. [p \in Devs |-> Side(p)][d] = s
    BY <1>13
  <2>2. Ch!CanEncrypt(s) /\ Ch!AfterEncrypt(s) = t
    BY <1>22 DEF CanEncrypt, Ch!CanEncrypt, NoChain, Ch!NoChain, AfterEncrypt, Ch!AfterEncrypt
  <2>3. Ch!SentBy(d) = {x \in Letters(Out) : x.from = d}
    BY DEF Ch!SentBy
  <2> HIDE DEF Side, Letters, Out, Read, t, s, m
  <2>4. Ch!Envelope(d) = Letter(m)
    BY <1>19, <1>21, <2>1, <2>3 DEF Ch!Envelope, Ch!Header, Ch!SealKey
  <2>5. UNCHANGED Letters(Read)
    BY <1>12
  <2> QED BY <1>12, <1>18, <1>19, <1>20, <2>1, <2>2, <2>3, <2>4, <2>5 DEF Ch!Send
<1>24. Ch!JInv(e)'
  <2>1. Ch!Next
    BY <1>23 DEF Ch!Next
  <2> QED BY <2>1, ChannelStep DEF Dialogue
<1>25. InOrder'
  BY <1>1 DEF InOrder
<1>26. Opening(e)'
  <2>1. session'[e] # NoSession /\ session'[e].rk[1] = session[e].rk[1]
    BY <1>2, <1>13, <1>14, <1>15 DEF Opening
  <2>2. session'[Peer(e)] # NoSession => FirstOf(e) \in Read'
    <3>1. Peer(e) \in Devs
      BY TwoDevs
    <3> QED BY <1>2, <1>10, <1>13, <1>15, <3>1 DEF Opening
  <2>3. \A f \in Devs : work'[f].x3dh # NoX3dh => work'[f] = work[f]
    BY <1>5, <1>6
  <2> HIDE DEF m, s, t
  <2> QED BY <1>1, <1>2, <2>1, <2>2, <2>3 DEF Opening, FirstOf, SentBy
<1>27. Standing'
  <2>1. ASSUME NEW f \in Devs
        PROVE  /\ generated'[f] = Side(f)'.dhs[2]
               /\ session'[f] # NoSession => CanEncrypt(session'[f])
    <3>1. CASE f = d
      BY <1>1, <1>2, <1>13, <1>14, <1>15, <1>16, <1>22, <3>1 DEF Standing, CanEncrypt
    <3>2. CASE f # d
      BY <1>1, <1>2, <1>15, <1>17, <3>2 DEF Standing
    <3> QED BY <3>1, <3>2
  <2>2. ASSUME NEW f \in Devs, NEW y \in AtWork(f)'
        PROVE  /\ [env'[y] EXCEPT !.x3dh = NoX3dh] = Sealed(session'[f], NoX3dh)
               /\ \A x \in SentBy(f) : bubble'[x] # "none" <=> x[2] <= y[2]
    <3>1. f # d /\ y \in AtWork(f)
      BY <1>7, <2>2
    <3>2. session'[f] = session[f] /\ env' = env /\ bubble' = bubble
      BY <1>1, <1>15, <3>1
    <3>3. /\ [env[y] EXCEPT !.x3dh = NoX3dh] = Sealed(session[f], NoX3dh)
          /\ \A x \in SentBy(f) : bubble[x] # "none" <=> x[2] <= y[2]
      BY <1>2, <3>1 DEF Standing
    <3> QED BY <3>2, <3>3
  <2> QED BY <2>1, <2>2 DEF Standing, SentBy
<1> QED BY <1>10, <1>23, <1>24, <1>25, <1>26, <1>27 DEF Dialogue

-----------------------------------------------------------------------------
(* Before anything is written.                                             *)

\* What is there is nothing.
LEMMA SilentFacts ==
    ASSUME IInv, Core, Silent
    PROVE  /\ Out = {} /\ Read = {} /\ posts = {} /\ shown = {}
           /\ \A m \in Ids : rows[m] = "none"
           /\ \A d \in Devs : /\ queue[d] = {} /\ AtWork(d) = {} /\ recv[d].pc = "idle"
                              /\ work[d].pc \notin {"ready", "queued"}
                              /\ tracked[d].ack = {}
<1>1. Out = {}
  BY DEF Out, Silent
<1>2. \A m \in Ids : rows[m] = "none"
  BY <1>1, OnServer
<1>3. Read = {}
  BY <1>1, ReadOut
<1>4. shown = {} /\ \A d \in Devs : recv[d].pc = "idle"
  BY <1>3 DEF Read
<1>5. posts = {}
  <2>1. ASSUME NEW p \in posts PROVE FALSE
    <3>1. p.id \in Ids
      BY DEF IInv, SenderTypes, Posts
    <3>2. p.id[1] \in Devs /\ p.id \in Posted(p.id[1])
      BY <3>1, IdParts DEF Posted, SentBy
    <3> QED BY <1>1, <3>2, PostedOut
  <2> QED BY <2>1
<1>6. ASSUME NEW d \in Devs
      PROVE  /\ queue[d] = {} /\ AtWork(d) = {} /\ work[d].pc \notin {"ready", "queued"}
             /\ tracked[d].ack = {}
  <2>1. Alive(d) = {}
    BY DEF Core, Written, Silent, SentBy
  <2>2. work[d].pc \notin {"ready", "queued"}
    BY SessionAssumption DEF Core, Owned, Silent
  <2> QED BY <1>4, <2>1, <2>2 DEF Alive, IInv, ShownFirst
<1> QED BY <1>1, <1>2, <1>3, <1>4, <1>5, <1>6

\* The channel begins with what both sides make of one secret.
LEMMA MadeMeets ==
    ASSUME NEW e \in Devs, NEW x \in Secrets
    PROVE  Ch!Made(e, x)' => Ch!JInv(e)'
<1>1. Ch!Made(e, x) => Ch!JInv(e)
  BY Ch!InitMeets, ChannelConstants, SkipAssumption
<1> QED BY <1>1, PTL

\* The first session begins a dialogue.
LEMMA StartTalks ==
    ASSUME IInv, Core, Silent, NEW d \in Devs, StartSession(d)
    PROVE  InOrder' /\ Dialogue(d)' /\ Ch!Init' /\ cleared' = cleared
<1> USE DEF sessions, items, outbound, server, inbound, history, bounds
<1>1. PICK otk \in Bundles :
        LET y == [by |-> d, no |-> inits[d] + 1, otk |-> otk] IN
        /\ session' = [session EXCEPT ![d] = InitSender(y, Fresh(d), Spk(Peer(d)))]
        /\ work' = [work EXCEPT ![d].pc = "ready", ![d].x3dh = y]
  BY DEF StartSession
<1>2. PICK x \in Secrets :
        /\ session' = [session EXCEPT ![d] = InitSender(x, Fresh(d), Spk(Peer(d)))]
        /\ work' = [work EXCEPT ![d].pc = "ready", ![d].x3dh = x]
  <2>1. inits[d] + 1 \in Nat /\ otk \in BOOLEAN
    BY MessagesAssumption DEF IInv, SenderTypes
  <2>2. [by |-> d, no |-> inits[d] + 1, otk |-> otk] \in Secrets
    BY <2>1 DEF Secrets
  <2> QED BY <1>1, <2>2
<1>3. /\ UNCHANGED <<env, bubble, cleared, inbound>> /\ d \in Openers
      /\ generated' = [generated EXCEPT ![d] = @ + 1] /\ inits' = [inits EXCEPT ![d] = @ + 1]
  BY DEF StartSession
<1>4. /\ work \in [Devs -> Works] /\ generated \in [Devs -> Nat] /\ inits \in [Devs -> Nat]
      /\ session \in [Devs -> Sessions \cup {NoSession}]
      /\ \A f \in Devs : session[f] = NoSession /\ generated[f] = 0 /\ inits[f] = 0
                         /\ work[f].x3dh = NoX3dh
      /\ \A m \in Ids : bubble[m] = "none"
  BY DEF IInv, SenderTypes, Core, StoreTypes, Silent
<1>5. Peer(d) \in Devs /\ Peer(d) # d /\ Peer(Peer(d)) = d /\ Devs = {d, Peer(d)}
  BY TwoDevs
<1>6. Fresh(d) = <<d, 1>> /\ Spk(Peer(d)) = <<Peer(d), 0>>
  BY <1>4 DEF Fresh, Spk
<1> DEFINE t == InitSender(x, <<d, 1>>, <<Peer(d), 0>>)
           r == InitReceiver(x, <<Peer(d), 0>>)
<1>7. /\ t \in Sessions /\ t.dhs = <<d, 1>> /\ t.rk = <<x, DH(<<d, 1>>, <<Peer(d), 0>>)>>
      /\ t.cks = t.rk /\ r.dhs = <<Peer(d), 0>>
  <2>1. <<d, 1>> \in KeyPairs /\ <<Peer(d), 0>> \in KeyPairs
    BY <1>5 DEF KeyPairs
  <2> QED BY <2>1, InitSenderType DEF InitSender, InitReceiver
<1>8. t # NoSession /\ t.rk[1] = x /\ t.dhs[2] = 1 /\ r.dhs[2] = 0 /\ t.cks # NoChain
  BY <1>7, SessionAssumption DEF NoChain
<1> HIDE DEF t, r
<1>9. session'[d] = t /\ session'[Peer(d)] = NoSession
  BY <1>2, <1>4, <1>5, <1>6 DEF t
<1>10. Side(d)' = t /\ Side(Peer(d))' = r
  <2>1. Side(d)' = t
    BY <1>8, <1>9 DEF Side
  <2>2. Spk(Peer(d)) = <<Peer(d), 0>>
    BY <1>6
  <2>3. Side(Peer(d))' = InitReceiver(session'[d].rk[1], Spk(Peer(d)))
    BY <1>5, <1>9 DEF Side
  <2> QED BY <1>8, <1>9, <2>1, <2>2, <2>3 DEF r
<1>11. /\ work'[d].pc = "ready" /\ work'[d].x3dh = x /\ work'[Peer(d)] = work[Peer(d)]
  BY <1>2, <1>4, <1>5 DEF Works
<1>12. generated'[d] = 1 /\ generated'[Peer(d)] = 0 /\ inits'[d] = 1
  BY <1>3, <1>4, <1>5
<1>13. \A f \in Devs : AtWork(f)' = {} /\ recv'[f].pc = "idle" /\ recv[f].pc = "idle"
  <2>1. work[Peer(d)].pc # "queued" /\ \A f \in Devs : recv[f].pc = "idle"
    BY <1>5, SilentFacts
  <2> QED BY <1>3, <1>5, <1>11, <2>1 DEF AtWork
<1>14. Out' = {} /\ Read' = {} /\ shown' = {}
  <2>1. Read = {} /\ shown = {}
    BY SilentFacts
  <2>2. Out' = {}
    BY <1>3, <1>4 DEF Out
  <2>3. Read' = {}
    BY <1>3, <2>1 DEF Read
  <2> QED BY <1>3, <2>1, <2>2, <2>3
<1>15. Letters(Out)' = {} /\ Letters(Read)' = {}
  BY <1>14 DEF Letters
<1>16. Ch!Made(d, x)'
  <2>1. [p \in Devs |-> Side(p)]'
          = [p \in Devs |-> IF p = d THEN t ELSE InitReceiver(x, <<p, 0>>)]
    <3>1. \A p \in Devs : Side(p)' = IF p = d THEN t ELSE InitReceiver(x, <<p, 0>>)
      BY <1>5, <1>10 DEF r
    <3> HIDE DEF Side
    <3> QED BY <3>1
  <2>2. Ch!Other(d) = Peer(d)
    BY OtherIsPeer
  <2>3. t = Ch!InitSender(x, Ch!KeyPair(d, 1), Ch!KeyPair(Ch!Other(d), 0))
    BY <2>2 DEF t, InitSender, Ch!InitSender, Ch!KeyPair, DH, Ch!DH, NoChain, Ch!NoChain
  <2>4. \A p : Ch!InitReceiver(x, Ch!KeyPair(p, 0)) = InitReceiver(x, <<p, 0>>)
    BY DEF InitReceiver, Ch!InitReceiver, Ch!KeyPair, NoChain, Ch!NoChain
  <2> HIDE DEF Side, Letters, Out, Read
  <2> QED BY <1>15, <2>1, <2>3, <2>4 DEF Ch!Made
<1>17. Ch!Init'
  BY <1>3, <1>16 DEF Ch!Init
<1>18. Ch!JInv(d)'
  BY <1>16, MadeMeets
<1>19. InOrder'
  BY <1>3, <1>4 DEF InOrder
<1>20. Opening(d)'
  <2>1. ASSUME NEW f \in Devs, work'[f].x3dh # NoX3dh
        PROVE  /\ f = d /\ work'[f].x3dh = session'[d].rk[1]
               /\ work'[f].pc \in {"ready", "queued"}
    BY <1>4, <1>5, <1>8, <1>9, <1>11, <2>1
  <2>2. \A m \in Ids : bubble'[m] = "none"
    BY <1>3, <1>4
  <2>3. \A f \in Devs : \A m \in SentBy(f) : bubble'[m] = "none"
    BY <2>2 DEF SentBy
  <2> QED BY <1>8, <1>9, <1>12, <2>1, <2>2, <2>3 DEF Opening, SentBy
<1>21. Standing'
  <2>1. \A f \in Devs : /\ generated'[f] = Side(f)'.dhs[2]
                        /\ session'[f] # NoSession => CanEncrypt(session'[f])
    BY <1>5, <1>8, <1>9, <1>10, <1>12 DEF CanEncrypt
  <2> QED BY <1>13, <2>1 DEF Standing
<1>22. ReadOnce'
  BY <1>13, <1>14 DEF ReadOnce
<1> QED BY <1>3, <1>17, <1>18, <1>19, <1>20, <1>21, <1>22 DEF Dialogue

\* Nothing else happens before.
LEMMA SilentStays ==
    ASSUME IInv, Core, Silent, [Next]_vars, \A d \in Devs : ~StartSession(d) /\ ~Crash(d)
    PROVE  Silent' /\ cleared' = cleared
<1> USE DEF sessions, items, outbound, server, inbound, history, bounds
<1>0. /\ posts = {} /\ shown = {} /\ \A m \in Ids : rows[m] = "none"
      /\ \A d \in Devs : /\ queue[d] = {} /\ AtWork(d) = {} /\ recv[d].pc = "idle"
                         /\ work[d].pc \notin {"ready", "queued"}
                         /\ tracked[d].ack = {}
      /\ \A d \in Devs : SentBy(d) \subseteq Ids /\ SentTo(d) \subseteq Ids
  BY SilentFacts, IdsSplit
<1>1. /\ \A d \in Devs : session[d] = NoSession
      /\ work \in [Devs -> Works] /\ session \in [Devs -> Sessions \cup {NoSession}]
  BY DEF Silent, IInv, SenderTypes, Core, StoreTypes
<1>2. CASE UNCHANGED vars
  BY <1>2 DEF vars, Silent
<1>3. ~Transport
  BY <1>0 DEF Transport
<1>4. ASSUME NEW d \in Devs, Sender(d)
      PROVE  Silent' /\ cleared' = cleared
  <2>1. PrepareSend(d)
    <3>1. ~LoadSession(d) /\ ~StartSession(d) /\ ~Enqueue(d) /\ ~CommitSession(d)
      BY <1>0, <1>1 DEF LoadSession, Enqueue, CommitSession
    <3>2. ASSUME NEW m \in SentBy(d)
          PROVE  /\ ~Resume(d, m) /\ ~Retry(d, m) /\ ~GiveUp(d, m) /\ ~PruneSettled(d, m)
                 /\ ~PruneOrphan(d, m) /\ ~DeliveredEvent(d, m)
      <4>1. m \notin queue[d] /\ rows[m] = "none"
        BY <1>0
      <4> QED BY <4>1 DEF Resume, Retry, GiveUp, PruneSettled, PruneOrphan, DeliveredEvent,
                          Pending
    <3> QED BY <1>4, <3>1, <3>2 DEF Sender
  <2>2. AllApplied(d) = session[d]
    BY <1>0, NoneApplied
  <2>3. /\ session' = [session EXCEPT ![d] = AllApplied(d)]
        /\ work' = [work EXCEPT ![d].pc = "prepared"]
        /\ UNCHANGED <<generated, inits, bubble, cleared>>
    BY <2>1 DEF PrepareSend
  <2>4. session' = session
    BY <1>1, <2>2, <2>3
  <2>5. \A f \in Devs : work'[f].x3dh = work[f].x3dh
    BY <1>1, <2>3 DEF Works
  <2> QED BY <2>3, <2>4, <2>5 DEF Silent
<1>5. ASSUME NEW d \in Devs
      PROVE  ~Receiver(d)
  <2>1. ~WipeKey(d) /\ ~Show(d) /\ ~CommitTerminal(d)
    BY <1>0 DEF WipeKey, Show, CommitTerminal
  <2>2. ASSUME NEW m \in SentTo(d)
        PROVE  /\ ~Decrypt(d, m) /\ ~Bootstrap(d, m) /\ ~Fail(d, m) /\ ~Ack(d, m)
               /\ ~AckLost(d, m) /\ ~ReadReceipt(d, m)
    <3>1. ~Arrives(d, m)
      BY <1>0, ArrivedWritten
    <3>2. m \notin tracked[d].ack /\ m \notin shown
      BY <1>0
    <3> QED BY <3>1, <3>2 DEF Decrypt, Bootstrap, Fail, Ack, AckLost, ReadReceipt
  <2> QED BY <2>1, <2>2 DEF Receiver
<1>6. ASSUME NEW d \in Devs, LoadHistory(d)
      PROVE  Silent' /\ cleared' = cleared
  BY <1>6 DEF LoadHistory, Silent
<1> QED BY <1>2, <1>3, <1>4, <1>5, <1>6 DEF Next

-----------------------------------------------------------------------------
(* A dialogue goes on with every step.                                     *)

LEMMA DialogueStays ==
    ASSUME IInv, Core, NEW e \in Devs, InOrder, Dialogue(e), [Next]_vars, Calm, Calm'
    PROVE  InOrder' /\ Dialogue(e)' /\ [Ch!Next]_(Ch!vars) /\ cleared' = cleared
<1> DEFINE Goes == InOrder' /\ Dialogue(e)' /\ [Ch!Next]_(Ch!vars) /\ cleared' = cleared
<1>0. ReadOnce /\ Opening(e)
  BY DEF Dialogue
<1>1. ASSUME SameHand, Read' = Read, ReadOnce', cleared' = cleared
      PROVE  Goes
  BY <1>1, StillTalking, HandStill
<1>2. ASSUME SameHand, UNCHANGED inbound, cleared' = cleared
      PROVE  Goes
  BY <1>0, <1>1, <1>2, InboundStill
<1>3. CASE UNCHANGED vars
  BY <1>2, <1>3 DEF vars, SameHand, sessions, outbound, history, AtWork
<1>4. CASE Transport
  <2>1. cleared' = cleared
    BY <1>4 DEF Transport, Accept, Settle, PostFails, history
  <2> QED BY <1>2, <1>4, <2>1, TransportTalks
<1>5. ASSUME NEW d \in Devs, Sender(d)
      PROVE  Goes
  <2>1. CASE \/ PrepareSend(d) \/ LoadSession(d)
             \/ \E m \in SentBy(d) : \/ Resume(d, m) \/ Retry(d, m) \/ GiveUp(d, m)
                                     \/ PruneSettled(d, m) \/ PruneOrphan(d, m)
                                     \/ DeliveredEvent(d, m)
    <3>1. cleared' = cleared
      <4>1. CASE PrepareSend(d) \/ LoadSession(d)
        BY <4>1 DEF PrepareSend, LoadSession, history
      <4>2. CASE \E m \in SentBy(d) : Resume(d, m) \/ Retry(d, m)
        BY <4>2 DEF Resume, Retry, SendAgain, history
      <4>3. CASE \E m \in SentBy(d) : \/ GiveUp(d, m) \/ PruneSettled(d, m)
                                      \/ PruneOrphan(d, m) \/ DeliveredEvent(d, m)
        BY <4>3 DEF GiveUp, PruneSettled, PruneOrphan, DeliveredEvent, history
      <4> QED BY <2>1, <4>1, <4>2, <4>3
    <3> QED BY <1>2, <2>1, <3>1, SenderTalks
  <2>2. CASE Enqueue(d)
    BY <2>2, EnqueueTalks DEF Enqueue, history
  <2>3. CASE CommitSession(d)
    <3>1. Ch!Next
      BY <2>3, CommitTalks DEF Ch!Next
    <3> QED BY <2>3, <3>1, CommitTalks DEF CommitSession, history
  <2>4. ~StartSession(d)
    <3>1. SUFFICES ASSUME StartSession(d) PROVE FALSE
      OBVIOUS
    <3>2. session[d] = NoSession /\ inits' = [inits EXCEPT ![d] = @ + 1]
          /\ inits \in [Devs -> Nat]
      BY <3>1 DEF StartSession, IInv, SenderTypes
    <3>3. d # e /\ inits[e] > 0
      BY <1>0, <3>2 DEF Opening
    <3>4. \A f \in Devs : f = d \/ f = e
      BY <3>3, TwoDevs
    <3>5. Crossed'
      BY <3>2, <3>3, <3>4 DEF Crossed
    <3> QED BY <3>5 DEF Calm
  <2> QED BY <1>5, <2>1, <2>2, <2>3, <2>4 DEF Sender
<1>6. ASSUME NEW d \in Devs, NEW m \in SentTo(d), NEW t, NEW pc, Receipt(e, d, m, t, pc),
             cleared' = cleared
      PROVE  Goes
  <2>1. Ch!Next
    BY <1>6, ReceiptMaps DEF Ch!Next
  <2> QED BY <1>6, <2>1, ReceiptTalks
<1>7. ASSUME NEW d \in Devs, Receiver(d)
      PROVE  Goes
  <2>1. CASE \/ WipeKey(d) \/ Show(d) \/ CommitTerminal(d)
             \/ \E m \in SentTo(d) : \/ Ack(d, m) \/ AckLost(d, m) \/ ReadReceipt(d, m)
                                     \/ Fail(d, m)
    BY <1>1, <2>1, ReceiverTalks
  <2>2. ASSUME NEW m \in SentTo(d), Decrypt(d, m)
        PROVE  Goes
    <3>1. forgotten' = {} /\ cleared' = cleared
      BY <2>2 DEF Calm, Decrypt
    <3> QED BY <1>6, <2>2, <3>1, DecryptIsReceipt
  <2>3. ASSUME NEW m \in SentTo(d), Bootstrap(d, m)
        PROVE  Goes
    <3>1. cleared' = cleared
      BY <2>3 DEF Bootstrap, history
    <3> QED BY <1>6, <2>3, <3>1, BootstrapIsReceipt
  <2> QED BY <1>7, <2>1, <2>2, <2>3 DEF Receiver
<1>8. ASSUME NEW d \in Devs, LoadHistory(d)
      PROVE  Goes
  BY <1>1, <1>8, ReceiverTalks
<1>9. ASSUME NEW d \in Devs
      PROVE  ~Crash(d)
  BY DEF Crash, Calm
<1> QED BY <1>3, <1>4, <1>5, <1>7, <1>8, <1>9 DEF Next

\* What is calm after a step was calm before it.
LEMMA CalmBack ==
    ASSUME IInv, crashes \in Nat, [Next]_vars
    PROVE  crashes' \in Nat /\ (Calm' => Calm)
<1> USE DEF sessions, items, outbound, server, inbound, history, bounds
<1> DEFINE Worse == /\ crashes' \in {crashes, crashes + 1} /\ forgotten \subseteq forgotten'
                    /\ \A d \in Devs : inits[d] > 0 => inits'[d] > 0
<1>1. ASSUME UNCHANGED vars
      PROVE  Worse
  BY <1>1 DEF vars
<1>2. ASSUME Transport
      PROVE  Worse
  BY <1>2 DEF Transport, Accept, Settle, PostFails
<1>3. ASSUME NEW d \in Devs, Sender(d)
      PROVE  Worse
  <2>1. CASE PrepareSend(d) \/ LoadSession(d) \/ Enqueue(d) \/ CommitSession(d)
    BY <2>1 DEF PrepareSend, LoadSession, Enqueue, CommitSession
  <2>2. CASE StartSession(d)
    <3>1. inits' = [inits EXCEPT ![d] = @ + 1] /\ inits \in [Devs -> Nat]
          /\ UNCHANGED <<forgotten, crashes>>
      BY <2>2 DEF StartSession, IInv, SenderTypes
    <3> QED BY <3>1
  <2>3. CASE \E m \in SentBy(d) : Resume(d, m) \/ Retry(d, m)
    BY <2>3 DEF Resume, Retry, SendAgain
  <2>4. CASE \E m \in SentBy(d) : \/ GiveUp(d, m) \/ PruneSettled(d, m)
                                  \/ PruneOrphan(d, m) \/ DeliveredEvent(d, m)
    BY <2>4 DEF GiveUp, PruneSettled, PruneOrphan, DeliveredEvent
  <2> QED BY <1>3, <2>1, <2>2, <2>3, <2>4 DEF Sender
<1>4. ASSUME NEW d \in Devs, Receiver(d)
      PROVE  Worse
  <2>1. CASE WipeKey(d) \/ Show(d) \/ CommitTerminal(d)
    BY <2>1 DEF WipeKey, Show, CommitTerminal
  <2>2. CASE \E m \in SentTo(d) : Ack(d, m) \/ AckLost(d, m) \/ ReadReceipt(d, m)
    BY <2>2 DEF Ack, AckLost, ReadReceipt
  <2>3. CASE \E m \in SentTo(d) : Decrypt(d, m) \/ Bootstrap(d, m) \/ Fail(d, m)
    BY <2>3 DEF Decrypt, Bootstrap, Fail
  <2> QED BY <1>4, <2>1, <2>2, <2>3 DEF Receiver
<1>5. ASSUME NEW d \in Devs, Crash(d) \/ LoadHistory(d)
      PROVE  Worse
  BY <1>5 DEF Crash, LoadHistory
<1>6. Worse
  BY <1>1, <1>2, <1>3, <1>4, <1>5 DEF Next
<1> QED BY <1>6 DEF Calm, Crossed

-----------------------------------------------------------------------------
(* Sessions hold: the theorems.                                            *)

\* Someone has started a session.
Started == \E d \in Devs : session[d] # NoSession

\* What a step is for the channel.
ChannelSees ==
    \/ ~Started /\ ~Started'
    \/ ~Started /\ Ch!Init'
    \/ Started /\ [Ch!Next]_(Ch!vars)

LEMMA CalmInitial ==
    ASSUME Init
    PROVE  CInv
BY DEF Init, CInv, Together, Silent, InOrder, Idle

\* A calm step keeps the invariant, and is one of the channel.
LEMMA CalmInductive ==
    ASSUME KInv, CInv, [Next]_vars
    PROVE  CInv' /\ (Calm' => ChannelSees)
<1>1. crashes' \in Nat /\ (Calm' => Calm)
  BY CalmBack DEF KInv, CInv
<1>2. ASSUME Calm'
      PROVE  cleared' = {} /\ Together' /\ ChannelSees
  <2>1. IInv /\ Core /\ Calm /\ cleared = {} /\ Together
    BY <1>1, <1>2 DEF KInv, CInv
  <2>2. CASE Silent
    <3>1. \A d \in Devs : ~Crash(d)
      BY <1>2, <2>1 DEF Crash, Calm
    <3>2. ASSUME NEW d \in Devs, StartSession(d)
          PROVE  InOrder' /\ Dialogue(d)' /\ Ch!Init' /\ cleared' = cleared
      BY <2>1, <2>2, <3>2, StartTalks
    <3>3. ASSUME \A d \in Devs : ~StartSession(d)
          PROVE  Silent' /\ cleared' = cleared
      BY <2>1, <2>2, <3>1, <3>3, SilentStays
    <3>4. Silent' => InOrder' /\ ~Started'
      BY DEF Silent, InOrder, Started
    <3>5. ~Started
      BY <2>2 DEF Silent, Started
    <3> QED BY <2>1, <3>2, <3>3, <3>4, <3>5 DEF Together, ChannelSees
  <2>3. ASSUME NEW e \in Devs, Dialogue(e)
        PROVE  cleared' = {} /\ Together' /\ ChannelSees
    <3>1. InOrder' /\ Dialogue(e)' /\ [Ch!Next]_(Ch!vars) /\ cleared' = cleared
      BY <1>2, <2>1, <2>3, DialogueStays DEF Together
    <3>2. Started
      BY <2>3 DEF Dialogue, Opening, Started
    <3> QED BY <2>1, <3>1, <3>2 DEF Together, ChannelSees
  <2> QED BY <2>1, <2>2, <2>3 DEF Together
<1> QED BY <1>1, <1>2 DEF CInv

LEMMA CalmInvariance == Spec => [](KInv /\ CInv)
<1>1. KInv /\ CInv /\ [Next]_vars => CInv'
  BY CalmInductive
<1> QED BY <1>1, KeysInitial, KeysInductive, CalmInitial, PTL DEF Spec

\* Duplication, reordering, retries, queued commits and loss never cost a session: until a
\* client is closed, two sessions cross or a key is evicted, what arrives opens, so that no
\* authentication failure clears a session (classifyUnexpectedInboundFailure).
THEOREM SessionsAreHeld == Spec => []SessionsHold
<1>1. CInv => SessionsHold
  BY DEF CInv, Calm, SessionsHold
<1>2. SUFFICES Spec => []CInv
  BY <1>1, PTL
<1> QED BY CalmInvariance, PTL

\* Until then the two devices, with their queues, retries and receipts, do nothing but
\* steps of one RatchetChannel between them: a message is sealed and the session after it
\* saved (sendMessage) as in Send, and a session opens a message or is made for the first
\* one (handleIncomingMessage, bootstrapInboundSession) as in Receive.
THEOREM OneChannel == Spec => [][Calm' => ChannelSees]_vars
<1>1. KInv /\ CInv /\ [Next]_vars => [Calm' => ChannelSees]_vars
  BY CalmInductive
<1> QED BY <1>1, CalmInvariance, PTL DEF Spec
=============================================================================
