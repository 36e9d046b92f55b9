--------------------------- MODULE RatchetChannel ---------------------------
(***************************************************************************)
(* One session between two devices.  One of them, the initiator, has made  *)
(* it with initSender from the other's prekey bundle, the other with       *)
(* initReceiver from the first message.  Between them messages are lost,   *)
(* repeated and reordered at will: an envelope that was sent once may      *)
(* reach the other side at any later time, and again.                      *)
(***************************************************************************)
EXTENDS Ratchet, FiniteSets

CONSTANTS
    Sides,       \* the two devices
    Initiators,  \* those that may have made the session
    Secrets,     \* the X3DH secrets it may come from
    MaxSent      \* bound: messages of one side

ASSUME ChannelAssumption ==
    /\ IsFiniteSet(Sides) /\ Cardinality(Sides) = 2 /\ Initiators \subseteq Sides
    /\ MaxSent \in Nat /\ NoPub \notin Sides \X Nat

Other(p) == CHOOSE o \in Sides : o # p

\* The k-th ratchet key pair a side generates, after the signed prekey of its bundle.
KeyPair(p, k) == <<p, k>>

VARIABLES
    session,    \* the RatchetState of each side
    sent,       \* every envelope ever sent
    opened,     \* history: those the other side has decrypted
    forgotten   \* history: those whose skipped key was evicted before they came

vars == <<session, sent, opened, forgotten>>

\* The session as side i has made it.
Made(i, secret) ==
    /\ session = [p \in Sides |->
                    IF p = i
                    THEN InitSender(secret, KeyPair(i, 1), KeyPair(Other(i), 0))
                    ELSE InitReceiver(secret, KeyPair(p, 0))]
    /\ sent = {} /\ opened = {} /\ forgotten = {}

Init == \E i \in Initiators, secret \in Secrets : Made(i, secret)

Fresh(p) == KeyPair(p, session[p].dhs[2] + 1)

SentBy(p) == {m \in sent : m.from = p}

\* Its id stands for the plaintext.
Envelope(p) == LET h == Header(session[p]) IN
    [from |-> p, id |-> Cardinality(SentBy(p)), dh |-> h.dh, pn |-> h.pn, n |-> h.n,
     key |-> SealKey(session[p])]

Send(p) ==
    /\ CanEncrypt(session[p]) /\ Cardinality(SentBy(p)) < MaxSent
    /\ sent' = sent \cup {Envelope(p)}
    /\ session' = [session EXCEPT ![p] = AfterEncrypt(@)]
    /\ UNCHANGED <<opened, forgotten>>

Keys(q) == {q[i].key : i \in 1..Len(q)}

\* An attempt that fails leaves the state as it was.
Receive(p, m) ==
    LET before == session[p]
        after  == AfterDecrypt(before, m, Fresh(p))
        skipped == Keys(Skip(before, m.pn).skipped)
    IN  /\ m.from = Other(p)
        /\ Opens(before, m, Fresh(p))
        /\ session' = [session EXCEPT ![p] = after]
        /\ opened' = opened \cup {m}
        /\ forgotten' = forgotten \cup
             {x \in sent : x.key \in skipped /\ IsDhStep(before, m)
                             /\ Stored(before, m) = {} /\ x.key \notin Keys(after.skipped)}
        /\ UNCHANGED sent

Next == \E p \in Sides : Send(p) \/ \E m \in sent : Receive(p, m)

Spec == Init /\ [][Next]_vars

-----------------------------------------------------------------------------
(* Properties.                                                             *)

Names == Sides \X Nat

\* No two envelopes are sealed under the same message key, on either side and in
\* whatever order the two chains advance (AES-GCM takes key and IV from it).
KeysAreFresh == \A a, b \in sent : a.key = b.key => a = b

\* What has been decrypted cannot be decrypted again: an envelope that is delivered
\* twice fails, however late, since its key has been erased.
OpenedOnce ==
    \A m \in opened : ~Opens(session[Other(m.from)], m, Fresh(Other(m.from)))

\* Loss and reordering do no harm: each envelope that has not been decrypted still can
\* be, unless it runs ahead by more than MAX_SKIP or its key was evicted.
StaysOpenable ==
    \A m \in sent \ (opened \cup forgotten) :
        Outcome(session[Other(m.from)], m, Fresh(Other(m.from))) \in {"ok", "skip"}
=============================================================================
