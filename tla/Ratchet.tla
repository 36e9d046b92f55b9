------------------------------- MODULE Ratchet -------------------------------
(***************************************************************************)
(* The double ratchet of packages/crypto as operators on one session.      *)
(*                                                                         *)
(* Keys are terms.  A key pair is a name.  A root key is the sequence of   *)
(* the secrets mixed into it: the X3DH secret, then one Diffie-Hellman     *)
(* output after the other, each the set of the two public keys.  kdfRk     *)
(* makes a root key and a chain key at once, so a chain is named by the    *)
(* root key made with it, and the n-th message key of a chain is the pair  *)
(* <<chain, n>>.  Two keys are equal when they were derived alike, and the *)
(* AEAD opens a message with the key it was sealed with and no other.      *)
(***************************************************************************)
EXTENDS Integers, Sequences

CONSTANTS
    MaxSkip,   \* MAX_SKIP
    NoPub      \* no key: DHr = null

ASSUME SkipAssumption == MaxSkip \in Nat

NoChain == << >>

DH(a, b) == {a, b}

\* RatchetState as initSender leaves it: a sending chain, no receiving chain.
InitSender(secret, own, remote) ==
    LET root == <<secret, DH(own, remote)>>
    IN  [dhs |-> own, dhr |-> remote, rk |-> root, cks |-> root, ckr |-> NoChain,
         ns |-> 0, nr |-> 0, pn |-> 0, skipped |-> << >>]

\* initReceiver: the root key is the shared secret, there is no chain yet.
InitReceiver(secret, own) ==
    [dhs |-> own, dhr |-> NoPub, rk |-> <<secret>>, cks |-> NoChain, ckr |-> NoChain,
     ns |-> 0, nr |-> 0, pn |-> 0, skipped |-> << >>]

-----------------------------------------------------------------------------
(* ratchetEncrypt                                                          *)

CanEncrypt(s) == s.cks # NoChain

Header(s) == [dh |-> s.dhs, pn |-> s.pn, n |-> s.ns]
SealKey(s) == <<s.cks, s.ns>>

\* Mutation: the sending counter is not advanced.
Unadvanced(s) == s

AfterEncrypt(s) == [s EXCEPT !.ns = @ + 1]

-----------------------------------------------------------------------------
(* skipMessageKeys, dhRatchetStep                                          *)

TooMany(s, until) == s.nr + MaxSkip < until

\* The keys up to "until" are stored under the header they will arrive with.
Skip(s, until) ==
    IF s.ckr = NoChain \/ until <= s.nr THEN s
    ELSE [s EXCEPT !.nr = until,
                   !.skipped = @ \o [i \in 1..(until - s.nr) |->
                       [dh |-> s.dhr, n |-> s.nr + i - 1,
                        key |-> <<s.ckr, s.nr + i - 1>>]]]

\* Above MAX_SKIP entries the oldest go, a whole epoch (one dh) at a time.
Evict(q) ==
    IF Len(q) <= MaxSkip THEN q
    ELSE LET epochs == {i \in 1..(Len(q) + 1) :
                           /\ Len(q) - i + 1 <= MaxSkip
                           /\ i \in 2..Len(q) => q[i].dh # q[i - 1].dh}
             first == CHOOSE i \in epochs : \A j \in epochs : i <= j
         IN  SubSeq(q, first, Len(q))

\* Mutation: the length of the sending chain is not remembered.
DhStepForgetsPn(s, remote, fresh) ==
    LET rk1 == Append(s.rk, DH(s.dhs, remote))
        rk2 == Append(rk1, DH(fresh, remote))
    IN  [s EXCEPT !.ns = 0, !.nr = 0, !.dhr = remote,
                  !.skipped = Evict(@), !.ckr = rk1, !.dhs = fresh,
                  !.rk = rk2, !.cks = rk2]

DhStep(s, remote, fresh) ==
    LET rk1 == Append(s.rk, DH(s.dhs, remote))
        rk2 == Append(rk1, DH(fresh, remote))
    IN  [s EXCEPT !.pn = s.ns, !.ns = 0, !.nr = 0, !.dhr = remote,
                  !.skipped = Evict(@), !.ckr = rk1, !.dhs = fresh,
                  !.rk = rk2, !.cks = rk2]

-----------------------------------------------------------------------------
(* ratchetDecrypt: on a clone of the state, which is kept only when the    *)
(* AEAD has accepted the message.                                          *)

Stored(s, m) == {i \in 1..Len(s.skipped) :
                    s.skipped[i].dh = m.dh /\ s.skipped[i].n = m.n}

Without(q, i) == SubSeq(q, 1, i - 1) \o SubSeq(q, i + 1, Len(q))

IsDhStep(s, m) == s.dhr = NoPub \/ m.dh # s.dhr

\* The clone when the message key is due.
AtChain(s, m, fresh) ==
    IF IsDhStep(s, m) THEN DhStep(Skip(s, m.pn), m.dh, fresh) ELSE s
AtKey(s, m, fresh) == Skip(AtChain(s, m, fresh), m.n)

\* What becomes of an attempt: "ok", or the error thrown.
Outcome(s, m, fresh) ==
    IF Stored(s, m) # {}
    THEN IF \E i \in Stored(s, m) : s.skipped[i].key = m.key THEN "ok" ELSE "auth"
    ELSE IF IsDhStep(s, m) /\ TooMany(s, m.pn) THEN "skip"
    ELSE LET c == AtChain(s, m, fresh) IN
         IF TooMany(c, m.n) THEN "skip"
         ELSE IF c.ckr = NoChain THEN "chain"
         ELSE IF <<c.ckr, Skip(c, m.n).nr>> = m.key THEN "ok" ELSE "auth"

Opens(s, m, fresh) == Outcome(s, m, fresh) = "ok"

\* Mutation: the skipped key stays in the map after its use.
KeepsUsedKey(s, m, fresh) ==
    IF Stored(s, m) # {} THEN s
    ELSE [AtKey(s, m, fresh) EXCEPT !.nr = @ + 1]

\* The state that is committed.
AfterDecrypt(s, m, fresh) ==
    IF Stored(s, m) # {}
    THEN [s EXCEPT !.skipped =
            Without(@, CHOOSE i \in Stored(s, m) : s.skipped[i].key = m.key)]
    ELSE [AtKey(s, m, fresh) EXCEPT !.nr = @ + 1]
=============================================================================
