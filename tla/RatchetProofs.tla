---------------------------- MODULE RatchetProofs ----------------------------
(***************************************************************************)
(* Theorems about RatchetChannel, for any bound on messages and skips: no  *)
(* key seals twice, nothing opens twice, and nothing that was lost keeps   *)
(* another message from opening.                                           *)
(***************************************************************************)
EXTENDS RatchetChannel, SequenceTheorems, FiniteSetTheorems, TLAPS

-----------------------------------------------------------------------------
(* The inductive invariant.                                                *)

Terms  == Secrets \cup SUBSET Names
Chains == Seq(Terms)

\* A session whose skipped keys are "q", whatever they are.
Sessions(q) ==
    [dhs : Names, dhr : Names \cup {NoPub}, rk : Chains, cks : Chains, ckr : Chains,
     ns : Nat, nr : Nat, pn : Nat, skipped : {q}]

Types ==
    /\ session = [p \in Sides |-> session[p]]
    /\ \A p \in Sides : session[p] \in Sessions(session[p].skipped)
    /\ \A m \in sent : m.from \in Sides /\ m.dh \in Names /\ m.n \in Nat /\ m.pn \in Nat

\* The initiator's sending chains come from root keys of even length, the responder's
\* from odd ones: each DH step mixes in two secrets.
Parity(ini, p) == IF p = ini THEN 0 ELSE 1

SendingChains(ini) ==
    \A p \in Sides : LET s == session[p] IN
        /\ Len(s.rk) % 2 = Parity(ini, p)
        /\ s.cks = NoChain \/ s.cks = s.rk

\* A side's envelopes were sealed with earlier chains, or with earlier keys of this one.
SealedBefore(ini) ==
    \A m \in sent : LET s == session[m.from]
                        c == m.key[1] IN
        /\ Len(c) \in Nat \ {0} /\ Len(c) % 2 = Parity(ini, m.from) /\ m.key[2] \in Nat
        /\ \/ Len(c) < Len(s.cks)
           \/ c = s.cks /\ m.key[2] < s.ns

IInv(ini) == Types /\ SendingChains(ini) /\ SealedBefore(ini) /\ KeysAreFresh

-----------------------------------------------------------------------------
(* What an operation leaves of the sending side.                           *)

\* skipMessageKeys leaves the sending side alone.
LEMMA SkipFrame ==
    ASSUME NEW q, NEW s \in Sessions(q), NEW until \in Nat
    PROVE  LET t == Skip(s, until) IN
           /\ t \in Sessions(t.skipped)
           /\ t.dhs = s.dhs /\ t.rk = s.rk /\ t.cks = s.cks /\ t.ns = s.ns
<1>1. CASE s.ckr = NoChain \/ until <= s.nr
  BY <1>1 DEF Skip, Sessions
<1>2. CASE ~(s.ckr = NoChain \/ until <= s.nr)
  <2> DEFINE more == s.skipped \o [i \in 1..(until - s.nr) |->
                       [dh |-> s.dhr, n |-> s.nr + i - 1, key |-> <<s.ckr, s.nr + i - 1>>]]
             t == [s EXCEPT !.nr = until, !.skipped = more]
  <2>1. Skip(s, until) = t
    BY <1>2 DEF Skip
  <2> HIDE DEF more
  <2>2. [s EXCEPT !.nr = until] \in Sessions(q)
    BY DEF Sessions
  <2>3. /\ t \in Sessions(more) /\ t.skipped = more
        /\ t.dhs = s.dhs /\ t.rk = s.rk /\ t.cks = s.cks /\ t.ns = s.ns
    BY <2>2 DEF Sessions
  <2> QED BY <2>1, <2>3
<1> QED BY <1>1, <1>2

\* A DH step starts a sending chain of a root key with two more secrets.
LEMMA DhStepFrame ==
    ASSUME NEW q, NEW s \in Sessions(q), NEW remote \in Names, NEW fresh \in Names
    PROVE  LET t == DhStep(s, remote, fresh) IN
           /\ t \in Sessions(t.skipped)
           /\ t.cks = t.rk /\ t.ns = 0 /\ Len(t.rk) = Len(s.rk) + 2
<1> DEFINE rk1 == Append(s.rk, DH(s.dhs, remote))
           rk2 == Append(rk1, DH(fresh, remote))
           old == Evict(s.skipped)
<1>1. /\ DH(s.dhs, remote) \in Terms /\ DH(fresh, remote) \in Terms
      /\ s.rk \in Chains /\ s.ns \in Nat
  BY DEF Sessions, DH, Terms
<1>2. rk1 \in Chains /\ Len(rk1) = Len(s.rk) + 1
  BY <1>1, AppendProperties DEF Chains
<1>3. rk2 \in Chains /\ Len(rk2) = Len(rk1) + 1
  BY <1>1, <1>2, AppendProperties DEF Chains
<1>4. Len(s.rk) \in Nat
  BY <1>1, LenProperties DEF Chains
<1>5. DhStep(s, remote, fresh) =
        [dhs |-> fresh, dhr |-> remote, rk |-> rk2, cks |-> rk2, ckr |-> rk1,
         ns |-> 0, nr |-> 0, pn |-> s.ns, skipped |-> old]
  <2> HIDE DEF old, rk1, rk2
  <2>1. DhStep(s, remote, fresh) =
          [s EXCEPT !.pn = s.ns, !.ns = 0, !.nr = 0, !.dhr = remote, !.skipped = old,
                    !.ckr = rk1, !.dhs = fresh, !.rk = rk2, !.cks = rk2]
    BY DEF DhStep, old, rk1, rk2
  <2> QED BY <2>1, Zenon DEF Sessions
<1> HIDE DEF old, rk1, rk2
<1> QED BY <1>1, <1>2, <1>3, <1>4, <1>5 DEF Sessions

\* Either the sending side is as before, or a DH step has made a longer root key.
LEMMA DecryptFrame ==
    ASSUME NEW q, NEW s \in Sessions(q), NEW m, m.dh \in Names, m.n \in Nat, m.pn \in Nat,
           NEW fresh \in Names
    PROVE  LET t == AfterDecrypt(s, m, fresh) IN
           /\ t \in Sessions(t.skipped)
           /\ \/ t.rk = s.rk /\ t.cks = s.cks /\ t.ns = s.ns
              \/ t.cks = t.rk /\ t.ns = 0 /\ Len(t.rk) = Len(s.rk) + 2
<1> DEFINE t == AfterDecrypt(s, m, fresh)
<1>1. CASE Stored(s, m) # {}
  <2> DEFINE rest == Without(s.skipped, CHOOSE i \in Stored(s, m) : s.skipped[i].key = m.key)
  <2>1. t = [s EXCEPT !.skipped = rest]
    BY <1>1 DEF AfterDecrypt
  <2> HIDE DEF rest, t
  <2>2. /\ t \in Sessions(rest) /\ t.skipped = rest
        /\ t.rk = s.rk /\ t.cks = s.cks /\ t.ns = s.ns
    BY <2>1 DEF Sessions
  <2> QED BY <2>2 DEF t
<1>2. CASE Stored(s, m) = {}
  <2> DEFINE a == Skip(s, m.pn)
             c == AtChain(s, m, fresh)
             k == Skip(c, m.n)
  <2>1. a \in Sessions(a.skipped) /\ a.rk = s.rk
    BY SkipFrame
  <2>2. /\ c \in Sessions(c.skipped)
        /\ \/ c.rk = s.rk /\ c.cks = s.cks /\ c.ns = s.ns
           \/ c.cks = c.rk /\ c.ns = 0 /\ Len(c.rk) = Len(s.rk) + 2
    <3>1. CASE IsDhStep(s, m)
      <4>1. c = DhStep(a, m.dh, fresh)
        BY <3>1 DEF AtChain
      <4> HIDE DEF a
      <4>2. LET d == DhStep(a, m.dh, fresh) IN
            /\ d \in Sessions(d.skipped)
            /\ d.cks = d.rk /\ d.ns = 0 /\ Len(d.rk) = Len(a.rk) + 2
        BY <2>1, DhStepFrame
      <4> HIDE DEF c
      <4> QED BY <2>1, <4>1, <4>2
    <3>2. CASE ~IsDhStep(s, m)
      <4>1. c = s
        BY <3>2 DEF AtChain
      <4> QED BY <4>1 DEF Sessions
    <3> QED BY <3>1, <3>2
  <2> HIDE DEF a, c
  <2>3. k \in Sessions(k.skipped) /\ k.rk = c.rk /\ k.cks = c.cks /\ k.ns = c.ns
    BY <2>2, SkipFrame
  <2>4. t = [k EXCEPT !.nr = k.nr + 1]
    BY <1>2 DEF AfterDecrypt, AtKey, c
  <2> HIDE DEF k, t
  <2>5. /\ t \in Sessions(k.skipped) /\ t.skipped = k.skipped
        /\ t.rk = k.rk /\ t.cks = k.cks /\ t.ns = k.ns
    BY <2>3, <2>4 DEF Sessions
  <2> QED BY <2>2, <2>3, <2>5 DEF t
<1> QED BY <1>1, <1>2

-----------------------------------------------------------------------------
(* The steps.                                                              *)

\* There are two sides.
LEMMA OtherSide ==
    /\ \A p \in Sides : /\ Other(p) \in Sides /\ Other(p) # p /\ Other(Other(p)) = p
                        /\ Sides = {p, Other(p)}
    /\ \A p, o \in Sides : o # p => o = Other(p)
<1>1. \A p \in Sides : /\ \E o \in Sides : o # p
                       /\ \A a, b \in Sides : a # p /\ b # p => a = b
  <2>1. ASSUME NEW p \in Sides
        PROVE  \E o \in Sides : Sides \ {p} = {o} /\ o # p
    <3>1. IsFiniteSet(Sides \ {p}) /\ Cardinality(Sides \ {p}) = 1
      BY ChannelAssumption, FS_RemoveElement
    <3>2. PICK o : Sides \ {p} = {o}
      BY <3>1, FS_Singleton
    <3> QED BY <3>2
  <2> QED BY <2>1
<1> QED BY <1>1 DEF Other

\* The sides and their parities.
LEMMA Parities ==
    ASSUME NEW ini \in Sides
    PROVE  /\ Sides = {ini, Other(ini)} /\ ini # Other(ini)
           /\ Parity(ini, ini) = 0 /\ Parity(ini, Other(ini)) = 1
           /\ 2 % 2 = 0 /\ 1 % 2 = 1 /\ \A n \in Nat : (n + 2) % 2 = n % 2
BY OtherSide DEF Parity

\* The first state.
LEMMA InitSound ==
    ASSUME NEW ini \in Sides, NEW x \in Secrets, Made(ini, x)
    PROVE  IInv(ini)
<1> DEFINE ki == KeyPair(ini, 1)
           kr == KeyPair(Other(ini), 0)
           si == InitSender(x, ki, kr)
           sr == InitReceiver(x, kr)
<1>1. ki \in Names /\ kr \in Names
  BY OtherSide DEF KeyPair, Names
<1>2. /\ session[ini] = si /\ session[Other(ini)] = sr
      /\ session = [p \in Sides |-> session[p]] /\ sent = {}
  BY OtherSide DEF Made
<1> HIDE DEF ki, kr
<1>3. DH(ki, kr) \in Terms /\ x \in Terms
  BY <1>1 DEF DH, Terms
<1>4. /\ si \in Sessions(<< >>) /\ si.skipped = << >> /\ si.cks = si.rk /\ Len(si.rk) = 2
  BY <1>1, <1>3 DEF InitSender, Sessions, Chains, NoChain
<1>5. /\ sr \in Sessions(<< >>) /\ sr.skipped = << >> /\ sr.cks = NoChain /\ Len(sr.rk) = 1
  BY <1>1, <1>3 DEF InitReceiver, Sessions, Chains, NoChain
<1> HIDE DEF si, sr
<1>6. Types
  BY <1>2, <1>4, <1>5, Parities DEF Types
<1>7. SendingChains(ini)
  BY <1>2, <1>4, <1>5, Parities DEF SendingChains
<1> QED BY <1>2, <1>6, <1>7 DEF IInv, SealedBefore, KeysAreFresh

\* A new envelope takes a key that no earlier one of this side has, and that none of
\* the other side can have.
LEMMA SendSound ==
    ASSUME NEW ini \in Sides, IInv(ini), NEW p \in Sides, Send(p)
    PROVE  IInv(ini)'
<1> USE DEF IInv
<1> DEFINE s == session[p]
           e == Envelope(p)
           t == AfterEncrypt(s)
<1>1. /\ s \in Sessions(s.skipped) /\ s.cks = s.rk /\ s.cks # NoChain
      /\ Len(s.rk) % 2 = Parity(ini, p)
  BY DEF Send, CanEncrypt, Types, SendingChains
<1>2. /\ e.from = p /\ e.dh \in Names /\ e.n \in Nat /\ e.pn \in Nat
      /\ e.key[1] = s.cks /\ e.key[2] = s.ns
  BY <1>1 DEF Envelope, Header, SealKey, Sessions
<1>3. /\ s.cks \in Chains /\ Len(s.cks) \in Nat /\ Len(s.cks) # 0 /\ s.ns \in Nat
  BY <1>1, LenProperties, EmptySeq DEF Sessions, Chains, NoChain
<1>4. /\ t \in Sessions(t.skipped) /\ t.rk = s.rk /\ t.cks = s.cks /\ t.ns = s.ns + 1
  BY <1>1 DEF AfterEncrypt, Sessions
<1>5. sent' = sent \cup {e} /\ session' = [session EXCEPT ![p] = t]
  BY DEF Send
<1> HIDE DEF e, t
<1>6. /\ session'[p] = t /\ \A o \in Sides : o # p => session'[o] = session[o]
      /\ session' = [o \in Sides |-> session'[o]]
  BY <1>5 DEF Types
<1>7. Types'
  BY <1>2, <1>4, <1>5, <1>6 DEF Types
<1>8. SendingChains(ini)'
  BY <1>4, <1>6 DEF SendingChains
<1>9. SealedBefore(ini)'
  <2>1. ASSUME NEW m \in sent, m.from = p
        PROVE  Len(m.key[1]) < Len(t.cks) \/ (m.key[1] = t.cks /\ m.key[2] < t.ns)
    <3>1. CASE m.key[1] = s.cks /\ m.key[2] < s.ns
      <4>1. m.key[2] \in Nat
        BY DEF SealedBefore
      <4>2. m.key[2] < s.ns + 1
        BY <1>3, <3>1, <4>1
      <4> QED BY <1>4, <3>1, <4>2
    <3> QED BY <1>4, <2>1, <3>1 DEF SealedBefore
  <2>2. ASSUME NEW m \in sent
        PROVE  /\ m.from \in Sides
               /\ Len(m.key[1]) \in Nat \ {0} /\ Len(m.key[1]) % 2 = Parity(ini, m.from)
               /\ m.key[2] \in Nat
               /\ \/ Len(m.key[1]) < Len(session'[m.from].cks)
                  \/ m.key[1] = session'[m.from].cks /\ m.key[2] < session'[m.from].ns
    BY <1>6, <2>1 DEF SealedBefore, Types
  <2>3. /\ Len(e.key[1]) \in Nat \ {0} /\ Len(e.key[1]) % 2 = Parity(ini, p)
        /\ e.key[2] \in Nat /\ e.key[1] = t.cks /\ e.key[2] < t.ns
    <3>1. s.cks = s.rk
      BY <1>1
    <3>2. Len(s.cks) % 2 = Parity(ini, p)
      BY <1>1, <3>1
    <3> HIDE DEF s
    <3>3. s.ns < s.ns + 1
      BY <1>3
    <3> QED BY <1>2, <1>3, <1>4, <3>2, <3>3
  <2>4. ASSUME NEW m \in sent'
        PROVE  /\ Len(m.key[1]) \in Nat \ {0} /\ Len(m.key[1]) % 2 = Parity(ini, m.from)
               /\ m.key[2] \in Nat
               /\ \/ Len(m.key[1]) < Len(session'[m.from].cks)
                  \/ m.key[1] = session'[m.from].cks /\ m.key[2] < session'[m.from].ns
    <3>1. CASE m = e
      BY <1>2, <1>6, <2>3, <3>1
    <3>2. CASE m \in sent
      BY <2>2, <3>2
    <3> QED BY <1>5, <3>1, <3>2
  <2> QED BY <2>4 DEF SealedBefore
<1>10. ASSUME NEW m \in sent, m.key = e.key PROVE FALSE
  <2>1. m.key[1] = s.cks /\ m.key[2] = s.ns
    BY <1>2, <1>10
  <2>2. Len(s.cks) % 2 = Parity(ini, m.from) /\ m.from \in Sides
    BY <2>1 DEF SealedBefore, Types
  <2>3. m.from = p
    <3>1. Parity(ini, m.from) = Parity(ini, p)
      BY <1>1, <2>2
    <3> HIDE DEF s
    <3> QED BY <2>2, <3>1, Parities
  <2>4. Len(s.cks) < Len(s.cks) \/ s.ns < s.ns
    BY <2>1, <2>3 DEF SealedBefore
  <2> QED BY <1>3, <2>4
<1>11. KeysAreFresh'
  BY <1>5, <1>10 DEF KeysAreFresh
<1> QED BY <1>7, <1>8, <1>9, <1>11

\* A receipt seals nothing, and makes the sending chain no shorter.
LEMMA ReceiveSound ==
    ASSUME NEW ini \in Sides, IInv(ini), NEW p \in Sides, NEW m \in sent, Receive(p, m)
    PROVE  IInv(ini)'
<1> USE DEF IInv
<1> DEFINE s == session[p]
           t == AfterDecrypt(s, m, Fresh(p))
<1>1. s \in Sessions(s.skipped) /\ m.dh \in Names /\ m.n \in Nat /\ m.pn \in Nat
  BY DEF Types
<1>2. Fresh(p) \in Names
  BY <1>1 DEF Fresh, KeyPair, Names, Sessions
<1>3. /\ t \in Sessions(t.skipped)
      /\ \/ t.rk = s.rk /\ t.cks = s.cks /\ t.ns = s.ns
         \/ t.cks = t.rk /\ t.ns = 0 /\ Len(t.rk) = Len(s.rk) + 2
  BY <1>1, <1>2, DecryptFrame
<1>4. sent' = sent /\ session' = [session EXCEPT ![p] = t]
  BY DEF Receive
<1>5. Len(s.rk) \in Nat /\ (s.cks # s.rk => Len(s.cks) = 0)
  <2>1. s.rk \in Chains /\ (s.cks = NoChain \/ s.cks = s.rk)
    BY <1>1 DEF Sessions, SendingChains
  <2>2. Len(NoChain) = 0
    BY DEF NoChain
  <2> QED BY <2>1, <2>2, LenProperties DEF Chains
<1> HIDE DEF t
<1>6. /\ session'[p] = t /\ \A o \in Sides : o # p => session'[o] = session[o]
      /\ session' = [o \in Sides |-> session'[o]]
  BY <1>4 DEF Types
<1>7. Types'
  BY <1>3, <1>4, <1>6 DEF Types
<1>8. SendingChains(ini)'
  <2>1. Len(t.rk) % 2 = Parity(ini, p)
    BY <1>3, <1>5, Parities DEF SendingChains
  <2>2. t.cks = NoChain \/ t.cks = t.rk
    BY <1>3 DEF SendingChains
  <2> QED BY <1>6, <2>1, <2>2 DEF SendingChains
<1>9. SealedBefore(ini)'
  <2>1. ASSUME NEW x \in sent, x.from = p
        PROVE  Len(x.key[1]) < Len(t.cks) \/ (x.key[1] = t.cks /\ x.key[2] < t.ns)
    <3>1. CASE t.rk = s.rk /\ t.cks = s.cks /\ t.ns = s.ns
      BY <2>1, <3>1 DEF SealedBefore
    <3>2. CASE t.cks = t.rk /\ t.ns = 0 /\ Len(t.rk) = Len(s.rk) + 2
      <4>1. Len(s.cks) \in Nat /\ Len(s.cks) <= Len(s.rk)
        BY <1>5
      <4>2. /\ Len(x.key[1]) \in Nat
            /\ Len(x.key[1]) < Len(s.cks) \/ Len(x.key[1]) = Len(s.cks)
        BY <2>1 DEF SealedBefore
      <4> QED BY <1>5, <3>2, <4>1, <4>2
    <3> QED BY <1>3, <3>1, <3>2
  <2> QED BY <1>4, <1>6, <2>1 DEF SealedBefore, Types
<1>10. KeysAreFresh'
  BY <1>4 DEF KeysAreFresh
<1> QED BY <1>7, <1>8, <1>9, <1>10

\* Every step.
LEMMA NextSound ==
    ASSUME NEW ini \in Sides, IInv(ini), [Next]_vars
    PROVE  IInv(ini)'
<1>1. CASE Next
  BY <1>1, SendSound, ReceiveSound DEF Next
<1>2. CASE UNCHANGED vars
  BY <1>2 DEF vars, IInv, Types, SendingChains, SealedBefore, KeysAreFresh
<1> QED BY <1>1, <1>2

-----------------------------------------------------------------------------
(* The skipped keys.                                                       *)

Entries == [dh : Names, n : Nat, key : Chains \X Nat]

Held(q) == {q[i] : i \in 1..Len(q)}

\* No key twice.
Distinct(q) == \A i, j \in 1..Len(q) : q[i].key = q[j].key => i = j

\* What skipMessageKeys stores of chain c.
Skipped(dh, c, from, to) == {[dh |-> dh, n |-> n, key |-> <<c, n>>] : n \in from..(to - 1)}

\* The keys of a chain the receiver has moved past.
Below(s, key) == Len(key[1]) < Len(s.ckr) \/ (key[1] = s.ckr /\ key[2] < s.nr)

\* What is stored has a header of a session and a key of a chain.
LEMMA HeldType ==
    ASSUME NEW q \in Seq(Entries), NEW e \in Held(q)
    PROVE  /\ e \in Entries /\ e.key \in Chains \X Nat /\ e.dh \in Names /\ e.n \in Nat
           /\ e.key[1] \in Chains /\ Len(e.key[1]) \in Nat /\ e.key[2] \in Nat
<1>1. PICK i \in 1..Len(q) : e = q[i]
  BY DEF Held
<1>2. e \in Entries
  BY <1>1, ElementOfSeq
<1>3. e.key \in Chains \X Nat /\ e.dh \in Names /\ e.n \in Nat
  BY <1>2 DEF Entries
<1> QED BY <1>2, <1>3, LenProperties DEF Chains

\* The entries stored by one call of it, in their order, and that they are new.
Run(new, dh, c, from, to) ==
    /\ new \in Seq(Entries) /\ Len(new) = to - from
    /\ \A i \in 1..(to - from) : new[i] = [dh |-> dh, n |-> from + i - 1,
                                         key |-> <<c, from + i - 1>>]
Unstored(q, c, from) == \A e \in Held(q), n \in Nat : n >= from => e.key # <<c, n>>

\* Storing the keys of a chain from a counter on adds just those, each once.
LEMMA StoreKeys ==
    ASSUME NEW q \in Seq(Entries), Distinct(q), NEW dh \in Names, NEW c \in Chains,
           NEW from \in Nat, NEW to \in Nat, from <= to,
           Unstored(q, c, from), NEW new, Run(new, dh, c, from, to)
    PROVE  LET r == q \o new IN
           /\ r \in Seq(Entries) /\ Distinct(r)
           /\ Held(r) = Held(q) \cup Skipped(dh, c, from, to)
<1> USE DEF Run, Unstored
<1> DEFINE k == to - from
           l == Len(q)
           F(n) == [dh |-> dh, n |-> n, key |-> <<c, n>>]
           r == q \o new
<1>1. l \in Nat /\ k \in Nat /\ \A i \in 1..k : from + i - 1 \in Nat /\ from + i - 1 >= from
  BY LenProperties
<1>2. \A n \in Nat : F(n) \in Entries /\ F(n).key = <<c, n>>
  BY DEF Entries
<1>3. \A i \in 1..k : new[i] = F(from + i - 1)
  OBVIOUS
<1> HIDE DEF F
<1>4. /\ r \in Seq(Entries) /\ Len(r) = l + k
      /\ \A i \in 1..(l + k) : r[i] = IF i <= l THEN q[i] ELSE new[i - l]
  <2>1. /\ r \in Seq(Entries) /\ Len(r) = Len(q) + Len(new)
        /\ \A i \in 1..(Len(q) + Len(new)) :
              r[i] = IF i <= Len(q) THEN q[i] ELSE new[i - Len(q)]
    BY ConcatProperties
  <2> HIDE DEF r
  <2> QED BY <2>1
<1> HIDE DEF r
<1>5. \A i \in 1..l : i \in 1..(l + k) /\ i <= l
  BY <1>1
<1>6. \A i \in 1..(l + k) : ~(i <= l) => i - l \in 1..k /\ from + (i - l) - 1 \in from..(to - 1)
  BY <1>1
<1>7. \A i \in 1..(l + k) : IF i <= l THEN i \in 1..l /\ r[i] = q[i]
                                      ELSE r[i] = F(from + (i - l) - 1)
  BY <1>1, <1>3, <1>4, <1>6
<1> HIDE DEF k, l
<1>8. Held(r) = Held(q) \cup Skipped(dh, c, from, to)
  <2>1. ASSUME NEW i \in 1..Len(r)
        PROVE  r[i] \in Held(q) \cup Skipped(dh, c, from, to)
    BY <1>4, <1>6, <1>7 DEF Held, Skipped, F, l
  <2>2. ASSUME NEW i \in 1..Len(q) PROVE q[i] \in Held(r)
    BY <1>4, <1>5, <1>7 DEF Held, l
  <2>3. ASSUME NEW n \in from..(to - 1) PROVE F(n) \in Held(r)
    <3> DEFINE j == l + (n - from + 1)
    <3>1. /\ n \in Nat /\ j \in 1..(l + k) /\ ~(j <= l) /\ from + (j - l) - 1 = n
      BY <1>1 DEF k
    <3> HIDE DEF j
    <3> QED BY <1>4, <1>7, <3>1 DEF Held
  <2> QED BY <2>1, <2>2, <2>3 DEF Held, Skipped, F
<1>9. Distinct(r)
  <2>1. ASSUME NEW i \in 1..(l + k), NEW j \in 1..(l + k), r[i].key = r[j].key,
               i <= l, ~(j <= l)
        PROVE  FALSE
    <3>1. r[j].key = <<c, from + (j - l) - 1>> /\ from + (j - l) - 1 >= from
          /\ from + (j - l) - 1 \in Nat
      BY <1>1, <1>2, <1>6, <1>7, <2>1
    <3>2. r[i] \in Held(q)
      BY <1>7, <2>1 DEF Held, l
    <3> QED BY <2>1, <3>1, <3>2
  <2>2. ASSUME NEW i \in 1..(l + k), NEW j \in 1..(l + k), r[i].key = r[j].key,
               ~(i <= l), ~(j <= l)
        PROVE  i = j
    <3>1. /\ r[i].key[2] = from + (i - l) - 1 /\ r[j].key[2] = from + (j - l) - 1
      BY <1>1, <1>2, <1>6, <1>7, <2>2
    <3>2. from + (i - l) - 1 = from + (j - l) - 1
      BY <2>2, <3>1
    <3> QED BY <1>1, <3>2
  <2>3. ASSUME NEW i \in 1..(l + k), NEW j \in 1..(l + k), r[i].key = r[j].key,
               i <= l, j <= l
        PROVE  i = j
    BY <1>7, <2>3 DEF Distinct, l
  <2> QED BY <1>4, <2>1, <2>2, <2>3 DEF Distinct
<1> QED BY <1>4, <1>8, <1>9 DEF r

\* skipMessageKeys stores the keys between the counter and the one that came, and no other.
LEMMA SkipStores ==
    ASSUME NEW s, s \in Sessions(s.skipped), s.skipped \in Seq(Entries),
           s.ckr # NoChain => s.dhr \in Names,
           Distinct(s.skipped), \A e \in Held(s.skipped) : Below(s, e.key),
           NEW until \in Nat
    PROVE  LET t == Skip(s, until) IN
           /\ t.ckr = s.ckr /\ t.dhr = s.dhr /\ t.pn = s.pn
           /\ t.nr = IF s.ckr = NoChain \/ until <= s.nr THEN s.nr ELSE until
           /\ t.skipped \in Seq(Entries) /\ Distinct(t.skipped)
           /\ Held(t.skipped) =
                Held(s.skipped) \cup Skipped(s.dhr, s.ckr, s.nr, t.nr)
<1>0. s.nr \in Nat /\ s.ckr \in Chains /\ Len(s.ckr) \in Nat
  BY LenProperties DEF Sessions, Chains
<1>1. CASE s.ckr = NoChain \/ until <= s.nr
  <2>1. Skip(s, until) = s
    BY <1>1 DEF Skip
  <2>2. s.nr..(s.nr - 1) = {}
    BY <1>0
  <2> QED BY <1>1, <2>1, <2>2 DEF Skipped
<1>2. CASE ~(s.ckr = NoChain \/ until <= s.nr)
  <2> DEFINE new == [i \in 1..(until - s.nr) |-> [dh |-> s.dhr, n |-> s.nr + i - 1,
                                                  key |-> <<s.ckr, s.nr + i - 1>>]]
             more == s.skipped \o new
             t == [s EXCEPT !.nr = until, !.skipped = more]
  <2>1. Skip(s, until) = t
    BY <1>2 DEF Skip
  <2>2. Unstored(s.skipped, s.ckr, s.nr)
    BY <1>0 DEF Below, Unstored
  <2>3. s.nr <= until /\ s.dhr \in Names
    BY <1>0, <1>2
  <2>31. Run(new, s.dhr, s.ckr, s.nr, until)
    <3>1. until - s.nr \in Nat /\ \A i \in 1..(until - s.nr) : s.nr + i - 1 \in Nat
      BY <1>0, <2>3
    <3>2. new \in [1..(until - s.nr) -> Entries]
      BY <1>0, <2>3, <3>1 DEF Entries
    <3>3. \A i \in 1..(until - s.nr) : new[i] = [dh |-> s.dhr, n |-> s.nr + i - 1,
                                               key |-> <<s.ckr, s.nr + i - 1>>]
      OBVIOUS
    <3> HIDE DEF new
    <3>4. new \in Seq(Entries)
      BY <3>1, <3>2, SeqDef
    <3>5. Len(new) = until - s.nr
      BY <3>1, <3>2, <3>4, LenProperties
    <3> QED BY <3>3, <3>4, <3>5 DEF Run
  <2> HIDE DEF new
  <2>4. /\ more \in Seq(Entries) /\ Distinct(more)
        /\ Held(more) = Held(s.skipped) \cup Skipped(s.dhr, s.ckr, s.nr, until)
    BY <1>0, <2>2, <2>3, <2>31, StoreKeys
  <2> HIDE DEF more
  <2>5. /\ t.ckr = s.ckr /\ t.dhr = s.dhr /\ t.pn = s.pn /\ t.nr = until
        /\ t.skipped = more
    BY DEF Sessions
  <2> QED BY <1>2, <2>1, <2>4, <2>5
<1> QED BY <1>1, <1>2

\* A finite set of integers has a least element.
LEMMA FiniteMin ==
    ASSUME NEW S, IsFiniteSet(S), S \subseteq Int, S # {}
    PROVE  \E x \in S : \A y \in S : x <= y
<1> DEFINE Least(A) == \E x \in A : \A y \in A : x <= y
           bad == {A \in FiniteSubsetsOf(S) : A # {} /\ ~Least(A)}
<1>1. SUFFICES ASSUME ~Least(S) PROVE FALSE
  OBVIOUS
<1>2. S \in bad
  BY <1>1 DEF FiniteSubsetsOf
<1>3. PICK A \in bad : \A B \in bad : <<B, A>> \notin StrictSubsetOrdering(S)
  <2>1. bad \subseteq FiniteSubsetsOf(S) /\ bad # {}
    BY <1>2
  <2> HIDE DEF bad
  <2> QED BY <2>1, FS_StrictSubsetOrderingWellFounded, WFMin
<1>4. A \subseteq S /\ IsFiniteSet(A) /\ A # {} /\ ~Least(A)
  BY DEF FiniteSubsetsOf
<1>5. PICK a \in A : TRUE
  BY <1>4
<1> DEFINE B == A \ {a}
<1>6. IsFiniteSet(B)
  BY <1>4, FS_Subset
<1>7. CASE B = {}
  BY <1>4, <1>5, <1>7
<1>8. CASE B # {}
  <2>1. Least(B)
    <3>1. <<B, A>> \in StrictSubsetOrdering(S)
      BY <1>4, <1>5 DEF StrictSubsetOrdering
    <3>2. B \notin bad
      BY <1>3, <3>1
    <3> QED BY <1>4, <1>6, <1>8, <3>2 DEF FiniteSubsetsOf
  <2>2. PICK b \in B : \A y \in B : b <= y
    BY <2>1
  <2>3. a \in Int /\ b \in Int
    BY <1>4, <1>5
  <2>4. CASE a <= b
    <3>1. \A y \in A : a <= y
      BY <1>4, <2>2, <2>3, <2>4
    <3> QED BY <1>4, <1>5, <3>1
  <2>5. CASE b <= a
    <3>1. \A y \in A : b <= y
      BY <2>2, <2>5
    <3> QED BY <1>4, <2>2, <3>1
  <2> QED BY <2>3, <2>4, <2>5
<1> QED BY <1>7, <1>8

\* The oldest entries go, and the others stay in their order.
LEMMA EvictKeeps ==
    ASSUME NEW q \in Seq(Entries), Distinct(q), MaxSkip \in Nat
    PROVE  /\ Evict(q) \in Seq(Entries) /\ Distinct(Evict(q))
           /\ Held(Evict(q)) \subseteq Held(q)
<1>0. Len(q) \in Nat
  BY LenProperties
<1>1. CASE Len(q) <= MaxSkip
  BY <1>1 DEF Evict
<1>2. CASE ~(Len(q) <= MaxSkip)
  <2> DEFINE epochs == {i \in 1..(Len(q) + 1) :
                           /\ Len(q) - i + 1 <= MaxSkip
                           /\ i \in 2..Len(q) => q[i].dh # q[i - 1].dh}
             first == CHOOSE i \in epochs : \A j \in epochs : i <= j
             r == SubSeq(q, first, Len(q))
  <2>1. Len(q) + 1 \in epochs
    BY <1>0
  <2>2. epochs \subseteq 1..(Len(q) + 1)
    OBVIOUS
  <2> HIDE DEF epochs
  <2>3. IsFiniteSet(epochs)
    <3>1. IsFiniteSet(1..(Len(q) + 1))
      BY <1>0, FS_Interval
    <3> QED BY <2>2, <3>1, FS_Subset
  <2>4. \E x \in epochs : \A j \in epochs : x <= j
    <3>1. epochs \subseteq Int /\ epochs # {}
      BY <1>0, <2>1, <2>2
    <3> QED BY <2>3, <3>1, FiniteMin
  <2>5. first \in epochs
    BY <2>4
  <2>6. first \in 1..(Len(q) + 1)
    BY <2>2, <2>5
  <2>7. Evict(q) = r
    BY <1>2 DEF Evict, epochs
  <2> HIDE DEF first
  <2>8. \A i \in first..Len(q) : i \in 1..Len(q) /\ q[i] \in Entries
    BY <1>0, <2>6, ElementOfSeq
  <2>9. /\ r \in Seq(Entries)
        /\ Len(r) = IF first <= Len(q) THEN Len(q) - first + 1 ELSE 0
        /\ \A i \in 1..(Len(q) - first + 1) : r[i] = q[first + i - 1]
    BY <1>0, <2>6, <2>8, SubSeqProperties
  <2>10. \A i \in 1..Len(r) : first + i - 1 \in 1..Len(q) /\ r[i] = q[first + i - 1]
    BY <1>0, <2>6, <2>9
  <2> HIDE DEF r
  <2>11. Distinct(r)
    <3>1. ASSUME NEW i \in 1..Len(r), NEW j \in 1..Len(r), r[i].key = r[j].key PROVE i = j
      <4>1. first + i - 1 = first + j - 1
        BY <2>10, <3>1 DEF Distinct
      <4>2. i \in Int /\ j \in Int /\ first \in Int
        BY <2>6
      <4> QED BY <4>1, <4>2
    <3> QED BY <3>1 DEF Distinct
  <2>12. Held(r) \subseteq Held(q)
    BY <2>10 DEF Held
  <2> QED BY <2>7, <2>9, <2>11, <2>12
<1> QED BY <1>1, <1>2

\* One entry goes.
LEMMA WithoutOne ==
    ASSUME NEW q \in Seq(Entries), Distinct(q), NEW i \in 1..Len(q)
    PROVE  LET r == Without(q, i) IN
           /\ r \in Seq(Entries) /\ Distinct(r) /\ Held(r) = Held(q) \ {q[i]}
<1> DEFINE l == Len(q)
           a == SubSeq(q, 1, i - 1)
           b == SubSeq(q, i + 1, l)
           r == a \o b
<1>1. l \in Nat /\ i \in 1..l /\ \A j \in 1..l : q[j] \in Entries
  BY LenProperties, ElementOfSeq
<1>2. /\ a \in Seq(Entries) /\ Len(a) = i - 1 /\ \A j \in 1..(i - 1) : a[j] = q[j]
  <2>1. \A j \in 1..(i - 1) : q[j] \in Entries
    BY <1>1
  <2>2. /\ a \in Seq(Entries)
        /\ Len(a) = IF 1 <= i - 1 THEN i - 1 - 1 + 1 ELSE 0
        /\ \A j \in 1..(i - 1 - 1 + 1) : a[j] = q[1 + j - 1]
    BY <1>1, <2>1, SubSeqProperties
  <2> HIDE DEF a
  <2> QED BY <1>1, <2>2
<1>3. /\ b \in Seq(Entries) /\ Len(b) = l - i /\ \A j \in 1..(l - i) : b[j] = q[i + j]
  <2>1. \A j \in (i + 1)..l : q[j] \in Entries
    BY <1>1
  <2>2. /\ b \in Seq(Entries)
        /\ Len(b) = IF i + 1 <= l THEN l - (i + 1) + 1 ELSE 0
        /\ \A j \in 1..(l - (i + 1) + 1) : b[j] = q[i + 1 + j - 1]
    BY <1>1, <2>1, SubSeqProperties
  <2> HIDE DEF b
  <2> QED BY <1>1, <2>2
<1> HIDE DEF a, b
<1>4. /\ r \in Seq(Entries) /\ Len(r) = Len(a) + Len(b)
      /\ \A j \in 1..(Len(a) + Len(b)) : r[j] = IF j <= Len(a) THEN a[j] ELSE b[j - Len(a)]
  BY <1>2, <1>3, ConcatProperties
<1> HIDE DEF r
<1>5. /\ Len(r) = l - 1
      /\ \A j \in 1..(l - 1) : r[j] = IF j < i THEN q[j] ELSE q[j + 1]
  <2>1. Len(r) = l - 1 /\ Len(a) + Len(b) = l - 1 /\ Len(a) = i - 1
    BY <1>1, <1>2, <1>3, <1>4
  <2>0. \A j \in 1..(l - 1) : r[j] = IF j <= i - 1 THEN a[j] ELSE b[j - (i - 1)]
    BY <1>4, <2>1
  <2> HIDE DEF l
  <2>2. ASSUME NEW j \in 1..(l - 1), j < i PROVE r[j] = q[j]
    <3>1. j \in 1..(i - 1) /\ j <= i - 1
      BY <1>1, <2>2
    <3> QED BY <1>2, <2>0, <3>1
  <2>3. ASSUME NEW j \in 1..(l - 1), ~(j < i) PROVE r[j] = q[j + 1]
    <3>1. j - (i - 1) \in 1..(l - i) /\ i + (j - (i - 1)) = j + 1
      BY <1>1, <2>3
    <3>2. r[j] = b[j - (i - 1)]
      BY <1>1, <2>0, <2>3
    <3> QED BY <1>3, <3>1, <3>2
  <2> QED BY <2>1, <2>2, <2>3
<1>6. \A j, k \in 1..l : q[j].key = q[k].key => j = k
  BY DEF Distinct
<1>7. Held(r) = Held(q) \ {q[i]}
  <2>1. ASSUME NEW j \in 1..(l - 1) PROVE r[j] \in Held(q) \ {q[i]}
    <3>1. CASE j < i
      <4>1. j \in 1..l /\ j # i /\ r[j] = q[j]
        BY <1>1, <1>5, <3>1
      <4> QED BY <1>1, <1>6, <4>1 DEF Held
    <3>2. CASE ~(j < i)
      <4>1. j + 1 \in 1..l /\ j + 1 # i /\ r[j] = q[j + 1]
        BY <1>1, <1>5, <3>2
      <4> QED BY <1>1, <1>6, <4>1 DEF Held
    <3> QED BY <3>1, <3>2
  <2>2. ASSUME NEW j \in 1..l, j # i PROVE q[j] \in Held(r)
    <3>1. CASE j < i
      <4>1. j \in 1..(l - 1) /\ r[j] = q[j]
        BY <1>1, <1>5, <3>1
      <4> QED BY <1>5, <4>1 DEF Held
    <3>2. CASE ~(j < i)
      <4>1. j - 1 \in 1..(l - 1) /\ ~(j - 1 < i) /\ (j - 1) + 1 = j
        BY <1>1, <2>2, <3>2
      <4>2. r[j - 1] = q[j]
        BY <1>5, <4>1
      <4> QED BY <1>5, <4>1, <4>2 DEF Held
    <3> QED BY <3>1, <3>2
  <2> QED BY <1>5, <2>1, <2>2 DEF Held
<1>8. Distinct(r)
  <2>1. ASSUME NEW j \in 1..(l - 1), NEW k \in 1..(l - 1), r[j].key = r[k].key PROVE j = k
    <3> DEFINE J == IF j < i THEN j ELSE j + 1
               K == IF k < i THEN k ELSE k + 1
    <3>1. J \in 1..l /\ K \in 1..l /\ r[j] = q[J] /\ r[k] = q[K]
      BY <1>1, <1>5
    <3>2. J = K
      <4> HIDE DEF J, K
      <4> QED BY <1>6, <2>1, <3>1
    <3> QED BY <1>1, <3>2
  <2> QED BY <1>5, <2>1 DEF Distinct
<1> QED BY <1>4, <1>7, <1>8 DEF r, a, b, Without

-----------------------------------------------------------------------------
(* What a message that opens makes of the receiving side.                  *)

Ready(s) ==
    /\ s \in Sessions(s.skipped) /\ s.skipped \in Seq(Entries) /\ Distinct(s.skipped)
    /\ \A e \in Held(s.skipped) : Below(s, e.key)
    /\ s.ckr # NoChain => s.dhr \in Names
    /\ Len(s.ckr) <= Len(s.rk)

SameKeys(s, t) ==
    /\ t.dhs = s.dhs /\ t.dhr = s.dhr /\ t.rk = s.rk /\ t.cks = s.cks /\ t.ckr = s.ckr
    /\ t.ns = s.ns /\ t.pn = s.pn

\* With a skipped key, which is forgotten.
LEMMA OpenStored ==
    ASSUME NEW s, Ready(s), NEW m, NEW fresh, Opens(s, m, fresh), Stored(s, m) # {}
    PROVE  LET t == AfterDecrypt(s, m, fresh) IN
           /\ SameKeys(s, t) /\ t.nr = s.nr
           /\ t.skipped \in Seq(Entries) /\ Distinct(t.skipped)
           /\ \E e \in Held(s.skipped) :
                 e.key = m.key /\ Held(t.skipped) = Held(s.skipped) \ {e}
<1> DEFINE i == CHOOSE j \in Stored(s, m) : s.skipped[j].key = m.key
           rest == Without(s.skipped, i)
           t == AfterDecrypt(s, m, fresh)
<1>1. i \in Stored(s, m) /\ s.skipped[i].key = m.key
  <2>1. \E j \in Stored(s, m) : s.skipped[j].key = m.key
    BY DEF Opens, Outcome
  <2> QED BY <2>1
<1>2. i \in 1..Len(s.skipped)
  BY <1>1 DEF Stored
<1>3. t = [s EXCEPT !.skipped = rest]
  BY DEF AfterDecrypt
<1> HIDE DEF i
<1>4. rest \in Seq(Entries) /\ Distinct(rest) /\ Held(rest) = Held(s.skipped) \ {s.skipped[i]}
  BY <1>2, WithoutOne DEF Ready
<1> HIDE DEF rest, t
<1>5. SameKeys(s, t) /\ t.nr = s.nr /\ t.skipped = rest
  BY <1>3 DEF SameKeys, Ready, Sessions
<1>6. s.skipped[i] \in Held(s.skipped)
  BY <1>2 DEF Held
<1> QED BY <1>1, <1>4, <1>5, <1>6 DEF t

\* With the next key of the receiving chain, or a later one.
LEMMA OpenChain ==
    ASSUME NEW s, Ready(s), NEW m, m.n \in Nat, NEW fresh, Opens(s, m, fresh),
           Stored(s, m) = {}, ~IsDhStep(s, m)
    PROVE  LET t == AfterDecrypt(s, m, fresh)
               k == IF m.n <= s.nr THEN s.nr ELSE m.n IN
           /\ SameKeys(s, t) /\ t.nr = k + 1
           /\ s.ckr # NoChain /\ m.key = <<s.ckr, k>>
           /\ t.skipped \in Seq(Entries) /\ Distinct(t.skipped)
           /\ Held(t.skipped) = Held(s.skipped) \cup Skipped(s.dhr, s.ckr, s.nr, k)
<1> DEFINE a == Skip(s, m.n)
           t == AfterDecrypt(s, m, fresh)
<1>1. AtChain(s, m, fresh) = s
  BY DEF AtChain
<1>2. s.ckr # NoChain /\ m.key = <<s.ckr, a.nr>>
  BY <1>1 DEF Opens, Outcome
<1>3. t = [a EXCEPT !.nr = a.nr + 1]
  BY <1>1 DEF AfterDecrypt, AtKey
<1>4. /\ a \in Sessions(a.skipped) /\ a.dhs = s.dhs /\ a.rk = s.rk /\ a.cks = s.cks
      /\ a.ns = s.ns
  BY SkipFrame DEF Ready
<1>5. /\ a.ckr = s.ckr /\ a.dhr = s.dhr /\ a.pn = s.pn
      /\ a.nr = IF m.n <= s.nr THEN s.nr ELSE m.n
      /\ a.skipped \in Seq(Entries) /\ Distinct(a.skipped)
      /\ Held(a.skipped) = Held(s.skipped) \cup Skipped(s.dhr, s.ckr, s.nr, a.nr)
  BY <1>2, SkipStores DEF Ready
<1> HIDE DEF a, t
<1>6. SameKeys(a, t) /\ t.nr = a.nr + 1 /\ t.skipped = a.skipped
  BY <1>3, <1>4 DEF SameKeys, Sessions
<1> QED BY <1>2, <1>4, <1>5, <1>6 DEF SameKeys, t

\* What skipMessageKeys stores of the chain a DH step ends.
Ending(s, until) == IF s.ckr = NoChain THEN {} ELSE Skipped(s.dhr, s.ckr, s.nr, until)

\* After a DH step, with a key of the new chain; the end of the old one is stored.
Stepped(s, m, fresh, t) == LET old == Skip(s, m.pn) IN
    /\ t.ckr = Append(s.rk, DH(s.dhs, m.dh)) /\ t.rk = Append(t.ckr, DH(fresh, m.dh))
    /\ t.dhs = fresh /\ t.dhr = m.dh /\ t.cks = t.rk /\ t.ns = 0 /\ t.pn = s.ns
    /\ t.nr = m.n + 1 /\ m.key = <<t.ckr, m.n>>
    /\ t.skipped \in Seq(Entries) /\ Distinct(t.skipped)
    /\ Held(t.skipped) \subseteq Held(old.skipped) \cup Skipped(m.dh, t.ckr, 0, m.n)
    /\ Skipped(m.dh, t.ckr, 0, m.n) \subseteq Held(t.skipped)
    /\ Held(old.skipped) = Held(s.skipped) \cup Ending(s, m.pn)

LEMMA OpenStep ==
    ASSUME NEW s, Ready(s), NEW m, m.n \in Nat, m.pn \in Nat, m.dh \in Names,
           NEW fresh \in Names, Opens(s, m, fresh), Stored(s, m) = {}, IsDhStep(s, m)
    PROVE  Stepped(s, m, fresh, AfterDecrypt(s, m, fresh))
<1> DEFINE a == Skip(s, m.pn)
           c == DhStep(a, m.dh, fresh)
           k == Skip(c, m.n)
           t == AfterDecrypt(s, m, fresh)
           rk1 == Append(s.rk, DH(s.dhs, m.dh))
           rk2 == Append(rk1, DH(fresh, m.dh))
<1>1. /\ s.rk \in Chains /\ Len(s.rk) \in Nat /\ s.ckr \in Chains /\ Len(s.ckr) \in Nat
      /\ s.nr \in Nat /\ s.dhs \in Names /\ s.ns \in Nat
  BY LenProperties DEF Ready, Sessions, Chains
<1>2. rk1 \in Chains /\ rk2 \in Chains /\ Len(rk1) = Len(s.rk) + 1 /\ rk1 # NoChain
  <2>1. DH(s.dhs, m.dh) \in Terms /\ DH(fresh, m.dh) \in Terms
    BY <1>1 DEF DH, Terms
  <2>2. rk1 \in Chains /\ Len(rk1) = Len(s.rk) + 1 /\ rk1 # NoChain
    BY <1>1, <2>1, AppendProperties DEF Chains, NoChain
  <2> HIDE DEF rk1
  <2> QED BY <2>1, <2>2, AppendProperties DEF Chains
<1>3. /\ a \in Sessions(a.skipped) /\ a.dhs = s.dhs /\ a.rk = s.rk /\ a.cks = s.cks
      /\ a.ns = s.ns
  BY SkipFrame DEF Ready
<1>4. /\ a.ckr = s.ckr /\ a.dhr = s.dhr
      /\ a.nr = IF s.ckr = NoChain \/ m.pn <= s.nr THEN s.nr ELSE m.pn
      /\ a.skipped \in Seq(Entries) /\ Distinct(a.skipped)
      /\ Held(a.skipped) = Held(s.skipped) \cup Skipped(s.dhr, s.ckr, s.nr, a.nr)
  BY SkipStores DEF Ready
<1>5. /\ Evict(a.skipped) \in Seq(Entries) /\ Distinct(Evict(a.skipped))
      /\ Held(Evict(a.skipped)) \subseteq Held(a.skipped)
  BY <1>4, SkipAssumption, EvictKeeps
<1>6. AtChain(s, m, fresh) = c
  BY DEF AtChain
<1>7. c.ckr # NoChain /\ m.key = <<c.ckr, k.nr>>
  BY <1>6 DEF Opens, Outcome
<1>8. t = [k EXCEPT !.nr = k.nr + 1]
  BY <1>6 DEF AfterDecrypt, AtKey
<1>9. Held(a.skipped) = Held(s.skipped) \cup Ending(s, m.pn)
  <2>1. CASE s.ckr = NoChain \/ m.pn <= s.nr
    <3>1. s.nr..(s.nr - 1) = {} /\ (m.pn <= s.nr => s.nr..(m.pn - 1) = {})
      BY <1>1
    <3>2. Skipped(s.dhr, s.ckr, s.nr, s.nr) = {} /\ Ending(s, m.pn) = {}
      BY <2>1, <3>1 DEF Skipped, Ending
    <3>3. a.nr = s.nr
      BY <1>4, <2>1
    <3> QED BY <1>4, <3>2, <3>3
  <2>2. CASE ~(s.ckr = NoChain \/ m.pn <= s.nr)
    BY <1>4, <2>2 DEF Ending
  <2> QED BY <2>1, <2>2
<1> HIDE DEF a
<1>10. c = [dhs |-> fresh, dhr |-> m.dh, rk |-> rk2, cks |-> rk2, ckr |-> rk1,
            ns |-> 0, nr |-> 0, pn |-> s.ns, skipped |-> Evict(a.skipped)]
  <2> HIDE DEF rk1, rk2
  <2>1. c = [a EXCEPT !.pn = s.ns, !.ns = 0, !.nr = 0, !.dhr = m.dh,
                      !.skipped = Evict(a.skipped), !.ckr = rk1, !.dhs = fresh,
                      !.rk = rk2, !.cks = rk2]
    BY <1>3 DEF DhStep, rk1, rk2
  <2> HIDE DEF c
  <2> QED BY <1>3, <2>1, Zenon DEF Sessions
<1> HIDE DEF c, rk1, rk2
<1>11. c \in Sessions(c.skipped)
  BY <1>1, <1>2, <1>10 DEF Sessions
<1>12. \A e \in Held(c.skipped) : Below(c, e.key)
  <2>1. \A e \in Held(a.skipped) : Len(e.key[1]) <= Len(s.ckr)
    <3>1. ASSUME NEW e \in Held(s.skipped) PROVE Len(e.key[1]) <= Len(s.ckr)
      <4>1. Len(e.key[1]) \in Nat
        BY HeldType DEF Ready
      <4> QED BY <1>1, <3>1, <4>1 DEF Ready, Below
    <3>2. ASSUME NEW e \in Ending(s, m.pn) PROVE Len(e.key[1]) <= Len(s.ckr)
      BY <1>1, <3>2 DEF Skipped, Ending
    <3> QED BY <1>9, <3>1, <3>2
  <2>2. ASSUME NEW e \in Held(a.skipped) PROVE Len(e.key[1]) < Len(rk1)
    <3>1. Len(e.key[1]) \in Nat
      BY <1>4, HeldType
    <3> QED BY <1>1, <1>2, <2>1, <3>1 DEF Ready
  <2> QED BY <1>5, <1>10, <2>2 DEF Below
<1>13. /\ k \in Sessions(k.skipped) /\ k.dhs = c.dhs /\ k.rk = c.rk /\ k.cks = c.cks
       /\ k.ns = c.ns
  BY <1>11, SkipFrame
<1>14. /\ k.ckr = c.ckr /\ k.dhr = c.dhr /\ k.pn = c.pn
       /\ k.nr = IF c.ckr = NoChain \/ m.n <= c.nr THEN c.nr ELSE m.n
       /\ k.skipped \in Seq(Entries) /\ Distinct(k.skipped)
       /\ Held(k.skipped) = Held(c.skipped) \cup Skipped(c.dhr, c.ckr, c.nr, k.nr)
  <2>1. c.skipped \in Seq(Entries) /\ Distinct(c.skipped) /\ c.dhr \in Names
    BY <1>5, <1>10
  <2> QED BY <1>11, <1>12, <2>1, SkipStores
<1> HIDE DEF k, t
<1>15. k.nr = m.n
  BY <1>2, <1>10, <1>14
<1>16. SameKeys(k, t) /\ t.nr = k.nr + 1 /\ t.skipped = k.skipped
  BY <1>8, <1>13 DEF SameKeys, Sessions
<1>17. /\ t.ckr = rk1 /\ t.rk = rk2 /\ t.dhs = fresh /\ t.dhr = m.dh /\ t.cks = rk2
       /\ t.ns = 0 /\ t.pn = s.ns
  BY <1>10, <1>13, <1>14, <1>16 DEF SameKeys
<1>18. Held(t.skipped) = Held(Evict(a.skipped)) \cup Skipped(m.dh, rk1, 0, m.n)
  BY <1>10, <1>14, <1>15, <1>16
<1> QED
  BY <1>5, <1>7, <1>9, <1>10, <1>14, <1>15, <1>16, <1>17, <1>18 DEF Stepped, t, rk1, rk2, a

-----------------------------------------------------------------------------
(* The invariant of the two sides together.                                *)

Base(ini, p) == IF p = ini THEN 2 ELSE 1
PrefixOf(c, d) == Len(c) <= Len(d) /\ \A i \in 1..Len(c) : c[i] = d[i]

\* The k-th key pair of a side makes the sending chain of this length.
Indexed(ini, p, dh, c) == dh[1] = p /\ Len(c) = 2 * dh[2] + Parity(ini, p)

\* The sides take turns: the root key of one continues that of the other with one more
\* secret, of the key pairs they use now.
Alternation(ini) ==
    \A p \in Sides : LET s == session[p]
                         o == session[Other(p)] IN
        /\ Indexed(ini, p, s.dhs, s.rk) /\ (s.cks # NoChain => Len(s.rk) >= 2)
        /\ Len(s.rk) = Len(o.rk) + 1 \/ Len(o.rk) = Len(s.rk) + 1
        /\ Len(s.rk) = Len(o.rk) + 1 => s.rk = Append(o.rk, DH(o.dhs, s.dhs))

\* The receiving chain is the one before the root key, made with the header's key pair.
ReceivingChains(ini) ==
    \A p \in Sides : LET s == session[p] IN
        /\ s.ckr = NoChain => /\ s.nr = 0 /\ Len(s.rk) = Base(ini, p)
                              /\ s.dhr \in {NoPub, KeyPair(Other(ini), 0)}
        /\ s.ckr # NoChain => /\ Len(s.ckr) + 1 = Len(s.rk) /\ PrefixOf(s.ckr, s.rk)
                              /\ s.dhr \in Names /\ Indexed(ini, Other(p), s.dhr, s.ckr)

\* A skipped key is stored once, under the header its message has.
SkippedKeys(ini) ==
    \A p \in Sides : LET s == session[p] IN
        /\ s.skipped \in Seq(Entries) /\ Distinct(s.skipped)
        /\ \A e \in Held(s.skipped) :
              /\ Below(s, e.key) /\ e.n = e.key[2]
              /\ Indexed(ini, Other(p), e.dh, e.key[1]) /\ PrefixOf(e.key[1], s.rk)

\* The header tells the key, and the length of the chain before.
Headers(ini) ==
    \A m \in sent : LET s == session[m.from]
                        c == m.key[1] IN
        /\ m.key = <<m.key[1], m.key[2]>> /\ c \in Chains /\ m.key[2] \in Nat
        /\ Len(c) >= 2 /\ m.n = m.key[2] /\ Indexed(ini, m.from, m.dh, c) /\ PrefixOf(c, s.rk)
        /\ Len(c) = Len(s.rk) => m.pn = s.pn
        /\ Len(c) + 2 = Len(s.rk) => m.key[2] < s.pn

\* Nothing is received that has not been sent.
Counters ==
    \A p \in Sides : Len(session[Other(p)].ckr) = Len(session[p].rk) =>
        session[Other(p)].nr <= session[p].ns

\* What the receiver has moved past, and neither opened nor evicted, is stored.
Kept ==
    \A m \in sent \ (opened \cup forgotten) : LET s == session[Other(m.from)] IN
        Below(s, m.key) => m.key \in Keys(s.skipped)

\* What it has opened it has moved past, and not stored.
Gone ==
    /\ opened \subseteq sent
    /\ \A m \in opened : LET s == session[Other(m.from)] IN
          Below(s, m.key) /\ m.key \notin Keys(s.skipped)

Meeting(ini) == Alternation(ini) /\ ReceivingChains(ini) /\ SkippedKeys(ini) /\ Headers(ini) /\ Counters
JInv(ini) == IInv(ini) /\ Meeting(ini) /\ Kept /\ Gone

-----------------------------------------------------------------------------
(* Lengths and prefixes.                                                   *)

\* The keys of what is stored.
LEMMA KeysHeld ==
    ASSUME NEW q
    PROVE  /\ \A e \in Held(q) : e.key \in Keys(q)
           /\ \A k \in Keys(q) : \E e \in Held(q) : e.key = k
BY DEF Keys, Held

\* A stored key has one entry.
LEMMA OneEntry ==
    ASSUME NEW q, Distinct(q), NEW e \in Held(q), NEW f \in Held(q), e.key = f.key
    PROVE  e = f
BY DEF Distinct, Held

\* Two beginnings of a chain with the same length are equal.
LEMMA SameLength ==
    ASSUME NEW c \in Chains, NEW d \in Chains, NEW r, PrefixOf(c, r), PrefixOf(d, r),
           Len(c) = Len(d)
    PROVE  c = d
BY SeqEqual DEF PrefixOf, Chains

\* The beginning of a beginning.
LEMMA PrefixTrans ==
    ASSUME NEW c \in Chains, NEW d \in Chains, NEW r \in Chains, PrefixOf(c, d), PrefixOf(d, r)
    PROVE  PrefixOf(c, r)
BY LenProperties DEF PrefixOf, Chains

\* A chain is the beginning of the one that a DH output makes of it.
LEMMA PrefixAppend ==
    ASSUME NEW c \in Chains, NEW x \in Terms
    PROVE  /\ PrefixOf(c, Append(c, x)) /\ Append(c, x) \in Chains
           /\ Len(Append(c, x)) = Len(c) + 1 /\ PrefixOf(c, c)
<1>1. Len(c) \in Nat
  BY LenProperties DEF Chains
<1> QED BY <1>1, AppendProperties DEF PrefixOf, Chains

\* Chains of one length are equal, whichever side derived them.
LEMMA OneRoot ==
    ASSUME NEW ini \in Sides, Types, Alternation(ini), NEW p \in Sides, NEW o \in Sides,
           NEW c \in Chains, NEW d \in Chains, Len(c) = Len(d),
           PrefixOf(c, session[p].rk), PrefixOf(d, session[o].rk)
    PROVE  c = d
<1> DEFINE r == session[p].rk
           u == session[o].rk
<1>1. r \in Chains /\ u \in Chains
  BY DEF Types, Sessions
<1>2. CASE o = p
  BY <1>2, SameLength
<1>3. CASE o # p
  <2>1. PrefixOf(r, u) \/ PrefixOf(u, r)
    <3>1. \A x \in Sides, y \in Sides : DH(session[x].dhs, session[y].dhs) \in Terms
      BY DEF Types, Sessions, DH, Terms
    <3>2. o = Other(p) /\ p = Other(o)
      BY <1>3, OtherSide
    <3>3. \/ r = Append(u, DH(session[o].dhs, session[p].dhs))
          \/ u = Append(r, DH(session[p].dhs, session[o].dhs))
      BY <3>2 DEF Alternation
    <3> HIDE DEF r, u
    <3> QED BY <1>1, <3>1, <3>3, PrefixAppend
  <2> HIDE DEF r, u
  <2> QED BY <1>1, <2>1, PrefixTrans, SameLength DEF r, u
<1> QED BY <1>2, <1>3

\* Key pairs of one side with chains of one length are the same.
LEMMA OneIndex ==
    ASSUME NEW ini \in Sides, NEW p, NEW d \in Names, NEW e \in Names, NEW c, NEW b,
           Indexed(ini, p, d, c), Indexed(ini, p, e, b)
    PROVE  d = e <=> Len(c) = Len(b)
<1>1. d = <<d[1], d[2]>> /\ e = <<e[1], e[2]>> /\ d[2] \in Nat /\ e[2] \in Nat
  BY DEF Names
<1> HIDE DEF Names
<1>2. d = e <=> d[2] = e[2]
  BY <1>1 DEF Indexed
<1> QED BY <1>1, <1>2 DEF Indexed, Parity

\* The types of the parts of a session.
LEMMA LengthsType ==
    ASSUME Types, NEW p \in Sides
    PROVE  LET s == session[p] IN
           /\ s \in Sessions(s.skipped) /\ s.dhs \in Names /\ s.rk \in Chains /\ s.ckr \in Chains
           /\ s.cks \in Chains /\ Len(s.rk) \in Nat /\ Len(s.ckr) \in Nat /\ Len(s.cks) \in Nat
           /\ s.nr \in Nat /\ s.ns \in Nat /\ s.pn \in Nat /\ s.dhs[2] \in Nat
           /\ Len(NoChain) = 0 /\ NoChain \in Chains
<1>1. session[p] \in Sessions(session[p].skipped)
  BY DEF Types
<1>2. NoChain \in Chains /\ Len(NoChain) = 0
  BY DEF NoChain, Chains
<1> QED BY <1>1, <1>2, LenProperties DEF Sessions, Chains, Names

\* A reachable session meets what the lemmas about an attempt ask of it.
LEMMA IsReady ==
    ASSUME NEW ini \in Sides, Types, ReceivingChains(ini), SkippedKeys(ini), NEW p \in Sides
    PROVE  Ready(session[p])
BY LengthsType DEF ReceivingChains, SkippedKeys, Ready

-----------------------------------------------------------------------------
(* The steps keep the invariant of the two sides.                          *)

\* A new envelope has a key the other side has not moved past.
LEMMA SendKeeps ==
    ASSUME NEW ini \in Sides, JInv(ini), NEW p \in Sides, Send(p)
    PROVE  JInv(ini)'
<1> USE DEF JInv, Meeting
<1> DEFINE s == session[p]
           e == Envelope(p)
           t == AfterEncrypt(s)
<1>1. Types /\ Types' /\ IInv(ini)'
  BY SendSound DEF IInv
<1>2. /\ s \in Sessions(s.skipped) /\ s.cks = s.rk /\ s.cks # NoChain /\ s.cks \in Chains
      /\ Len(s.rk) \in Nat /\ s.ns \in Nat
  BY <1>1, LengthsType DEF Send, CanEncrypt, IInv, SendingChains
<1>3. /\ e.from = p /\ e.dh = s.dhs /\ e.n = s.ns /\ e.pn = s.pn
      /\ e.key = <<s.cks, s.ns>>
  BY DEF Envelope, Header, SealKey
<1>4. /\ t.dhs = s.dhs /\ t.dhr = s.dhr /\ t.rk = s.rk /\ t.cks = s.cks /\ t.ckr = s.ckr
      /\ t.ns = s.ns + 1 /\ t.nr = s.nr /\ t.pn = s.pn /\ t.skipped = s.skipped
  BY <1>2 DEF AfterEncrypt, Sessions
<1>5. /\ sent' = sent \cup {e} /\ session' = [session EXCEPT ![p] = t]
      /\ opened' = opened /\ forgotten' = forgotten
  BY DEF Send
<1>6. session'[p] = t /\ \A o \in Sides : o # p => session'[o] = session[o]
  BY <1>1, <1>5 DEF Types
<1> HIDE DEF e, t
<1>7. \A o \in Sides :
        /\ session'[o].dhs = session[o].dhs /\ session'[o].dhr = session[o].dhr
        /\ session'[o].rk = session[o].rk /\ session'[o].cks = session[o].cks
        /\ session'[o].ckr = session[o].ckr /\ session'[o].nr = session[o].nr
        /\ session'[o].pn = session[o].pn /\ session'[o].skipped = session[o].skipped
        /\ session'[o].ns >= session[o].ns
  <2>1. ASSUME NEW o \in Sides, o # p PROVE session'[o].ns >= session[o].ns
    BY <1>1, <1>6, <2>1, LengthsType
  <2>2. t.ns >= s.ns
    BY <1>2, <1>4
  <2>3. ASSUME NEW o \in Sides, o # p PROVE session'[o] = session[o]
    BY <1>6, <2>3
  <2>4. session'[p] = t
    BY <1>6
  <2> SUFFICES ASSUME NEW o \in Sides
               PROVE  /\ session'[o].dhs = session[o].dhs /\ session'[o].dhr = session[o].dhr
                      /\ session'[o].rk = session[o].rk /\ session'[o].cks = session[o].cks
                      /\ session'[o].ckr = session[o].ckr /\ session'[o].nr = session[o].nr
                      /\ session'[o].pn = session[o].pn
                      /\ session'[o].skipped = session[o].skipped
                      /\ session'[o].ns >= session[o].ns
    OBVIOUS
  <2>5. CASE o = p
    BY <1>4, <2>2, <2>4, <2>5
  <2>6. CASE o # p
    BY <2>1, <2>3, <2>6
  <2> QED BY <2>5, <2>6
<1>8. \A m \in sent : m.from \in Sides /\ Other(m.from) \in Sides
  BY <1>1, OtherSide DEF Types
<1>9. Alternation(ini)' /\ ReceivingChains(ini)'
  <2>1. ASSUME NEW q \in Sides
        PROVE  LET v == session'[q]
                   o == session'[Other(q)] IN
          /\ Indexed(ini, q, v.dhs, v.rk) /\ (v.cks # NoChain => Len(v.rk) >= 2)
          /\ Len(v.rk) = Len(o.rk) + 1 \/ Len(o.rk) = Len(v.rk) + 1
          /\ Len(v.rk) = Len(o.rk) + 1 => v.rk = Append(o.rk, DH(o.dhs, v.dhs))
    BY <1>7, OtherSide DEF Alternation
  <2>2. ReceivingChains(ini)'
    BY <1>7 DEF ReceivingChains
  <2> QED BY <2>1, <2>2 DEF Alternation
<1>10. SkippedKeys(ini)'
  BY <1>7 DEF SkippedKeys, Below
<1>11. Headers(ini)'
  <2>1. ASSUME NEW m \in sent
        PROVE  LET u == session'[m.from]
                   c == m.key[1] IN
               /\ m.key = <<m.key[1], m.key[2]>> /\ c \in Chains /\ m.key[2] \in Nat
               /\ Len(c) >= 2 /\ m.n = m.key[2] /\ Indexed(ini, m.from, m.dh, c)
               /\ PrefixOf(c, u.rk) /\ (Len(c) = Len(u.rk) => m.pn = u.pn)
               /\ Len(c) + 2 = Len(u.rk) => m.key[2] < u.pn
    BY <1>7, <1>8 DEF Headers
  <2>2. LET u == session'[e.from]
            c == e.key[1] IN
        /\ e.key = <<e.key[1], e.key[2]>> /\ c \in Chains /\ e.key[2] \in Nat
        /\ Len(c) >= 2 /\ e.n = e.key[2] /\ Indexed(ini, e.from, e.dh, c)
        /\ PrefixOf(c, u.rk) /\ (Len(c) = Len(u.rk) => e.pn = u.pn)
        /\ Len(c) + 2 # Len(u.rk)
    <3>1. Len(s.cks) >= 2 /\ Indexed(ini, p, s.dhs, s.cks) /\ Len(s.cks) + 2 # Len(s.rk)
      BY <1>2 DEF Alternation
    <3>2. PrefixOf(s.cks, s.rk)
      BY <1>2 DEF PrefixOf
    <3> QED BY <1>2, <1>3, <1>7, <3>1, <3>2
  <2> QED BY <1>5, <2>1, <2>2 DEF Headers
<1>12. Counters'
  <2>1. ASSUME NEW o \in Sides, Len(session'[Other(o)].ckr) = Len(session'[o].rk)
        PROVE  session'[Other(o)].nr <= session'[o].ns
    <3>1. Other(o) \in Sides
      BY OtherSide
    <3>2. session[Other(o)].nr <= session[o].ns
      BY <1>7, <2>1, <3>1 DEF Counters
    <3>3. /\ session[Other(o)].nr \in Nat /\ session[o].ns \in Nat /\ session'[o].ns \in Nat
          /\ session'[Other(o)].nr = session[Other(o)].nr /\ session'[o].ns >= session[o].ns
      <4>1. session'[o].ns \in Nat
        BY <1>1, <1>6, <1>2, <1>4, LengthsType
      <4> QED BY <1>1, <1>7, <3>1, <4>1, LengthsType
    <3> QED BY <3>2, <3>3
  <2> QED BY <2>1 DEF Counters
<1>13. ~Below(session[Other(p)], e.key)
  <2> DEFINE o == Other(p)
             u == session[o]
  <2>1. o \in Sides /\ Other(o) = p
    BY OtherSide
  <2>2. Len(u.ckr) \in Nat /\ Len(u.rk) \in Nat /\ u.nr \in Nat
    BY <1>1, <2>1, LengthsType
  <2>3. Len(u.rk) <= Len(s.rk) + 1
    BY <1>2, <2>1, <2>2 DEF Alternation
  <2>4. u.ckr = NoChain \/ Len(u.ckr) + 1 = Len(u.rk)
    BY <2>1 DEF ReceivingChains
  <2>5. ~(Len(s.cks) < Len(u.ckr))
    <3>1. Len(NoChain) = 0
      BY DEF NoChain
    <3> HIDE DEF s, u
    <3> QED BY <1>2, <2>2, <2>3, <2>4, <3>1
  <2>6. s.cks = u.ckr => u.nr <= s.ns
    BY <1>2, <2>1 DEF Counters
  <2> HIDE DEF s, u
  <2> QED BY <1>2, <1>3, <2>2, <2>5, <2>6 DEF Below, u
<1>14. Kept'
  <2>1. ASSUME NEW m \in sent' \ (opened' \cup forgotten'), Below(session'[Other(m.from)], m.key)
        PROVE  m.key \in Keys(session'[Other(m.from)].skipped)
    <3>1. CASE m = e
      <4>1. Other(p) \in Sides
        BY OtherSide
      <4>2. Below(session[Other(p)], e.key)
        BY <1>3, <1>7, <2>1, <3>1, <4>1 DEF Below
      <4> QED BY <1>13, <4>2
    <3>2. CASE m \in sent
      BY <1>5, <1>7, <1>8, <2>1, <3>2 DEF Kept, Below
    <3> QED BY <1>5, <3>1, <3>2
  <2> QED BY <2>1 DEF Kept
<1>15. Gone'
  BY <1>5, <1>7, <1>8 DEF Gone, Below
<1> QED BY <1>1, <1>9, <1>10, <1>11, <1>12, <1>14, <1>15

\* What both kinds of a receipt have in common.
LEMMA ReceiptFrame ==
    ASSUME NEW ini \in Sides, JInv(ini), NEW p \in Sides, NEW m \in sent, Receive(p, m)
    PROVE  LET t == AfterDecrypt(session[p], m, Fresh(p))
               o == Other(p) IN
           /\ session'[p] = t /\ session'[o] = session[o] /\ sent' = sent
           /\ opened' = opened \cup {m} /\ forgotten \subseteq forgotten'
           /\ o \in Sides /\ o # p /\ Other(o) = p /\ m.from = o
           /\ Sides = {p, o}
           /\ Ready(session[p]) /\ Opens(session[p], m, Fresh(p)) /\ Fresh(p) \in Names
           /\ m.n \in Nat /\ m.pn \in Nat /\ m.dh \in Names
           /\ m.key = <<m.key[1], m.n>> /\ m.key[1] \in Chains /\ m.key[2] = m.n
<1> USE DEF JInv, Meeting, IInv
<1>1. /\ session' = [session EXCEPT ![p] = AfterDecrypt(session[p], m, Fresh(p))]
      /\ sent' = sent /\ opened' = opened \cup {m} /\ forgotten \subseteq forgotten'
      /\ m.from = Other(p) /\ Opens(session[p], m, Fresh(p))
  BY DEF Receive
<1>2. Other(p) \in Sides /\ Other(p) # p /\ Other(Other(p)) = p /\ Sides = {p, Other(p)}
  BY OtherSide
<1>3. /\ session'[p] = AfterDecrypt(session[p], m, Fresh(p))
      /\ session'[Other(p)] = session[Other(p)]
  BY <1>1, <1>2 DEF Types
<1>4. Fresh(p) \in Names
  BY LengthsType DEF Fresh, KeyPair, Names
<1>5. m.key = <<m.key[1], m.n>> /\ m.key[1] \in Chains /\ m.key[2] = m.n
  BY DEF Headers
<1>6. m.n \in Nat /\ m.pn \in Nat /\ m.dh \in Names
  BY DEF Types
<1> QED BY <1>1, <1>2, <1>3, <1>4, <1>5, <1>6, IsReady

\* A message of the current chain is not beyond what its sender has sealed with it.
LEMMA NotBeyond ==
    ASSUME NEW ini \in Sides, Types, SendingChains(ini), SealedBefore(ini), NEW m \in sent, m.key[1] # NoChain,
           m.key[1] \in Chains, Len(m.key[1]) = Len(session[m.from].rk)
    PROVE  m.key[2] < session[m.from].ns
<1>1. m.from \in Sides
  BY DEF Types
<1>2. Len(m.key[1]) \in Nat \ {0}
  BY DEF SealedBefore
<1> DEFINE s == session[m.from]
<1>3. Len(s.cks) \in Nat /\ Len(s.rk) \in Nat /\ Len(NoChain) = 0
  BY <1>1, LengthsType
<1>4. s.cks = NoChain \/ s.cks = s.rk
  BY <1>1 DEF SendingChains
<1>5. Len(m.key[1]) < Len(s.cks) \/ m.key[2] < s.ns
  BY DEF SealedBefore
<1> HIDE DEF s
<1>6. ~(Len(m.key[1]) < Len(s.cks))
  BY <1>2, <1>3, <1>4 DEF s
<1> QED BY <1>5, <1>6 DEF s

\* A receipt that makes no DH step.
LEMMA ReceiveKeepsChain ==
    ASSUME NEW ini \in Sides, JInv(ini), NEW p \in Sides, NEW m \in sent, Receive(p, m),
           Stored(session[p], m) # {} \/ ~IsDhStep(session[p], m)
    PROVE  Meeting(ini)' /\ Kept' /\ Gone'
<1> USE DEF JInv, Meeting, IInv
<1> DEFINE o == Other(p)
           s == session[p]
           u == session[o]
           t == session'[p]
<1>1. /\ t = AfterDecrypt(s, m, Fresh(p)) /\ session'[o] = u /\ sent' = sent
      /\ opened' = opened \cup {m} /\ forgotten \subseteq forgotten'
      /\ o \in Sides /\ o # p /\ Other(o) = p /\ m.from = o /\ Sides = {p, o}
      /\ Ready(s) /\ Opens(s, m, Fresh(p)) /\ Fresh(p) \in Names
      /\ m.n \in Nat /\ m.key = <<m.key[1], m.n>> /\ m.key[1] \in Chains /\ m.key[2] = m.n
  BY ReceiptFrame
<1>2. /\ s.nr \in Nat /\ s.ckr \in Chains /\ Len(s.ckr) \in Nat /\ u.ns \in Nat
      /\ Len(u.rk) \in Nat /\ Len(s.rk) \in Nat
  BY <1>1, LengthsType
<1> DEFINE Old(e) == e \in Held(s.skipped) /\ e.key = m.key /\ t.nr = s.nr
                     /\ Held(t.skipped) = Held(s.skipped) \ {e}
           New == /\ t.nr = m.n + 1 /\ s.ckr # NoChain /\ s.nr <= m.n /\ m.key = <<s.ckr, m.n>>
                  /\ Held(t.skipped) = Held(s.skipped) \cup Skipped(s.dhr, s.ckr, s.nr, m.n)
<1>3. /\ SameKeys(s, t) /\ t.skipped \in Seq(Entries) /\ Distinct(t.skipped)
      /\ New \/ \E e : Old(e)
  <2>1. CASE Stored(s, m) # {}
    <3> HIDE DEF JInv, Meeting, IInv, s, t
    <3>1. LET a == AfterDecrypt(s, m, Fresh(p)) IN
          /\ SameKeys(s, a) /\ a.nr = s.nr
          /\ a.skipped \in Seq(Entries) /\ Distinct(a.skipped)
          /\ \E e \in Held(s.skipped) :
                e.key = m.key /\ Held(a.skipped) = Held(s.skipped) \ {e}
      BY <1>1, <2>1, OpenStored
    <3>2. /\ SameKeys(s, t) /\ t.nr = s.nr /\ t.skipped \in Seq(Entries) /\ Distinct(t.skipped)
          /\ \E e \in Held(s.skipped) :
                e.key = m.key /\ Held(t.skipped) = Held(s.skipped) \ {e}
      BY <1>1, <3>1
    <3>3. \E e : Old(e)
      BY <3>2
    <3> QED BY <3>2, <3>3
  <2>2. CASE Stored(s, m) = {}
    <3> DEFINE k == IF m.n <= s.nr THEN s.nr ELSE m.n
               a == AfterDecrypt(s, m, Fresh(p))
    <3>1. /\ SameKeys(s, a) /\ a.nr = k + 1
          /\ s.ckr # NoChain /\ m.key = <<s.ckr, k>>
          /\ a.skipped \in Seq(Entries) /\ Distinct(a.skipped)
          /\ Held(a.skipped) = Held(s.skipped) \cup Skipped(s.dhr, s.ckr, s.nr, k)
      BY <1>1, <2>2, OpenChain
    <3>2. k = m.n /\ s.nr <= m.n
      <4>1. m.n = k
        BY <1>1, <3>1
      <4> QED BY <1>1, <1>2, <4>1
    <3> HIDE DEF t, k
    <3> QED BY <1>1, <3>1, <3>2
  <2> QED BY <2>1, <2>2
<1>4. /\ t.dhs = s.dhs /\ t.dhr = s.dhr /\ t.rk = s.rk /\ t.cks = s.cks /\ t.ckr = s.ckr
      /\ t.ns = s.ns /\ t.pn = s.pn
  BY <1>3 DEF SameKeys
<1>5. ASSUME NEW key, key[2] \in Nat, Below(s, key) PROVE Below(t, key)
  <2>1. CASE t.nr = s.nr
    BY <1>4, <1>5, <2>1 DEF Below
  <2>2. CASE New
    <3>1. ASSUME key[2] < s.nr PROVE key[2] < t.nr
      <4>1. t.nr = m.n + 1 /\ s.nr <= m.n
        BY <2>2
      <4> HIDE DEF s, t
      <4> QED BY <1>1, <1>2, <1>5, <3>1, <4>1
    <3> QED BY <1>4, <1>5, <3>1 DEF Below
  <2> QED BY <1>3, <2>1, <2>2
<1>6. \A q \in Sides :
        /\ session'[q].dhs = session[q].dhs /\ session'[q].dhr = session[q].dhr
        /\ session'[q].rk = session[q].rk /\ session'[q].cks = session[q].cks
        /\ session'[q].ckr = session[q].ckr /\ session'[q].ns = session[q].ns
        /\ session'[q].pn = session[q].pn
  BY <1>1, <1>4
<1>7. ASSUME NEW e \in Skipped(s.dhr, s.ckr, s.nr, m.n), New
      PROVE  /\ Below(t, e.key) /\ ~Below(s, e.key) /\ e.key # m.key /\ e.dh = s.dhr
             /\ e.key[1] = s.ckr /\ e.n = e.key[2]
  <2>1. PICK n \in s.nr..(m.n - 1) : e = [dh |-> s.dhr, n |-> n, key |-> <<s.ckr, n>>]
    BY DEF Skipped
  <2>2. n < t.nr /\ ~(n < s.nr) /\ n # m.n
    BY <1>1, <1>2, <1>7
  <2>3. e.key = <<s.ckr, n>> /\ e.n = n /\ e.dh = s.dhr
    BY <2>1
  <2> HIDE DEF s, t
  <2> QED BY <1>2, <1>4, <1>7, <2>2, <2>3 DEF Below
<1>8. Alternation(ini)'
  BY <1>6, OtherSide DEF Alternation
<1>9. Headers(ini)'
  <2>1. \A x \in sent : x.from \in Sides
    BY DEF Types
  <2> QED BY <1>1, <1>6, <2>1 DEF Headers
<1>10. ReceivingChains(ini)'
  <2>1. t.ckr = NoChain => t.nr = 0
    <3>1. CASE New
      BY <1>4, <3>1
    <3>2. CASE t.nr = s.nr
      BY <1>4, <3>2 DEF ReceivingChains
    <3> QED BY <1>3, <3>1, <3>2
  <2>2. \A q \in Sides : session'[q].ckr = NoChain => session'[q].nr = 0
    BY <1>1, <2>1 DEF ReceivingChains
  <2> QED BY <1>6, <2>2 DEF ReceivingChains
<1>11. SkippedKeys(ini)'
  <2>1. ASSUME NEW e \in Held(t.skipped)
        PROVE  /\ Below(t, e.key) /\ e.n = e.key[2]
               /\ Indexed(ini, o, e.dh, e.key[1]) /\ PrefixOf(e.key[1], t.rk)
    <3>1. CASE e \in Held(s.skipped)
      <4>1. e.key[2] \in Nat
        BY <1>1, <3>1, HeldType DEF Ready
      <4> QED BY <1>4, <1>5, <3>1, <4>1 DEF SkippedKeys
    <3>2. CASE New /\ e \in Skipped(s.dhr, s.ckr, s.nr, m.n)
      <4>1. Indexed(ini, o, s.dhr, s.ckr) /\ PrefixOf(s.ckr, s.rk)
        BY <3>2 DEF ReceivingChains
      <4> QED BY <1>4, <1>7, <3>2, <4>1
    <3> QED BY <1>3, <2>1, <3>1, <3>2
  <2> QED BY <1>1, <1>3, <2>1 DEF SkippedKeys
<1>12. Counters'
  <2>1. ASSUME Len(t.ckr) = Len(u.rk) PROVE t.nr <= u.ns
    <3>1. CASE t.nr = s.nr
      BY <1>1, <1>4, <2>1, <3>1 DEF Counters
    <3>2. CASE New
      <4>1. m.key[2] < u.ns
        BY <1>1, <1>4, <2>1, <3>2, NotBeyond
      <4> QED BY <1>1, <1>2, <3>2, <4>1
    <3> QED BY <1>3, <3>1, <3>2
  <2>2. ASSUME Len(u.ckr) = Len(t.rk) PROVE u.nr <= t.ns
    BY <1>1, <1>4, <2>2 DEF Counters
  <2> QED BY <1>1, <2>1, <2>2 DEF Counters
<1>13. Kept'
  <2>1. ASSUME NEW x \in sent \ (opened' \cup forgotten'), x.from = o, Below(t, x.key)
        PROVE  x.key \in Keys(t.skipped)
    <3>1. x.key # m.key
      BY <1>1, <2>1 DEF KeysAreFresh
    <3>2. CASE Below(s, x.key)
      <4>1. x.key \in Keys(s.skipped)
        BY <1>1, <2>1, <3>2 DEF Kept
      <4>2. PICK f \in Held(s.skipped) : f.key = x.key
        BY <4>1, KeysHeld
      <4>3. f \in Held(t.skipped)
        BY <1>3, <3>1, <4>2
      <4> QED BY <4>2, <4>3, KeysHeld
    <3>3. CASE ~Below(s, x.key)
      <4>1. New
        BY <1>3, <1>4, <2>1, <3>3 DEF Below
      <4>2. x.key = <<x.key[1], x.key[2]>> /\ x.key[2] \in Nat
        BY DEF Headers
      <4>3. x.key[1] = s.ckr /\ x.key[2] < m.n + 1 /\ ~(x.key[2] < s.nr)
        BY <1>4, <2>1, <3>3, <4>1 DEF Below
      <4>4. x.key[2] # m.n
        BY <3>1, <4>1, <4>2, <4>3
      <4>5. x.key[2] \in s.nr..(m.n - 1)
        BY <1>1, <1>2, <4>2, <4>3, <4>4
      <4> DEFINE f == [dh |-> s.dhr, n |-> x.key[2], key |-> <<s.ckr, x.key[2]>>]
      <4>6. f \in Held(t.skipped) /\ f.key = x.key
        BY <4>1, <4>2, <4>3, <4>5 DEF Skipped
      <4> HIDE DEF f
      <4> QED BY <4>6, KeysHeld
    <3> QED BY <3>2, <3>3
  <2>2. ASSUME NEW x \in sent \ (opened' \cup forgotten'), x.from = p, Below(u, x.key)
        PROVE  x.key \in Keys(u.skipped)
    BY <1>1, <2>2 DEF Kept
  <2>3. \A x \in sent : x.from = o \/ x.from = p
    BY <1>1 DEF Types
  <2>4. u.skipped = session'[o].skipped
    BY <1>1
  <2> QED BY <1>1, <2>1, <2>2, <2>3 DEF Kept, Below
<1>14. Gone'
  <2>1. Below(t, m.key) /\ m.key \notin Keys(t.skipped)
    <3>1. ASSUME NEW e, Old(e) PROVE Below(t, m.key) /\ m.key \notin Keys(t.skipped)
      <4>1. Below(t, m.key)
        BY <1>1, <1>5, <3>1 DEF SkippedKeys
      <4>2. \A f \in Held(t.skipped) : f.key # m.key
        BY <1>1, <3>1, OneEntry DEF Ready
      <4> QED BY <4>1, <4>2, KeysHeld
    <3>2. ASSUME New PROVE Below(t, m.key) /\ m.key \notin Keys(t.skipped)
      <4>1. m.key[1] = s.ckr /\ m.n < t.nr /\ ~(m.n < s.nr)
        BY <1>1, <1>2, <3>2
      <4>2. Below(t, m.key) /\ ~Below(s, m.key)
        BY <1>1, <1>2, <1>4, <4>1 DEF Below
      <4>3. \A f \in Held(t.skipped) : f.key # m.key
        BY <1>1, <1>7, <3>2, <4>2 DEF Ready
      <4> QED BY <4>2, <4>3, KeysHeld
    <3> QED BY <1>3, <3>1, <3>2
  <2>2. ASSUME NEW x \in opened, x.from = o
        PROVE  Below(t, x.key) /\ x.key \notin Keys(t.skipped)
    <3>1. Below(s, x.key) /\ x.key \notin Keys(s.skipped)
      BY <1>1, <2>2 DEF Gone
    <3>2. \A f \in Held(t.skipped) : f.key # x.key
      BY <1>3, <1>7, <3>1, KeysHeld
    <3>3. x.key[2] \in Nat
      BY DEF Gone, Headers
    <3> QED BY <1>5, <3>1, <3>2, <3>3, KeysHeld
  <2>3. ASSUME NEW x \in opened, x.from = p
        PROVE  Below(u, x.key) /\ x.key \notin Keys(u.skipped)
    BY <1>1, <2>3 DEF Gone
  <2>4. \A x \in sent : x.from = o \/ x.from = p
    BY <1>1 DEF Types
  <2>5. opened' \subseteq sent /\ \A x \in opened' : x.from = o \/ x.from = p
    BY <1>1, <2>4 DEF Gone
  <2>6. \A x \in opened' : x.from = o => Below(t, x.key) /\ x.key \notin Keys(t.skipped)
    BY <1>1, <2>1, <2>2
  <2>7. \A x \in opened' : x.from = p => Below(u, x.key) /\ x.key \notin Keys(u.skipped)
    BY <1>1, <2>3
  <2> QED BY <1>1, <2>5, <2>6, <2>7 DEF Gone, Below
<1> QED BY <1>8, <1>9, <1>10, <1>11, <1>12, <1>13, <1>14

\* A receipt that makes a DH step: the receiver was the shorter side, and what it derives
\* is the root key the sender sealed with.
LEMMA StepMeets ==
    ASSUME NEW ini \in Sides, JInv(ini), NEW p \in Sides, NEW m \in sent, Receive(p, m),
           Stored(session[p], m) = {}, IsDhStep(session[p], m)
    PROVE  LET s == session[p]
               u == session[Other(p)]
               t == session'[p]
               old == Skip(s, m.pn) IN
           /\ t.ckr = u.rk /\ t.rk = Append(u.rk, DH(u.dhs, t.dhs)) /\ t.dhs = Fresh(p)
           /\ u.rk = Append(s.rk, DH(s.dhs, u.dhs)) /\ m.dh = u.dhs /\ t.dhr = u.dhs
           /\ t.cks = t.rk /\ t.ns = 0 /\ t.pn = s.ns /\ t.nr = m.n + 1
           /\ m.key = <<u.rk, m.n>> /\ m.pn = u.pn
           /\ t.skipped \in Seq(Entries) /\ Distinct(t.skipped)
           /\ Held(t.skipped) \subseteq Held(old.skipped) \cup Skipped(u.dhs, u.rk, 0, m.n)
           /\ Skipped(u.dhs, u.rk, 0, m.n) \subseteq Held(t.skipped)
           /\ Held(old.skipped) = Held(s.skipped) \cup
                 Ending(s, u.pn)
           /\ Len(u.rk) = Len(s.rk) + 1 /\ Len(t.rk) = Len(s.rk) + 2
           /\ PrefixOf(s.rk, u.rk) /\ PrefixOf(u.rk, t.rk)
<1> USE DEF JInv, Meeting, IInv
<1> DEFINE o == Other(p)
           s == session[p]
           u == session[o]
           t == session'[p]
           a == AfterDecrypt(s, m, Fresh(p))
           old == Skip(s, m.pn)
<1>1. /\ t = a /\ o \in Sides /\ o # p /\ Other(o) = p /\ m.from = o
      /\ Ready(s) /\ Opens(s, m, Fresh(p)) /\ Fresh(p) \in Names
      /\ m.n \in Nat /\ m.pn \in Nat /\ m.dh \in Names
      /\ m.key = <<m.key[1], m.n>> /\ m.key[1] \in Chains /\ m.key[2] = m.n
  BY ReceiptFrame
<1>2. /\ s.rk \in Chains /\ u.rk \in Chains /\ Len(s.rk) \in Nat /\ Len(u.rk) \in Nat
      /\ s.dhs \in Names /\ u.dhs \in Names
  BY <1>1, LengthsType
<1>3. Stepped(s, m, Fresh(p), a)
  BY <1>1, OpenStep
<1> HIDE DEF a, t, old
<1>4. DH(s.dhs, m.dh) \in Terms /\ DH(Fresh(p), m.dh) \in Terms
  BY <1>1, <1>2 DEF DH, Terms
<1>5. /\ a.ckr \in Chains /\ Len(a.ckr) = Len(s.rk) + 1 /\ PrefixOf(s.rk, a.ckr)
      /\ Len(a.rk) = Len(a.ckr) + 1 /\ PrefixOf(a.ckr, a.rk)
  <2>1. a.ckr \in Chains /\ Len(a.ckr) = Len(s.rk) + 1 /\ PrefixOf(s.rk, a.ckr)
    BY <1>2, <1>3, <1>4, PrefixAppend DEF Stepped
  <2> QED BY <1>3, <1>4, <2>1, PrefixAppend DEF Stepped
<1>6. m.key[1] = a.ckr
  BY <1>3 DEF Stepped
<1>7. PrefixOf(a.ckr, u.rk) /\ Indexed(ini, o, m.dh, a.ckr)
      /\ (Len(a.ckr) = Len(u.rk) => m.pn = u.pn)
  BY <1>1, <1>6 DEF Headers
<1>8. Len(u.rk) = Len(s.rk) + 1
  <2>1. Len(a.ckr) <= Len(u.rk)
    BY <1>7 DEF PrefixOf
  <2>2. Len(s.rk) = Len(u.rk) + 1 \/ Len(u.rk) = Len(s.rk) + 1
    BY <1>1 DEF Alternation
  <2> HIDE DEF s, u
  <2> QED BY <1>2, <1>5, <2>1, <2>2
<1>9. u.rk = a.ckr /\ m.pn = u.pn
  <2>1. PrefixOf(u.rk, u.rk)
    BY <1>2 DEF PrefixOf
  <2> QED BY <1>2, <1>5, <1>7, <1>8, <2>1, SameLength
<1>10. m.dh = u.dhs
  <2>1. Indexed(ini, o, u.dhs, u.rk)
    BY <1>1 DEF Alternation
  <2> QED BY <1>1, <1>2, <1>7, <1>9, <2>1, OneIndex
<1>11. DH(Fresh(p), m.dh) = DH(u.dhs, Fresh(p))
  BY <1>10 DEF DH
<1> HIDE DEF s, u
<1>12. Len(a.rk) = Len(s.rk) + 2
  BY <1>2, <1>5
<1> QED
  BY <1>1, <1>3, <1>5, <1>8, <1>9, <1>10, <1>11, <1>12 DEF s, u, t, o, old, Stepped

\* The keys of a receipt that makes a DH step.
LEMMA ReceiveKeepsStep ==
    ASSUME NEW ini \in Sides, JInv(ini), NEW p \in Sides, NEW m \in sent, Receive(p, m),
           Stored(session[p], m) = {}, IsDhStep(session[p], m)
    PROVE  Meeting(ini)' /\ Kept' /\ Gone'
<1> USE DEF JInv, Meeting, IInv
<1> DEFINE o == Other(p)
           s == session[p]
           u == session[o]
           t == session'[p]
           old == Skip(s, m.pn)
<1>1. /\ t = AfterDecrypt(s, m, Fresh(p)) /\ session'[o] = u /\ sent' = sent
      /\ opened' = opened \cup {m} /\ forgotten \subseteq forgotten'
      /\ o \in Sides /\ o # p /\ Other(o) = p /\ m.from = o /\ Sides = {p, o}
      /\ Ready(s) /\ Fresh(p) \in Names
      /\ m.n \in Nat /\ m.dh \in Names /\ m.key[2] = m.n
  BY ReceiptFrame
<1>2. /\ t.ckr = u.rk /\ t.rk = Append(u.rk, DH(u.dhs, t.dhs)) /\ t.dhs = Fresh(p)
      /\ u.rk = Append(s.rk, DH(s.dhs, u.dhs)) /\ m.dh = u.dhs /\ t.dhr = u.dhs
      /\ t.cks = t.rk /\ t.ns = 0 /\ t.pn = s.ns /\ t.nr = m.n + 1
      /\ m.key = <<u.rk, m.n>> /\ m.pn = u.pn
      /\ t.skipped \in Seq(Entries) /\ Distinct(t.skipped)
      /\ Held(t.skipped) \subseteq Held(old.skipped) \cup Skipped(u.dhs, u.rk, 0, m.n)
      /\ Skipped(u.dhs, u.rk, 0, m.n) \subseteq Held(t.skipped)
      /\ Held(old.skipped) = Held(s.skipped) \cup
            Ending(s, u.pn)
      /\ Len(u.rk) = Len(s.rk) + 1 /\ Len(t.rk) = Len(s.rk) + 2
      /\ PrefixOf(s.rk, u.rk) /\ PrefixOf(u.rk, t.rk)
  BY StepMeets
<1>20. t.dhs = Fresh(p) /\ t.ckr = u.rk /\ t.nr = m.n + 1 /\ m.key = <<u.rk, m.n>>
  BY <1>2
<1>21. t.skipped \in Seq(Entries) /\ Distinct(t.skipped)
  BY <1>2
<1>22. session'[o] = u /\ Sides = {p, o} /\ Other(o) = p /\ o # p
  BY <1>1
<1>3. /\ s.nr \in Nat /\ s.ckr \in Chains /\ Len(s.ckr) \in Nat /\ u.ns \in Nat
      /\ u.rk \in Chains /\ Len(u.rk) \in Nat /\ s.rk \in Chains /\ Len(s.rk) \in Nat
      /\ s.dhs[2] \in Nat /\ u.dhs \in Names /\ u.pn \in Nat /\ u.nr \in Nat /\ s.ns \in Nat
      /\ Len(NoChain) = 0 /\ Len(u.ckr) \in Nat /\ u.dhs[2] \in Nat
  BY <1>1, LengthsType
<1>4. t.rk \in Chains
  <2>1. DH(u.dhs, t.dhs) \in Terms
    BY <1>1, <1>2, <1>3 DEF DH, Terms
  <2> HIDE DEF t
  <2> QED BY <1>2, <1>3, <2>1, PrefixAppend
<1>5. Indexed(ini, p, s.dhs, s.rk) /\ Indexed(ini, o, u.dhs, u.rk)
  BY <1>1 DEF Alternation
<1>6. u.rk # NoChain
  <2>1. Len(u.rk) = Len(s.rk) + 1 /\ Len(s.rk) \in Nat /\ Len(NoChain) = 0
    BY <1>2, <1>3
  <2> HIDE DEF s, u
  <2> QED BY <2>1
<1>7. Len(s.ckr) <= Len(s.rk) /\ (s.ckr # NoChain => Len(s.ckr) + 1 = Len(s.rk))
  <2>1. Len(s.ckr) <= Len(s.rk)
    <3>1. Ready(s)
      BY <1>1
    <3> QED BY <3>1 DEF Ready
  <2>2. s.ckr # NoChain => Len(s.ckr) + 1 = Len(s.rk)
    BY DEF ReceivingChains
  <2> QED BY <2>1, <2>2
<1> HIDE DEF t, old
<1>8. Alternation(ini)'
  <2>1. Indexed(ini, p, t.dhs, t.rk)
    <3>1. t.dhs[1] = p /\ t.dhs[2] = s.dhs[2] + 1
      BY <1>20 DEF Fresh, KeyPair
    <3>2. Parity(ini, p) \in Nat /\ Len(s.rk) = 2 * s.dhs[2] + Parity(ini, p)
      BY <1>5 DEF Indexed, Parity
    <3>3. 2 * (s.dhs[2] + 1) + Parity(ini, p) = Len(s.rk) + 2
      <4> HIDE DEF s
      <4>1. s.dhs[2] \in Nat
        BY <1>3
      <4> QED BY <3>2, <4>1
    <3> QED BY <1>2, <3>1, <3>3 DEF Indexed
  <2>2. Len(t.rk) >= 2 /\ Len(t.rk) = Len(u.rk) + 1 /\ Len(u.rk) # Len(t.rk) + 1
    <3> HIDE DEF s, u
    <3> QED BY <1>2, <1>3
  <2>3. LET q == p
            r == o IN
        /\ Indexed(ini, q, session'[q].dhs, session'[q].rk)
        /\ session'[q].cks # NoChain => Len(session'[q].rk) >= 2
        /\ Len(session'[q].rk) = Len(session'[r].rk) + 1
              \/ Len(session'[r].rk) = Len(session'[q].rk) + 1
        /\ Len(session'[q].rk) = Len(session'[r].rk) + 1 =>
              session'[q].rk = Append(session'[r].rk, DH(session'[r].dhs, session'[q].dhs))
    BY <1>1, <1>2, <2>1, <2>2 DEF t
  <2>4. LET q == o
            r == p IN
        /\ Indexed(ini, q, session'[q].dhs, session'[q].rk)
        /\ session'[q].cks # NoChain => Len(session'[q].rk) >= 2
        /\ Len(session'[q].rk) = Len(session'[r].rk) + 1
              \/ Len(session'[r].rk) = Len(session'[q].rk) + 1
        /\ Len(session'[q].rk) = Len(session'[r].rk) + 1 =>
              session'[q].rk = Append(session'[r].rk, DH(session'[r].dhs, session'[q].dhs))
    <3>1. u.cks # NoChain => Len(u.rk) >= 2
      BY <1>1 DEF Alternation
    <3> QED BY <1>1, <1>5, <2>2, <3>1 DEF t
  <2> QED BY <1>22, <2>3, <2>4 DEF Alternation
<1>9. ReceivingChains(ini)'
  <2>1. /\ t.ckr # NoChain /\ Len(t.ckr) + 1 = Len(t.rk) /\ PrefixOf(t.ckr, t.rk)
        /\ t.dhr \in Names /\ Indexed(ini, o, t.dhr, t.ckr)
    <3>1. Len(u.rk) + 1 = Len(t.rk)
      <4> HIDE DEF s, u
      <4> QED BY <1>2, <1>3
    <3> QED BY <1>2, <1>3, <1>5, <1>6, <3>1
  <2>2. /\ u.ckr = NoChain => /\ u.nr = 0 /\ Len(u.rk) = Base(ini, o)
                              /\ u.dhr \in {NoPub, KeyPair(Other(ini), 0)}
        /\ u.ckr # NoChain => /\ Len(u.ckr) + 1 = Len(u.rk) /\ PrefixOf(u.ckr, u.rk)
                              /\ u.dhr \in Names /\ Indexed(ini, p, u.dhr, u.ckr)
    BY <1>1 DEF ReceivingChains
  <2> QED BY <1>22, <2>1, <2>2 DEF ReceivingChains, t
<1>10. ASSUME NEW e \in Skipped(u.dhs, u.rk, 0, m.n)
       PROVE  /\ e.key[1] = u.rk /\ e.key[2] < m.n /\ e.key[2] \in Nat /\ e.dh = u.dhs
              /\ e.n = e.key[2] /\ e.key # m.key /\ Below(t, e.key)
  <2>1. PICK n \in 0..(m.n - 1) : e = [dh |-> u.dhs, n |-> n, key |-> <<u.rk, n>>]
    BY DEF Skipped
  <2>2. e.key = <<u.rk, n>> /\ e.n = n /\ e.dh = u.dhs
    BY <2>1
  <2>3. n \in Nat /\ n < m.n /\ n < t.nr
    <3>1. m.n \in Nat
      BY <1>1
    <3> QED BY <1>20, <3>1
  <2>4. <<u.rk, n>> # m.key
    <3>1. m.key = <<u.rk, m.n>> /\ m.n \in Nat
      BY <1>1, <1>20
    <3> HIDE DEF u
    <3> QED BY <2>3, <3>1
  <2> HIDE DEF u
  <2> QED BY <1>20, <2>2, <2>3, <2>4 DEF Below
<1>11. ASSUME NEW e \in Held(old.skipped)
       PROVE  /\ e.n = e.key[2] /\ Indexed(ini, o, e.dh, e.key[1]) /\ PrefixOf(e.key[1], s.rk)
              /\ Len(e.key[1]) <= Len(s.ckr) /\ Len(e.key[1]) \in Nat /\ e.key[1] \in Chains
              /\ e \in Held(s.skipped) \/ ~Below(s, e.key)
  <2>1. CASE e \in Held(s.skipped)
    <3>1. Below(s, e.key) /\ e.n = e.key[2] /\ Indexed(ini, o, e.dh, e.key[1])
          /\ PrefixOf(e.key[1], s.rk)
      BY <2>1 DEF SkippedKeys
    <3>2. Len(e.key[1]) \in Nat /\ e.key[1] \in Chains
      BY <1>1, <2>1, HeldType DEF Ready
    <3>3. Len(e.key[1]) <= Len(s.ckr)
      BY <1>3, <3>1, <3>2 DEF Below
    <3> QED BY <2>1, <3>1, <3>2, <3>3
  <2>2. CASE e \in Ending(s, u.pn)
    <3>0. s.ckr # NoChain /\ e \in Skipped(s.dhr, s.ckr, s.nr, u.pn)
      BY <2>2 DEF Ending
    <3>1. PICK n \in s.nr..(u.pn - 1) : e = [dh |-> s.dhr, n |-> n, key |-> <<s.ckr, n>>]
      BY <3>0 DEF Skipped
    <3>2. e.key = <<s.ckr, n>> /\ e.n = n /\ e.dh = s.dhr
      BY <3>1
    <3>3. Indexed(ini, o, s.dhr, s.ckr) /\ PrefixOf(s.ckr, s.rk)
      BY <3>0 DEF ReceivingChains
    <3>4. ~(n < s.nr)
      BY <1>3
    <3> HIDE DEF s
    <3>5. ~Below(s, e.key)
      BY <1>3, <3>2, <3>4 DEF Below
    <3> QED BY <1>3, <3>2, <3>3, <3>5
  <2> QED BY <1>2, <1>11, <2>1, <2>2
<1>12. ASSUME NEW key, Len(key[1]) \in Nat, Len(key[1]) <= Len(s.ckr)
       PROVE  Below(t, key) /\ Len(key[1]) # Len(u.rk)
  <2>1. Len(key[1]) < Len(t.ckr) /\ Len(key[1]) # Len(u.rk)
    <3>1. t.ckr = u.rk /\ Len(u.rk) = Len(s.rk) + 1
      BY <1>2
    <3> HIDE DEF s, u
    <3> QED BY <1>3, <1>7, <1>12, <3>1
  <2> QED BY <2>1 DEF Below
<1>13. SkippedKeys(ini)'
  <2>1. ASSUME NEW e \in Held(t.skipped)
        PROVE  /\ Below(t, e.key) /\ e.n = e.key[2]
               /\ Indexed(ini, o, e.dh, e.key[1]) /\ PrefixOf(e.key[1], t.rk)
    <3>1. CASE e \in Held(old.skipped)
      <4>1. e.n = e.key[2] /\ Indexed(ini, o, e.dh, e.key[1]) /\ PrefixOf(e.key[1], s.rk)
            /\ e.key[1] \in Chains /\ Len(e.key[1]) \in Nat /\ Len(e.key[1]) <= Len(s.ckr)
        BY <1>11, <3>1
      <4>2. PrefixOf(e.key[1], t.rk)
        <5>1. PrefixOf(e.key[1], u.rk)
          BY <1>2, <1>3, <4>1, PrefixTrans
        <5> QED BY <1>2, <1>3, <1>4, <4>1, <5>1, PrefixTrans
      <4> QED BY <1>12, <4>1, <4>2
    <3>2. CASE e \in Skipped(u.dhs, u.rk, 0, m.n)
      BY <1>2, <1>5, <1>10, <3>2
    <3> QED BY <1>2, <2>1, <3>1, <3>2
  <2>2. /\ u.skipped \in Seq(Entries) /\ Distinct(u.skipped)
        /\ \A e \in Held(u.skipped) :
              /\ Below(u, e.key) /\ e.n = e.key[2]
              /\ Indexed(ini, p, e.dh, e.key[1]) /\ PrefixOf(e.key[1], u.rk)
    BY <1>1 DEF SkippedKeys
  <2> QED BY <1>21, <1>22, <2>1, <2>2 DEF SkippedKeys, t
<1>14. Headers(ini)'
  <2>1. ASSUME NEW x \in sent, x.from = p
        PROVE  LET c == x.key[1] IN
               /\ x.key = <<x.key[1], x.key[2]>> /\ c \in Chains /\ x.key[2] \in Nat
               /\ Len(c) >= 2 /\ x.n = x.key[2] /\ Indexed(ini, x.from, x.dh, c)
               /\ PrefixOf(c, t.rk)
               /\ Len(c) = Len(t.rk) => x.pn = t.pn
               /\ Len(c) + 2 = Len(t.rk) => x.key[2] < t.pn
    <3> DEFINE c == x.key[1]
    <3>1. /\ x.key = <<x.key[1], x.key[2]>> /\ c \in Chains /\ x.key[2] \in Nat
          /\ Len(c) >= 2 /\ x.n = x.key[2] /\ Indexed(ini, x.from, x.dh, c) /\ PrefixOf(c, s.rk)
      BY <2>1 DEF Headers
    <3>2. PrefixOf(c, t.rk)
      <4>1. PrefixOf(c, u.rk)
        BY <1>2, <1>3, <3>1, PrefixTrans
      <4> QED BY <1>2, <1>3, <1>4, <3>1, <4>1, PrefixTrans
    <3>3. Len(c) <= Len(s.rk) /\ Len(c) \in Nat
      BY <3>1, LenProperties DEF PrefixOf, Chains
    <3>4. Len(c) # Len(t.rk)
      BY <1>2, <1>3, <3>3
    <3>5. ASSUME Len(c) + 2 = Len(t.rk) PROVE x.key[2] < t.pn
      <4>1. Len(c) = Len(session[x.from].rk)
        <5>1. Len(c) = Len(s.rk)
          <6>1. Len(t.rk) = Len(s.rk) + 2
            BY <1>2
          <6> HIDE DEF s, c
          <6> QED BY <1>3, <3>3, <3>5, <6>1
        <5> QED BY <2>1, <5>1
      <4>2. c # NoChain
        BY <3>1, <1>3
      <4> QED BY <1>2, <2>1, <3>1, <4>1, <4>2, NotBeyond
    <3> QED BY <3>1, <3>2, <3>4, <3>5
  <2>2. ASSUME NEW x \in sent, x.from = o
        PROVE  LET c == x.key[1] IN
               /\ x.key = <<x.key[1], x.key[2]>> /\ c \in Chains /\ x.key[2] \in Nat
               /\ Len(c) >= 2 /\ x.n = x.key[2] /\ Indexed(ini, x.from, x.dh, c)
               /\ PrefixOf(c, u.rk)
               /\ Len(c) = Len(u.rk) => x.pn = u.pn
               /\ Len(c) + 2 = Len(u.rk) => x.key[2] < u.pn
    BY <2>2 DEF Headers
  <2>3. \A x \in sent : x.from = o \/ x.from = p
    BY <1>1 DEF Types
  <2>4. \A x \in sent' : LET c == x.key[1]
                             v == session'[x.from] IN
               /\ x.key = <<x.key[1], x.key[2]>> /\ c \in Chains /\ x.key[2] \in Nat
               /\ Len(c) >= 2 /\ x.n = x.key[2] /\ Indexed(ini, x.from, x.dh, c)
               /\ PrefixOf(c, v.rk)
               /\ Len(c) = Len(v.rk) => x.pn = v.pn
               /\ Len(c) + 2 = Len(v.rk) => x.key[2] < v.pn
    BY <1>1, <2>1, <2>2, <2>3 DEF t
  <2> QED BY <2>4 DEF Headers
<1>15. Counters'
  <2>1. t.nr <= u.ns
    <3>1. m.key[2] < u.ns
      <4>1. m.key[1] = u.rk
        BY <1>2
      <4> QED BY <1>1, <1>3, <1>6, <4>1, NotBeyond
    <3> HIDE DEF u
    <3> QED BY <1>1, <1>2, <1>3, <3>1
  <2>2. Len(u.ckr) # Len(t.rk)
    <3>1. u.ckr = NoChain \/ Len(u.ckr) + 1 = Len(u.rk)
      BY <1>1 DEF ReceivingChains
    <3>2. Len(u.rk) = Len(s.rk) + 1 /\ Len(t.rk) = Len(s.rk) + 2
      BY <1>2
    <3> HIDE DEF s, u
    <3> QED BY <1>3, <3>1, <3>2
  <2> QED BY <1>22, <2>1, <2>2 DEF Counters, t
<1>16. ASSUME NEW x \in sent
       PROVE x.from = o \/ x.from = p
  BY <1>1 DEF Types
<1>17. Kept'
  <2>1. ASSUME NEW x \in sent \ (opened' \cup forgotten'), x.from = o, Below(t, x.key)
        PROVE  x.key \in Keys(t.skipped)
    <3> DEFINE c == x.key[1]
    <3>0. x.key # m.key
      BY <1>1, <2>1 DEF KeysAreFresh
    <3>1. /\ x.key = <<c, x.key[2]>> /\ c \in Chains /\ x.key[2] \in Nat
          /\ Len(c) >= 2 /\ Indexed(ini, o, x.dh, c) /\ PrefixOf(c, u.rk)
          /\ Len(c) + 2 = Len(u.rk) => x.key[2] < u.pn
      BY <2>1 DEF Headers
    <3>2. Len(c) \in Nat
      BY <3>1, LenProperties DEF Chains
    <3>3. CASE c = u.rk
      <4>1. x.key[2] # m.n /\ x.key[2] < m.n + 1
        <5>1. Below(t, x.key) /\ t.ckr = u.rk /\ t.nr = m.n + 1
          BY <1>20, <2>1
        <5>2. ~(Len(c) < Len(t.ckr))
          BY <1>3, <3>3, <5>1
        <5>3. x.key[2] < m.n + 1
          BY <5>1, <5>2 DEF Below
        <5>4. m.key = <<u.rk, m.n>> /\ x.key = <<u.rk, x.key[2]>>
          BY <1>20, <3>1, <3>3
        <5>5. x.key[2] # m.n
          <6> HIDE DEF u, c
          <6> QED BY <3>0, <5>4
        <5> QED BY <5>3, <5>5
      <4>2. x.key[2] \in 0..(m.n - 1)
        BY <1>1, <3>1, <4>1
      <4> DEFINE f == [dh |-> u.dhs, n |-> x.key[2], key |-> <<u.rk, x.key[2]>>]
      <4>3. f \in Held(t.skipped) /\ f.key = x.key
        BY <1>2, <3>1, <3>3, <4>2 DEF Skipped
      <4> HIDE DEF f
      <4> QED BY <4>3, KeysHeld
    <3>4. CASE c # u.rk
      <4>1. Len(c) + 2 <= Len(u.rk)
        <5>1. Len(c) < Len(u.rk)
          <6>1. Below(t, x.key) /\ t.ckr = u.rk
            BY <1>20, <2>1
          <6> QED BY <3>4, <6>1 DEF Below
        <5>2. Len(c) = 2 * x.dh[2] + Parity(ini, o) /\ Len(u.rk) = 2 * u.dhs[2] + Parity(ini, o)
          BY <1>5, <3>1 DEF Indexed
        <5>3. x.dh[2] \in Nat /\ u.dhs[2] \in Nat /\ Parity(ini, o) \in Nat
          BY <1>3 DEF Parity, Types, Names
        <5>4. \A i, j, k \in Nat : 2 * i + k < 2 * j + k => 2 * i + k + 2 <= 2 * j + k
          OBVIOUS
        <5> HIDE DEF u, c
        <5> QED BY <5>1, <5>2, <5>3, <5>4
      <4>2. x.key \in Keys(old.skipped)
        <5>1. CASE Below(s, x.key)
          <6>1. x.key \in Keys(s.skipped)
            BY <1>1, <2>1, <5>1 DEF Kept
          <6> QED BY <1>2, <6>1, KeysHeld
        <5>2. CASE ~Below(s, x.key)
          <6>1. s.ckr # NoChain
            <7>1. ASSUME s.ckr = NoChain PROVE FALSE
              <8>1. Len(s.rk) = Base(ini, p) /\ Base(ini, p) \in 1..2
                BY <7>1 DEF ReceivingChains, Base
              <8>2. Len(u.rk) = Len(s.rk) + 1
                BY <1>2
              <8> HIDE DEF s, u, c
              <8> QED BY <3>1, <3>2, <4>1, <8>1, <8>2
            <7> QED BY <7>1
          <6>2. ~(Len(c) < Len(s.ckr)) /\ ~(c = s.ckr /\ x.key[2] < s.nr)
            BY <5>2 DEF Below
          <6>3. Len(s.ckr) + 1 = Len(s.rk) /\ PrefixOf(s.ckr, s.rk)
            BY <6>1 DEF ReceivingChains
          <6>4. Len(c) = Len(s.ckr) /\ Len(c) + 2 = Len(u.rk)
            <7>1. Len(u.rk) = Len(s.rk) + 1
              BY <1>2
            <7> HIDE DEF s, u, c
            <7> QED BY <1>3, <3>2, <4>1, <6>2, <6>3, <7>1
          <6>5. c = s.ckr
            BY <1>1, <1>3, <3>1, <6>3, <6>4, OneRoot
          <6>6. x.key[2] \in s.nr..(u.pn - 1)
            <7>1. x.key[2] < u.pn /\ ~(x.key[2] < s.nr)
              BY <3>1, <6>2, <6>4, <6>5
            <7> HIDE DEF s, u
            <7> QED BY <1>3, <3>1, <7>1
          <6> DEFINE f == [dh |-> s.dhr, n |-> x.key[2], key |-> <<s.ckr, x.key[2]>>]
          <6>7. f \in Held(old.skipped) /\ f.key = x.key
            BY <1>2, <3>1, <6>1, <6>5, <6>6 DEF Skipped, Ending
          <6> HIDE DEF f
          <6> QED BY <6>7, KeysHeld
        <5> QED BY <5>1, <5>2
      <4>3. x \notin forgotten' => x.key \in Keys(t.skipped)
        <5>1. forgotten' = forgotten \cup
                {y \in sent : y.key \in Keys(old.skipped) /\ IsDhStep(s, m)
                                /\ Stored(s, m) = {} /\ y.key \notin Keys(t.skipped)}
          BY <1>1 DEF Receive, old
        <5> QED BY <4>2, <5>1
      <4> QED BY <2>1, <4>3
    <3> QED BY <3>3, <3>4
  <2>2. ASSUME NEW x \in sent \ (opened' \cup forgotten'), x.from = p, Below(u, x.key)
        PROVE  x.key \in Keys(u.skipped)
    BY <1>1, <2>2 DEF Kept
  <2>3. ASSUME NEW x \in sent' \ (opened' \cup forgotten'),
               Below(session[Other(x.from)], x.key)'
        PROVE  x.key \in Keys(session[Other(x.from)].skipped)'
    <3>1. x \in sent \ (opened' \cup forgotten') /\ (x.from = o \/ x.from = p)
      BY <1>1, <1>16
    <3>2. session'[o] = u /\ session'[p] = t /\ Other(o) = p
      BY <1>1 DEF t
    <3> HIDE DEF u
    <3>3. CASE x.from = o
      BY <2>1, <2>3, <3>1, <3>2, <3>3
    <3>4. CASE x.from = p
      BY <2>2, <2>3, <3>1, <3>2, <3>4
    <3> QED BY <3>1, <3>3, <3>4
  <2> QED BY <2>3 DEF Kept
<1>18. Gone'
  <2>1. Below(t, m.key) /\ m.key \notin Keys(t.skipped)
    <3>1. Below(t, m.key)
      <4>1. m.key[1] = t.ckr /\ m.key[2] < t.nr
        <5>1. m.n \in Nat
          BY <1>1
        <5> QED BY <1>20, <5>1
      <4> QED BY <4>1 DEF Below
    <3>2. \A f \in Held(t.skipped) : f.key # m.key
      <4>1. m.key[1] = u.rk
        BY <1>20
      <4> QED BY <1>2, <1>10, <1>11, <1>12, <4>1
    <3> QED BY <3>1, <3>2, KeysHeld
  <2>2. ASSUME NEW x \in opened, x.from = o
        PROVE  Below(t, x.key) /\ x.key \notin Keys(t.skipped)
    <3>1. Below(s, x.key) /\ x.key \notin Keys(s.skipped) /\ x \in sent
      BY <1>1, <2>2 DEF Gone
    <3>2. Len(x.key[1]) \in Nat
      BY <3>1 DEF SealedBefore
    <3>3. Len(x.key[1]) <= Len(s.ckr)
      <4>1. Len(x.key[1]) < Len(s.ckr) \/ x.key[1] = s.ckr
        BY <3>1 DEF Below
      <4> QED BY <1>3, <3>2, <4>1
    <3>4. \A f \in Held(t.skipped) : f.key # x.key
      <4>1. \A f \in Held(old.skipped) : f.key # x.key
        BY <1>11, <3>1, KeysHeld
      <4>2. \A f \in Skipped(u.dhs, u.rk, 0, m.n) : f.key # x.key
        BY <1>10, <1>12, <3>2, <3>3
      <4> QED BY <1>2, <4>1, <4>2
    <3> QED BY <1>12, <3>2, <3>3, <3>4, KeysHeld
  <2>3. ASSUME NEW x \in opened, x.from = p
        PROVE  Below(u, x.key) /\ x.key \notin Keys(u.skipped)
    BY <1>1, <2>3 DEF Gone
  <2>5. opened' \subseteq sent /\ \A x \in opened' : x.from = o \/ x.from = p
    BY <1>1, <1>16 DEF Gone
  <2>6. \A x \in opened' : x.from = o => Below(t, x.key) /\ x.key \notin Keys(t.skipped)
    BY <1>1, <2>1, <2>2
  <2>7. \A x \in opened' : x.from = p => Below(u, x.key) /\ x.key \notin Keys(u.skipped)
    BY <1>1, <2>3
  <2> QED BY <1>1, <2>5, <2>6, <2>7 DEF Gone, t
<1> QED BY <1>8, <1>9, <1>13, <1>14, <1>15, <1>17, <1>18

\* A receipt keeps the invariant.
LEMMA ReceiveKeeps ==
    ASSUME NEW ini \in Sides, JInv(ini), NEW p \in Sides, NEW m \in sent, Receive(p, m)
    PROVE  JInv(ini)'
<1>1. IInv(ini)'
  BY ReceiveSound DEF JInv
<1>2. Meeting(ini)' /\ Kept' /\ Gone'
  BY ReceiveKeepsChain, ReceiveKeepsStep
<1> QED BY <1>1, <1>2 DEF JInv

\* The session that both sides have made meets it.
LEMMA InitMeets ==
    ASSUME NEW ini \in Sides, NEW x \in Secrets, Made(ini, x)
    PROVE  JInv(ini)
<1> DEFINE res == Other(ini)
           ki == KeyPair(ini, 1)
           kr == KeyPair(res, 0)
           si == InitSender(x, ki, kr)
           sr == InitReceiver(x, kr)
<1>1. IInv(ini)
  BY InitSound
<1>2. /\ session[ini] = si /\ session[res] = sr
      /\ sent = {} /\ opened = {} /\ forgotten = {}
      /\ Sides = {ini, res} /\ ini # res /\ Other(res) = ini /\ Other(ini) = res
      /\ res \in Sides
  BY OtherSide DEF Made
<1>3. /\ si.dhs = ki /\ si.dhr = kr /\ si.rk = <<x, DH(ki, kr)>> /\ si.ckr = NoChain
      /\ si.nr = 0 /\ si.skipped = << >>
  BY DEF InitSender
<1>4. /\ sr.dhs = kr /\ sr.dhr = NoPub /\ sr.rk = <<x>> /\ sr.ckr = NoChain
      /\ sr.nr = 0 /\ sr.skipped = << >> /\ sr.cks = NoChain
  BY DEF InitReceiver
<1>5. /\ Len(<<x, DH(ki, kr)>>) = 2 /\ Len(<<x>>) = 1
      /\ <<x, DH(ki, kr)>> = Append(<<x>>, DH(kr, ki))
      /\ Len(NoChain) = 0 /\ Base(ini, ini) = 2 /\ Base(ini, res) = 1
      /\ Parity(ini, ini) = 0 /\ Parity(ini, res) = 1
  BY <1>2 DEF DH, NoChain, Base, Parity
<1>6. ki[1] = ini /\ ki[2] = 1 /\ kr[1] = res /\ kr[2] = 0
  BY DEF KeyPair
<1>7. << >> \in Seq(Entries) /\ Distinct(<< >>) /\ Held(<< >>) = {}
  BY DEF Distinct, Held
<1> HIDE DEF si, sr, ki, kr, res
<1>8. Alternation(ini)
  <2>1. Indexed(ini, ini, si.dhs, si.rk) /\ Indexed(ini, res, sr.dhs, sr.rk)
    BY <1>3, <1>4, <1>5, <1>6 DEF Indexed
  <2>2. Len(si.rk) = 2 /\ Len(sr.rk) = 1 /\ si.rk = Append(sr.rk, DH(sr.dhs, si.dhs))
    BY <1>3, <1>4, <1>5
  <2>3. /\ Len(si.rk) >= 2 /\ Len(si.rk) = Len(sr.rk) + 1
        /\ sr.cks = NoChain /\ Len(sr.rk) # Len(si.rk) + 1
    BY <1>4, <2>2
  <2>4. LET s == session[ini]
            o == session[res] IN
        /\ Indexed(ini, ini, s.dhs, s.rk) /\ (s.cks # NoChain => Len(s.rk) >= 2)
        /\ Len(s.rk) = Len(o.rk) + 1 \/ Len(o.rk) = Len(s.rk) + 1
        /\ Len(s.rk) = Len(o.rk) + 1 => s.rk = Append(o.rk, DH(o.dhs, s.dhs))
    BY <1>2, <2>1, <2>2, <2>3
  <2>5. LET s == session[res]
            o == session[ini] IN
        /\ Indexed(ini, res, s.dhs, s.rk) /\ (s.cks # NoChain => Len(s.rk) >= 2)
        /\ Len(s.rk) = Len(o.rk) + 1 \/ Len(o.rk) = Len(s.rk) + 1
        /\ Len(s.rk) = Len(o.rk) + 1 => s.rk = Append(o.rk, DH(o.dhs, s.dhs))
    BY <1>2, <2>1, <2>3
  <2> QED BY <1>2, <2>4, <2>5 DEF Alternation
<1>9. ReceivingChains(ini)
  BY <1>2, <1>3, <1>4, <1>5 DEF ReceivingChains, kr, res
<1>10. SkippedKeys(ini)
  BY <1>2, <1>3, <1>4, <1>7 DEF SkippedKeys
<1>11. Counters
  <2>1. Len(si.ckr) = 0 /\ Len(sr.ckr) = 0 /\ Len(si.rk) = 2 /\ Len(sr.rk) = 1
    BY <1>3, <1>4, <1>5
  <2>2. /\ Len(session[res].ckr) # Len(session[ini].rk)
        /\ Len(session[ini].ckr) # Len(session[res].rk)
    BY <1>2, <2>1
  <2> QED BY <1>2, <2>2 DEF Counters
<1> QED BY <1>1, <1>2, <1>8, <1>9, <1>10, <1>11 DEF JInv, Meeting, Headers, Kept, Gone

\* So does every step.
LEMMA NextKeeps ==
    ASSUME NEW ini \in Sides, JInv(ini), [Next]_vars
    PROVE  JInv(ini)'
<1>1. CASE Next
  BY <1>1, SendKeeps, ReceiveKeeps DEF Next
<1>2. CASE UNCHANGED vars
  <2>1. IInv(ini)'
    BY <1>2, NextSound DEF JInv
  <2> QED BY <1>2, <2>1 DEF vars, JInv, Meeting, Alternation, ReceivingChains, SkippedKeys,
        Headers, Counters, Kept, Gone, Below
<1> QED BY <1>1, <1>2

-----------------------------------------------------------------------------
(* What an attempt makes of an envelope.                                   *)

\* A session has moved past what it sealed with its key pair.
LEMMA SealedBehind ==
    ASSUME NEW ini \in Sides, JInv(ini), NEW m \in sent, m.dh = session[m.from].dhs
    PROVE  m.n < session[m.from].ns
<1> DEFINE p == m.from
           s == session[p]
           c == m.key[1]
<1>1. p \in Sides /\ Indexed(ini, p, m.dh, c) /\ m.n = m.key[2]
  BY DEF JInv, IInv, Types, Meeting, Headers
<1>2. Indexed(ini, p, s.dhs, s.rk) /\ (s.cks = NoChain \/ s.cks = s.rk)
  BY <1>1 DEF JInv, IInv, SendingChains, Meeting, Alternation
<1>3. Len(c) \in Nat \ {0} /\ (Len(c) < Len(s.cks) \/ (c = s.cks /\ m.key[2] < s.ns))
  BY DEF JInv, IInv, SealedBefore
<1>4. Len(c) = Len(s.rk)
  BY <1>1, <1>2 DEF Indexed
<1>5. Len(NoChain) = 0
  BY DEF NoChain
<1> HIDE DEF s, c
<1>6. ~(Len(c) < Len(s.cks))
  BY <1>2, <1>3, <1>4, <1>5
<1> QED BY <1>1, <1>3, <1>6 DEF s, c

\* An envelope that was opened has a key that the receiver no longer derives.
LEMMA MeetsOpenedOnce ==
    ASSUME NEW ini \in Sides, JInv(ini)
    PROVE  OpenedOnce
<1> USE DEF JInv, Meeting, IInv
<1> SUFFICES ASSUME NEW m \in opened, Opens(session[Other(m.from)], m, Fresh(Other(m.from)))
             PROVE  FALSE
  BY DEF OpenedOnce
<1> DEFINE q == Other(m.from)
           s == session[q]
           fresh == Fresh(q)
<1>1. /\ m \in sent /\ m.from \in Sides /\ q \in Sides /\ m.n \in Nat /\ m.pn \in Nat
      /\ m.dh \in Names /\ Opens(s, m, fresh)
  BY OtherSide DEF Gone, Types
<1>2. Ready(s) /\ fresh \in Names
  <2>1. fresh \in Names
    BY <1>1, LengthsType DEF Fresh, KeyPair, Names
  <2> QED BY <1>1, <2>1, IsReady
<1>3. /\ s.nr \in Nat /\ s.rk \in Chains /\ Len(s.rk) \in Nat /\ Len(s.ckr) \in Nat
      /\ s.dhs \in Names
  BY <1>1, LengthsType
<1>4. Below(s, m.key) /\ m.key \notin Keys(s.skipped)
  BY DEF Gone
<1> HIDE DEF s, fresh
<1>5. CASE Stored(s, m) # {}
  BY <1>1, <1>2, <1>4, <1>5, OpenStored, KeysHeld
<1>6. CASE Stored(s, m) = {} /\ ~IsDhStep(s, m)
  <2> DEFINE k == IF m.n <= s.nr THEN s.nr ELSE m.n
  <2>1. m.key = <<s.ckr, k>>
    BY <1>1, <1>2, <1>6, OpenChain
  <2>2. ~(k < s.nr)
    BY <1>1, <1>3
  <2> HIDE DEF k
  <2> QED BY <1>3, <1>4, <2>1, <2>2 DEF Below
<1>7. CASE Stored(s, m) = {} /\ IsDhStep(s, m)
  <2>1. Stepped(s, m, fresh, AfterDecrypt(s, m, fresh))
    BY <1>1, <1>2, <1>7, OpenStep
  <2>2. m.key = <<Append(s.rk, DH(s.dhs, m.dh)), m.n>>
    BY <2>1 DEF Stepped
  <2>3. Len(Append(s.rk, DH(s.dhs, m.dh))) = Len(s.rk) + 1
    <3>1. DH(s.dhs, m.dh) \in Terms
      BY <1>1, <1>3 DEF DH, Terms
    <3> QED BY <1>3, <3>1, PrefixAppend
  <2>4. Len(s.ckr) <= Len(s.rk)
    BY <1>2 DEF Ready
  <2>5. m.key[1] = Append(s.rk, DH(s.dhs, m.dh))
    BY <2>2
  <2>6. ~(Len(m.key[1]) < Len(s.ckr)) /\ m.key[1] # s.ckr
    BY <1>3, <2>3, <2>4, <2>5
  <2> QED BY <1>4, <2>6 DEF Below
<1> QED BY <1>5, <1>6, <1>7

\* A stored key with the header of an envelope is the key of the envelope, and the other
\* way round.
LEMMA HeaderIsKey ==
    ASSUME NEW ini \in Sides, JInv(ini), NEW m \in sent,
           NEW e \in Held(session[Other(m.from)].skipped)
    PROVE  e.key = m.key <=> e.dh = m.dh /\ e.n = m.n
<1> USE DEF JInv, Meeting, IInv
<1> DEFINE o == m.from
           q == Other(o)
           s == session[q]
<1>1. o \in Sides /\ q \in Sides /\ Other(q) = o /\ m.dh \in Names
  BY OtherSide DEF Types
<1>2. /\ m.key = <<m.key[1], m.key[2]>> /\ m.key[1] \in Chains /\ m.n = m.key[2]
      /\ Indexed(ini, o, m.dh, m.key[1]) /\ PrefixOf(m.key[1], session[o].rk)
  BY DEF Headers
<1>3. s.skipped \in Seq(Entries) /\ e.n = e.key[2] /\ Indexed(ini, o, e.dh, e.key[1])
      /\ PrefixOf(e.key[1], s.rk)
  BY <1>1 DEF SkippedKeys
<1>4. e.key \in Chains \X Nat /\ e.dh \in Names /\ e.key[1] \in Chains
  BY <1>3, HeldType
<1>5. e.key = <<e.key[1], e.key[2]>>
  BY <1>4
<1>6. e.dh = m.dh <=> Len(e.key[1]) = Len(m.key[1])
  BY <1>1, <1>2, <1>3, <1>4, OneIndex
<1>7. Len(e.key[1]) = Len(m.key[1]) => e.key[1] = m.key[1]
  BY <1>1, <1>2, <1>3, <1>4, OneRoot
<1> QED BY <1>2, <1>3, <1>5, <1>6, <1>7

\* An envelope that the receiver has not moved past is of its receiving chain, or of the
\* chain that the sender's last DH step made.
LEMMA AheadOfReceiver ==
    ASSUME NEW ini \in Sides, JInv(ini), NEW m \in sent, ~Below(session[Other(m.from)], m.key)
    PROVE  LET q == Other(m.from)
               s == session[q]
               u == session[m.from] IN
           \/ /\ s.ckr # NoChain /\ m.key = <<s.ckr, m.n>> /\ s.nr <= m.n
              /\ ~IsDhStep(s, m)
           \/ /\ m.key = <<Append(s.rk, DH(s.dhs, m.dh)), m.n>>
              /\ IsDhStep(s, m)
<1> USE DEF JInv, Meeting, IInv
<1> DEFINE o == m.from
           q == Other(o)
           s == session[q]
           u == session[o]
           c == m.key[1]
<1>1. o \in Sides /\ q \in Sides /\ Other(q) = o /\ o # q /\ m.dh \in Names /\ m.n \in Nat
  BY OtherSide DEF Types
<1>2. /\ m.key = <<c, m.n>> /\ c \in Chains /\ m.n = m.key[2] /\ Len(c) >= 2
      /\ Indexed(ini, o, m.dh, c) /\ PrefixOf(c, u.rk)
  BY DEF Headers
<1>3. /\ s.nr \in Nat /\ s.rk \in Chains /\ Len(s.rk) \in Nat /\ Len(s.ckr) \in Nat
      /\ s.ckr \in Chains /\ s.dhs \in Names /\ u.dhs \in Names
      /\ u.rk \in Chains /\ Len(u.rk) \in Nat /\ Len(NoChain) = 0
  BY <1>1, LengthsType
<1>4. Len(c) \in Nat /\ Len(c) <= Len(u.rk)
  BY <1>2, LenProperties DEF Chains, PrefixOf
<1>5. NoPub \notin Names
  BY ChannelAssumption DEF Names
<1>6. /\ Len(u.rk) = Len(s.rk) + 1 \/ Len(s.rk) = Len(u.rk) + 1
      /\ Len(u.rk) = Len(s.rk) + 1 => u.rk = Append(s.rk, DH(s.dhs, u.dhs))
      /\ Indexed(ini, o, u.dhs, u.rk)
  BY <1>1 DEF Alternation
<1>7. ~(Len(c) < Len(s.ckr)) /\ (c = s.ckr => s.nr <= m.n)
  BY <1>1, <1>2, <1>3 DEF Below
<1>8. s.ckr # NoChain => /\ Len(s.ckr) + 1 = Len(s.rk) /\ PrefixOf(s.ckr, s.rk)
                         /\ s.dhr \in Names /\ Indexed(ini, o, s.dhr, s.ckr)
  BY <1>1 DEF ReceivingChains
<1>9. s.ckr = NoChain => /\ Len(s.rk) = Base(ini, q)
                         /\ s.dhr \in {NoPub, KeyPair(Other(ini), 0)}
  BY <1>1 DEF ReceivingChains
<1>10. CASE Len(c) = Len(s.ckr)
  <2>1. s.ckr # NoChain
    BY <1>2, <1>3, <1>10
  <2>2. c = s.ckr
    BY <1>1, <1>2, <1>3, <1>8, <1>10, <2>1, OneRoot
  <2>3. m.dh = s.dhr
    BY <1>1, <1>2, <1>8, <1>10, <2>1, OneIndex
  <2>4. ~IsDhStep(s, m)
    BY <1>1, <1>5, <2>3 DEF IsDhStep
  <2> QED BY <1>2, <1>7, <2>1, <2>2, <2>4
<1>11. CASE Len(c) # Len(s.ckr)
  <2>1. Len(s.ckr) < Len(c)
    BY <1>3, <1>4, <1>7, <1>11
  <2>2. /\ Len(c) = 2 * m.dh[2] + Parity(ini, o) /\ m.dh[1] = o /\ m.dh[2] \in Nat
        /\ Len(u.rk) = 2 * u.dhs[2] + Parity(ini, o) /\ u.dhs[2] \in Nat
        /\ Parity(ini, o) \in 0..1
    BY <1>1, <1>2, <1>3, <1>6 DEF Indexed, Parity, Names
  <2> Base(ini, q) = Parity(ini, o) + 1
    BY <1>1, OtherSide DEF Base, Parity
  <2>3. Len(c) = Len(s.rk) + 1 /\ Len(u.rk) = Len(s.rk) + 1
    <3>1. CASE s.ckr # NoChain
      <4>1. Len(s.ckr) = 2 * s.dhr[2] + Parity(ini, o) /\ s.dhr[2] \in Nat
        BY <1>8, <3>1 DEF Indexed, Names
      <4>2. Len(s.ckr) + 1 = Len(s.rk)
        BY <1>8, <3>1
      <4>3. \A i, j, k \in Nat : 2 * i + k < 2 * j + k => 2 * i + k + 2 <= 2 * j + k
        OBVIOUS
      <4> HIDE DEF s, u, c
      <4>4. Len(s.ckr) + 2 <= Len(c)
        <5>1. Parity(ini, o) \in Nat
          BY <2>2
        <5> QED BY <2>1, <2>2, <4>1, <4>3, <5>1
      <4> QED BY <1>3, <1>4, <1>6, <4>2, <4>4
    <3>2. CASE s.ckr = NoChain
      <4>1. Len(s.rk) = Base(ini, q)
        BY <1>9, <3>2
      <4> HIDE DEF s, u, c
      <4>2. Len(c) = 2 * m.dh[2] + Parity(ini, o) /\ Len(u.rk) = 2 * u.dhs[2] + Parity(ini, o)
        BY <2>2
      <4>3. Len(c) >= 2 /\ Len(c) <= Len(u.rk)
        BY <1>2, <1>4
      <4>4. CASE Parity(ini, o) = 1
        <5>1. Len(s.rk) = 2
          BY <2>2, <4>1, <4>4
        <5>2. \A i \in Nat : 2 * i + 1 >= 2 => 2 * i + 1 >= 3
          OBVIOUS
        <5>3. Len(c) >= 3
          BY <2>2, <4>2, <4>3, <4>4, <5>2
        <5> QED BY <1>3, <1>4, <1>6, <4>3, <5>1, <5>3
      <4>5. CASE Parity(ini, o) = 0
        <5>1. Len(s.rk) = 1
          BY <2>2, <4>1, <4>5
        <5> QED BY <1>3, <1>4, <1>6, <4>3, <5>1
      <4> QED BY <2>2, <4>4, <4>5
    <3> QED BY <3>1, <3>2
  <2>4. c = u.rk
    <3>1. PrefixOf(u.rk, u.rk)
      BY <1>3 DEF PrefixOf
    <3> QED BY <1>2, <1>3, <2>3, <3>1, SameLength
  <2>5. m.dh = u.dhs
    BY <1>1, <1>2, <1>3, <1>6, <2>4, OneIndex
  <2>6. m.key = <<Append(s.rk, DH(s.dhs, m.dh)), m.n>>
    BY <1>2, <1>6, <2>3, <2>4, <2>5
  <2>7. IsDhStep(s, m)
    <3>1. CASE s.ckr # NoChain
      <4>1. m.dh # s.dhr
        BY <1>1, <1>2, <1>8, <1>11, <3>1, OneIndex
      <4> QED BY <4>1 DEF IsDhStep
    <3>2. CASE s.ckr = NoChain
      <4>1. ASSUME m.dh = KeyPair(Other(ini), 0) PROVE FALSE
        <5>1. o = Other(ini) /\ m.dh[2] = 0
          BY <2>2, <4>1 DEF KeyPair
        <5>2. Parity(ini, o) = 1
          BY <5>1, Parities
        <5>3. Len(c) = 2 * 0 + 1
          BY <2>2, <5>1, <5>2
        <5> HIDE DEF c
        <5> QED BY <1>2, <5>3
      <4>2. s.dhr = NoPub \/ m.dh # s.dhr
        BY <1>9, <3>2, <4>1
      <4> QED BY <4>2 DEF IsDhStep
    <3> QED BY <3>1, <3>2
  <2> QED BY <2>6, <2>7
<1> QED BY <1>10, <1>11

\* skipMessageKeys leaves the counter at the message that came.
LEMMA SkipNr ==
    ASSUME NEW q, NEW s \in Sessions(q), NEW until \in Nat, s.ckr # NoChain, s.nr <= until
    PROVE  Skip(s, until).nr = until
<1>0. s.nr \in Nat
  BY DEF Sessions
<1>1. CASE until <= s.nr
  <2>1. Skip(s, until) = s
    BY <1>1 DEF Skip
  <2> QED BY <1>0, <1>1, <2>1
<1>2. CASE ~(until <= s.nr)
  <2> DEFINE more == s.skipped \o [i \in 1..(until - s.nr) |->
                       [dh |-> s.dhr, n |-> s.nr + i - 1, key |-> <<s.ckr, s.nr + i - 1>>]]
  <2>1. Skip(s, until) = [s EXCEPT !.nr = until, !.skipped = more]
    BY <1>2 DEF Skip
  <2> HIDE DEF more
  <2> QED BY <2>1 DEF Sessions
<1> QED BY <1>1, <1>2

\* The key that the receiver finds or derives for an unopened envelope is its own.
LEMMA MeetsStaysOpenable ==
    ASSUME NEW ini \in Sides, JInv(ini)
    PROVE  StaysOpenable
<1> USE DEF JInv, Meeting, IInv
<1> SUFFICES ASSUME NEW m \in sent \ (opened \cup forgotten)
             PROVE  Outcome(session[Other(m.from)], m, Fresh(Other(m.from)))
                        \in {"ok", "skip"}
  BY DEF StaysOpenable
<1> DEFINE q == Other(m.from)
           s == session[q]
           fresh == Fresh(q)
           a == AtChain(s, m, fresh)
<1>1. /\ m \in sent /\ q \in Sides /\ m.n \in Nat /\ m.pn \in Nat /\ m.dh \in Names
  BY OtherSide DEF Types
<1>2. /\ s \in Sessions(s.skipped) /\ s.rk \in Chains /\ Len(s.rk) \in Nat /\ s.nr \in Nat
      /\ s.dhs \in Names /\ fresh \in Names
  BY <1>1, LengthsType DEF Fresh, KeyPair, Names
<1>3. CASE Stored(s, m) # {}
  <2>1. PICK i \in Stored(s, m) : TRUE
    BY <1>3
  <2>2. i \in 1..Len(s.skipped) /\ s.skipped[i].dh = m.dh /\ s.skipped[i].n = m.n
    BY <2>1 DEF Stored
  <2>3. s.skipped[i] \in Held(s.skipped)
    BY <2>2 DEF Held
  <2>4. s.skipped[i].key = m.key
    BY <1>1, <2>2, <2>3, HeaderIsKey
  <2> QED BY <1>3, <2>1, <2>4 DEF Outcome
<1>4. CASE Stored(s, m) = {}
  <2>1. ~Below(s, m.key)
    <3>1. ASSUME Below(s, m.key) PROVE FALSE
      <4>1. m.key \in Keys(s.skipped)
        BY <3>1 DEF Kept
      <4>2. PICK i \in 1..Len(s.skipped) : s.skipped[i].key = m.key
        BY <4>1 DEF Keys
      <4>3. s.skipped[i] \in Held(s.skipped)
        BY DEF Held
      <4>4. s.skipped[i].dh = m.dh /\ s.skipped[i].n = m.n
        BY <1>1, <4>2, <4>3, HeaderIsKey
      <4> QED BY <1>4, <4>4 DEF Stored
    <3> QED BY <3>1
  <2>2. \/ s.ckr # NoChain /\ m.key = <<s.ckr, m.n>> /\ s.nr <= m.n /\ ~IsDhStep(s, m)
        \/ m.key = <<Append(s.rk, DH(s.dhs, m.dh)), m.n>> /\ IsDhStep(s, m)
    BY <1>1, <2>1, AheadOfReceiver
  <2> HIDE DEF s, fresh
  <2>3. a \in Sessions(a.skipped) /\ a.ckr # NoChain /\ a.nr <= m.n /\ m.key = <<a.ckr, m.n>>
    <3>1. CASE ~IsDhStep(s, m)
      <4>1. a = s
        BY <3>1 DEF AtChain
      <4> QED BY <1>2, <2>2, <3>1, <4>1
    <3>2. CASE IsDhStep(s, m)
      <4> DEFINE b == Skip(s, m.pn)
                 rk1 == Append(b.rk, DH(b.dhs, m.dh))
                 rk2 == Append(rk1, DH(fresh, m.dh))
                 old == Evict(b.skipped)
      <4>1. b \in Sessions(b.skipped) /\ b.rk = s.rk /\ b.dhs = s.dhs
        BY <1>1, <1>2, SkipFrame
      <4>2. a = DhStep(b, m.dh, fresh)
        BY <3>2 DEF AtChain
      <4> HIDE DEF b
      <4>3. a \in Sessions(a.skipped)
        <5>1. LET d == DhStep(b, m.dh, fresh) IN d \in Sessions(d.skipped)
          BY <1>1, <1>2, <4>1, DhStepFrame
        <5> HIDE DEF a
        <5> QED BY <4>2, <5>1
      <4>4. a = [b EXCEPT !.pn = b.ns, !.ns = 0, !.nr = 0, !.dhr = m.dh, !.skipped = old,
                          !.ckr = rk1, !.dhs = fresh, !.rk = rk2, !.cks = rk2]
        BY <4>2 DEF DhStep
      <4>5. rk1 = Append(s.rk, DH(s.dhs, m.dh))
        BY <4>1
      <4> HIDE DEF a, old, rk1, rk2
      <4>6. a.ckr = rk1 /\ a.nr = 0
        BY <4>1, <4>4, Zenon DEF Sessions
      <4>7. rk1 # NoChain
        <5>1. DH(s.dhs, m.dh) \in Terms
          BY <1>1, <1>2 DEF DH, Terms
        <5>2. Len(rk1) = Len(s.rk) + 1
          BY <1>2, <4>5, <5>1, PrefixAppend
        <5>3. Len(NoChain) = 0
          BY DEF NoChain
        <5> QED BY <1>2, <5>2, <5>3
      <4> QED BY <1>1, <2>2, <3>2, <4>3, <4>5, <4>6, <4>7
    <3> QED BY <3>1, <3>2
  <2> HIDE DEF a
  <2>4. Skip(a, m.n).nr = m.n
    BY <1>1, <2>3, SkipNr
  <2> QED BY <1>4, <2>3, <2>4 DEF Outcome, a, s, fresh
<1> QED BY <1>3, <1>4

-----------------------------------------------------------------------------
(* The theorems.                                                           *)

\* One of the two has made the session, and all of the above is true of them.
Met == \E ini \in Sides : JInv(ini)

LEMMA MetHolds == Spec => []Met
<1>1. Init => Met
  BY InitMeets, ChannelAssumption DEF Init, Met
<1>2. Met /\ [Next]_vars => Met'
  BY NextKeeps DEF Met
<1> QED BY <1>1, <1>2, PTL DEF Spec

\* An envelope that was decrypted does not open again, whatever was sent, received, lost
\* or reordered since: its key is erased with its use, and a chain only moves on
\* (ratchetDecrypt, trySkippedMessageKeys).
THEOREM OpensOnce == Spec => []OpenedOnce
<1>1. Met => OpenedOnce
  BY MeetsOpenedOnce DEF Met
<1> QED BY <1>1, MetHolds, PTL

\* Every envelope that was not decrypted still opens at any later time, except when it
\* runs ahead by more than MAX_SKIP or its stored key was evicted: no loss and no order of
\* arrival leaves the two sides with different keys for one header (ratchetDecrypt,
\* skipMessageKeys, dhRatchetStep).
THEOREM LossIsHarmless == Spec => []StaysOpenable
<1>1. Met => StaysOpenable
  BY MeetsStaysOpenable DEF Met
<1> QED BY <1>1, MetHolds, PTL

\* Every reachable session is a ratchet state, and every envelope has a header of its
\* sender (RatchetState, RatchetHeader of double-ratchet.ts).
THEOREM TypeCorrect == Spec => []Types
<1>1. Met => Types
  BY DEF Met, JInv, IInv
<1> QED BY <1>1, MetHolds, PTL

\* However the chains of the two sides advance, and whatever is lost, repeated or
\* reordered, no two messages of a session are sealed under one key.
THEOREM FreshMessageKeys == Spec => []KeysAreFresh
<1>1. Met => KeysAreFresh
  BY DEF Met, JInv, IInv
<1> QED BY <1>1, MetHolds, PTL
=============================================================================
