--------------------------- MODULE GroupKeysProofs ---------------------------
(***************************************************************************)
(* Theorems about GroupKeys, for any users, sends, changes and failures.   *)
(***************************************************************************)
EXTENDS GroupKeys, SequenceTheorems, FiniteSetTheorems, WellFoundedInduction, TLAPS

-----------------------------------------------------------------------------
(* The inductive invariant.                                                *)

SendStates ==
    [at : Steps, epoch : Nat, roster : SUBSET Users, left : SUBSET Users,
     target : SUBSET Users, dist : Dists \cup {0}, chain : Nat, given : SUBSET Users]

Records ==
    [dist : Dists \cup {0}, chain : Nat, print : SUBSET Users, given : SUBSET Users]

\* What the sending side needs of types.
SenderTypes ==
    /\ members \subseteq Users /\ epoch \in Nat /\ known \in Nat
    /\ record \in Records /\ send \in [Sends -> SendStates]
    /\ \A s \in Sends : send[s].left \subseteq send[s].roster

\* And the other side.
KeyTypes ==
    /\ remote = [u \in Users |-> [d \in Dists |-> remote[u][d]]]
    /\ shares \subseteq [to : Users, dist : Dists, chain : Nat]

\* A send that has loaded the key it found or generated.
Ensured(s) == send[s].at \notin {"idle", "details", "roster", "ensure"}

\* Only a send that got that far has given its name to a key.
NamesInUse ==
    /\ record.dist # 0 => Ensured(record.dist)
    /\ \A s \in Sends : send[s].dist # 0 => Ensured(send[s].dist)
    /\ \A share \in shares : Ensured(share.dist)
    /\ \A u \in Users, d \in Dists : remote[u][d] # NoKey => Ensured(d)

\* The send has a key.
HasKey(s) == Sealed(s) \/ send[s].at \in {"share", "mark"}
KeysNamed ==
    /\ \A s \in Sends : HasKey(s) => send[s].dist # 0 /\ record.dist # 0

\* The record is ahead of all that was sealed with its key.
ChainAhead ==
    \A s \in Sends : Sealed(s) /\ send[s].dist = record.dist => send[s].chain < record.chain

\* One send prepares at a time, with the key and the roster of the record.
OneAtWork ==
    overlap \/ \A s \in Sends : Preparing(s) =>
        /\ \A q \in Sends : Preparing(q) => q = s
        /\ send[s].at \in {"share", "mark"} =>
             send[s].dist = record.dist /\ send[s].roster = record.print

\* What is sealed with the key of the record was meant for its roster, and nobody else
\* has that key.
RecordOfRoster ==
    overlap \/ /\ \A s \in Sends : Sealed(s) /\ send[s].dist = record.dist =>
                      send[s].roster = record.print
               /\ \A u \in Users : record.dist # 0 /\ Holds(u, record.dist) => u \in record.print

Types == SenderTypes /\ KeyTypes
Chains == NamesInUse /\ KeysNamed /\ ChainAhead /\ NoKeyReuse
Rosters == OneAtWork /\ RecordOfRoster /\ KeyStaysInRoster

IInv == Types /\ Chains /\ Rosters

-----------------------------------------------------------------------------
(* Steps that leave keys and sends alone.                                  *)

LEMMA Constants == MaxSends \in Nat /\ Sends \subseteq Nat \ {0} /\ Dists = Sends
BY GroupAssumption DEF Sends, Dists

LEMMA NamesType ==
    ASSUME Types
    PROVE  /\ record.dist \in Sends \cup {0} /\ Dists = Sends
           /\ \A q \in Sends : send[q].dist \in Sends \cup {0}
           /\ \A share \in shares : share.dist \in Sends
BY DEF Types, SenderTypes, KeyTypes, Records, SendStates, Dists

LEMMA QuietStep ==
    ASSUME IInv, members' \subseteq Users, epoch' \in Nat, known' \in Nat,
           UNCHANGED <<record, send, remote, shares, overlap>>
    PROVE  IInv'
<1> USE DEF IInv
<1>1. Types'
  BY DEF Types, SenderTypes, KeyTypes
<1>2. Chains'
  BY DEF Chains, NamesInUse, Ensured, KeysNamed, HasKey, Sealed, ChainAhead, NoKeyReuse
<1>3. Rosters'
  BY DEF Rosters, OneAtWork, RecordOfRoster, KeyStaysInRoster, Preparing, Sealed, Holds
<1> QED BY <1>1, <1>2, <1>3

LEMMA MemberSteps ==
    ASSUME IInv, NEW u \in Users, AddMember(u) \/ RemoveMember(u)
    PROVE  IInv'
<1>0. members \subseteq Users /\ epoch \in Nat /\ known \in Nat
  BY DEF IInv, Types, SenderTypes
<1>1. /\ members' \subseteq Users /\ epoch' \in Nat /\ known' \in Nat
      /\ UNCHANGED <<record, send, remote, shares, overlap>>
  BY <1>0 DEF AddMember, RemoveMember, sender, readers, network
<1> QED BY <1>1, QuietStep

-----------------------------------------------------------------------------
(* The sending side.                                                       *)

\* Before a send loads the key it has none; a second one that begins is an overlap.
LEMMA EarlySteps ==
    ASSUME IInv, NEW s \in Sends, Begin(s) \/ ApplyDetails(s) \/ ReadRoster(s)
    PROVE  IInv'
<1> USE DEF IInv
<1>0. /\ members \subseteq Users /\ epoch \in Nat /\ known \in Nat
      /\ send \in [Sends -> SendStates] /\ send[s] \in SendStates
      /\ \A q \in Sends : send[q].left \subseteq send[q].roster
  BY DEF Types, SenderTypes
<1>1. /\ UNCHANGED <<members, epoch, record, remote, shares>>
      /\ known' \in Nat
  <2>1. CASE Begin(s)
    BY <1>0, <2>1 DEF Begin, server, readers, network
  <2>2. CASE ApplyDetails(s)
    BY <1>0, <2>2 DEF ApplyDetails, server, readers, network, SendStates
  <2>3. CASE ReadRoster(s)
    BY <1>0, <2>3 DEF ReadRoster, server, readers, network
  <2> QED BY <2>1, <2>2, <2>3
<1>2. /\ send' \in [Sends -> SendStates]
      /\ \A q \in Sends : q # s => send'[q] = send[q]
      /\ send[s].at \in {"idle", "details", "roster"}
      /\ send'[s].at \in {"details", "roster", "ensure"}
      /\ send'[s].dist = send[s].dist /\ send'[s].left \subseteq send'[s].roster
  <2>1. CASE Begin(s)
    BY <1>0, <2>1 DEF Begin, SendStates, Steps
  <2>2. CASE ApplyDetails(s)
    BY <1>0, <2>2 DEF ApplyDetails, SendStates, Steps
  <2>3. CASE ReadRoster(s)
    BY <1>0, <2>3 DEF ReadRoster, SendStates, Steps
  <2> QED BY <2>1, <2>2, <2>3
<1>3. ~overlap' => ~overlap /\ (Preparing(s) \/ \A q \in Sends : ~Preparing(q))
  BY DEF Begin, ApplyDetails, ReadRoster, Preparing
<1>4. Types'
  BY <1>1, <1>2 DEF Types, SenderTypes, KeyTypes
<1>5. Chains'
  <2>1. NamesInUse'
    <3>1. \A d \in Sends : Ensured(d) => Ensured(d)'
      BY <1>2 DEF Ensured
    <3>2. \A q \in Sends : send'[q].dist = send[q].dist
      BY <1>2
    <3> HIDE <1>2
    <3> QED BY <1>1, <3>1, <3>2, NamesType DEF Chains, NamesInUse
  <2>2. KeysNamed'
    BY <1>1, <1>2 DEF Chains, KeysNamed, HasKey, Sealed
  <2>3. ChainAhead'
    BY <1>1, <1>2 DEF Chains, ChainAhead, Sealed
  <2>4. NoKeyReuse'
    BY <1>1, <1>2 DEF Chains, NoKeyReuse, Sealed
  <2> QED BY <2>1, <2>2, <2>3, <2>4 DEF Chains
<1>6. OneAtWork'
  BY <1>1, <1>2, <1>3 DEF Rosters, OneAtWork, Preparing
<1>7. RecordOfRoster' /\ KeyStaysInRoster'
  BY <1>1, <1>2, <1>3 DEF Rosters, RecordOfRoster, KeyStaysInRoster, Sealed, Holds
<1> QED BY <1>4, <1>5, <1>6, <1>7 DEF Rosters

\* After it has sealed its message, only its epoch and its place change.
LEMMA LateSteps ==
    ASSUME IInv, NEW s \in Sends,
           \/ Stamp(s) \/ Retry(s) \/ CheckEpoch(s) \/ Insert(s) \/ Publish(s) \/ PostFails(s)
    PROVE  IInv'
<1> USE DEF IInv
<1>0. /\ epoch \in Nat /\ known \in Nat
      /\ send \in [Sends -> SendStates] /\ send[s] \in SendStates
      /\ \A q \in Sends : send[q].left \subseteq send[q].roster
  BY DEF Types, SenderTypes
<1>1. UNCHANGED <<members, epoch, known, record, remote, shares, overlap>>
  BY DEF Stamp, Retry, CheckEpoch, Insert, Publish, PostFails, server, readers, network
<1>2. /\ send' \in [Sends -> SendStates]
      /\ \A q \in Sends : q # s => send'[q] = send[q]
      /\ send[s].at \in {"stamp", "failed", "post", "insert", "publish"}
      /\ send'[s].at \in {"post", "insert", "refused", "publish", "done", "failed"}
      /\ send'[s].dist = send[s].dist /\ send'[s].chain = send[s].chain
      /\ send'[s].roster = send[s].roster /\ send'[s].left = send[s].left
  <2>1. CASE Stamp(s)
    BY <1>0, <2>1 DEF Stamp, SendStates, Steps
  <2>2. CASE Retry(s)
    BY <1>0, <2>2 DEF Retry, SendStates, Steps
  <2>3. CASE CheckEpoch(s)
    BY <1>0, <2>3 DEF CheckEpoch, SendStates, Steps
  <2>4. CASE Insert(s)
    BY <1>0, <2>4 DEF Insert, SendStates, Steps
  <2>5. CASE Publish(s)
    BY <1>0, <2>5 DEF Publish, SendStates, Steps
  <2>6. CASE PostFails(s)
    BY <1>0, <2>6 DEF PostFails, SendStates, Steps
  <2> QED BY <2>1, <2>2, <2>3, <2>4, <2>5, <2>6
<1>3. Types'
  BY <1>0, <1>1, <1>2 DEF Types, SenderTypes, KeyTypes
<1>4. Chains'
  <2>1. NamesInUse'
    <3>1. \A d \in Sends : Ensured(d) => Ensured(d)'
      BY <1>2 DEF Ensured
    <3>2. \A q \in Sends : send'[q].dist = send[q].dist
      BY <1>2
    <3> HIDE <1>2
    <3> QED BY <1>1, <3>1, <3>2, NamesType DEF Chains, NamesInUse
  <2>2. KeysNamed'
    BY <1>1, <1>2 DEF Chains, KeysNamed, HasKey, Sealed
  <2>3. ChainAhead'
    BY <1>1, <1>2 DEF Chains, ChainAhead, Sealed
  <2>4. NoKeyReuse'
    BY <1>1, <1>2 DEF Chains, NoKeyReuse, Sealed
  <2> QED BY <2>1, <2>2, <2>3, <2>4 DEF Chains
<1>5. OneAtWork'
  BY <1>1, <1>2 DEF Rosters, OneAtWork, Preparing
<1>6. RecordOfRoster' /\ KeyStaysInRoster'
  BY <1>1, <1>2 DEF Rosters, RecordOfRoster, KeyStaysInRoster, Sealed, Holds
<1> QED BY <1>3, <1>4, <1>5, <1>6 DEF Rosters

\* A rotated key has a name nobody has used; a kept one is of the roster just read.
LEMMA EnsureSound ==
    ASSUME IInv, NEW s \in Sends, Ensure(s)
    PROVE  IInv'
<1> USE DEF IInv
<1>0. /\ send \in [Sends -> SendStates] /\ send[s] \in SendStates /\ record \in Records
      /\ \A q \in Sends : send[q].left \subseteq send[q].roster
  BY DEF Types, SenderTypes
<1>1. /\ send[s].at = "ensure" /\ record' = Rotated(s)
      /\ UNCHANGED <<members, epoch, known, remote, shares, overlap>>
      /\ send' = [send EXCEPT ![s] = Loaded(send[s], record')]
  BY DEF Ensure, server, readers, network
<1>2. /\ record' \in Records /\ record'.print = send[s].roster /\ record'.dist # 0
      /\ record' = record \/ (record'.dist = s /\ record'.chain = 0)
  <2>1. CASE record.dist # 0 /\ record.print = send[s].roster
    BY <1>0, <1>1, <2>1 DEF Rotated
  <2>2. CASE ~(record.dist # 0 /\ record.print = send[s].roster)
    <3>1. record' = [dist |-> s, chain |-> 0, print |-> send[s].roster, given |-> {}]
      BY <1>1, <2>2 DEF Rotated
    <3> QED BY <1>0, <3>1, Constants DEF Records, SendStates
  <2> QED BY <2>1, <2>2
<1>3. /\ Loaded(send[s], record') \in SendStates
      /\ Loaded(send[s], record').at = "share"
      /\ Loaded(send[s], record').dist = record'.dist
      /\ Loaded(send[s], record').roster = send[s].roster
      /\ Loaded(send[s], record').left = send[s].left
  BY <1>0, <1>2 DEF Loaded, SendStates, Records, Steps
<1>4. /\ send' \in [Sends -> SendStates]
      /\ \A q \in Sends : q # s => send'[q] = send[q]
      /\ send'[s] = Loaded(send[s], record')
  BY <1>0, <1>1, <1>3
<1>5. ~Ensured(s) /\ ~Sealed(s) /\ Preparing(s) /\ Ensured(s)' /\ ~Sealed(s)'
  BY <1>1, <1>3, <1>4 DEF Ensured, Sealed, Preparing
<1>6. Types'
  BY <1>0, <1>1, <1>2, <1>3, <1>4 DEF Types, SenderTypes, KeyTypes
<1>7. NamesInUse'
  BY <1>1, <1>2, <1>3, <1>4, <1>5 DEF Chains, NamesInUse, Ensured
<1>8. KeysNamed'
  BY <1>2, <1>3, <1>4 DEF Chains, KeysNamed, HasKey, Sealed
<1>9. ChainAhead'
  BY <1>2, <1>3, <1>4, <1>5 DEF Chains, ChainAhead, NamesInUse, KeysNamed, HasKey, Sealed
<1>10. NoKeyReuse'
  BY <1>4, <1>5 DEF Chains, NoKeyReuse, Sealed
<1>11. OneAtWork'
  BY <1>1, <1>2, <1>3, <1>4, <1>5 DEF Rosters, OneAtWork, Preparing
<1>12. ASSUME record' # record
       PROVE  /\ \A q \in Sends : Sealed(q) => send[q].dist # record'.dist
              /\ \A u \in Users : ~Holds(u, record'.dist)
  BY <1>2, <1>5, <1>12, Constants DEF Chains, NamesInUse, Holds, Types, KeyTypes
<1>13. RecordOfRoster'
  <2>1. CASE record' = record
    BY <1>1, <1>3, <1>4, <1>5, <2>1 DEF Rosters, RecordOfRoster, Sealed, Holds
  <2>2. CASE record' # record
    BY <1>1, <1>4, <1>5, <1>12, <2>2 DEF RecordOfRoster, Sealed, Holds
  <2> QED BY <2>1, <2>2
<1>14. KeyStaysInRoster'
  BY <1>1, <1>4, <1>5 DEF Rosters, KeyStaysInRoster, Sealed, Holds
<1> QED BY <1>6, <1>7, <1>8, <1>9, <1>10, <1>11, <1>13, <1>14 DEF Chains, Rosters

\* The key goes to a device of the roster just read, which is the roster of the record
\* if no other send has rotated it; if the POST fails the send ends.
LEMMA ShareSteps ==
    ASSUME IInv, NEW s \in Sends, NEW u \in Users, Share(s, u) \/ ShareFails(s, u)
    PROVE  IInv'
<1> USE DEF IInv
<1>0. /\ send \in [Sends -> SendStates] /\ send[s] \in SendStates
      /\ \A q \in Sends : send[q].left \subseteq send[q].roster
  BY DEF Types, SenderTypes
<1>1. /\ send[s].at = "share" /\ u \in send[s].left
      /\ UNCHANGED <<members, epoch, known, record, remote, overlap>>
      /\ shares' \subseteq shares \cup {ShareOf(s, u)} /\ shares \subseteq shares'
  BY DEF Share, ShareFails, server, readers
<1>2. send[s].dist \in Sends /\ Ensured(s) /\ ~Sealed(s)
  BY <1>1, NamesType DEF Chains, KeysNamed, HasKey, Ensured, Sealed
<1>3. /\ ShareOf(s, u) \in [to : Users, dist : Dists, chain : Nat]
      /\ ShareOf(s, u).to = u /\ ShareOf(s, u).dist = send[s].dist
  BY <1>0, <1>2, Constants DEF ShareOf, SendStates
<1>4. /\ send' \in [Sends -> SendStates]
      /\ \A q \in Sends : q # s => send'[q] = send[q]
      /\ send'[s].at \in {"share", "mark", "dropped"}
      /\ send'[s].left \subseteq send'[s].roster
      /\ send'[s].at # "dropped" =>
           send'[s].dist = send[s].dist /\ send'[s].roster = send[s].roster
      /\ send'[s].dist \in {0, send[s].dist}
  <2>1. CASE Share(s, u) /\ u \in send[s].given
    BY <1>0, <1>1, <2>1 DEF Share, SendStates, Steps
  <2>2. CASE Share(s, u) /\ u \notin send[s].given
    BY <1>0, <1>1, <2>2 DEF Share, SendStates, Steps
  <2>3. CASE ShareFails(s, u)
    <3> DEFINE x == [Idle EXCEPT !.at = "dropped"]
    <3>1. /\ x \in SendStates /\ x.at = "dropped" /\ x.left = {} /\ x.dist = 0
      BY DEF Idle, SendStates, Steps
    <3>2. send' = [send EXCEPT ![s] = x]
      BY <2>3 DEF ShareFails
    <3> HIDE DEF x
    <3> QED BY <1>0, <3>1, <3>2
  <2> QED BY <1>1, <2>1, <2>2, <2>3
<1>5. Types'
  BY <1>0, <1>1, <1>3, <1>4 DEF Types, SenderTypes, KeyTypes
<1>6. Chains'
  <2>1. \A d \in Sends : Ensured(d) => Ensured(d)'
    BY <1>4 DEF Ensured
  <2>2. \A d \in Sends : Sealed(d)' => d # s /\ Sealed(d)
    BY <1>4 DEF Sealed
  <2>3. Ensured(send[s].dist)
    BY <1>2, Constants DEF Chains, NamesInUse
  <2>4. NamesInUse'
    BY <1>1, <1>3, <1>4, <2>1, <2>3, NamesType DEF Chains, NamesInUse
  <2>5. KeysNamed'
    BY <1>1, <1>2, <1>4, <2>2 DEF Chains, KeysNamed, HasKey
  <2>6. ChainAhead' /\ NoKeyReuse'
    BY <1>1, <1>4, <2>2 DEF Chains, ChainAhead, NoKeyReuse
  <2> QED BY <2>4, <2>5, <2>6 DEF Chains
<1>7. OneAtWork'
  BY <1>1, <1>4 DEF Rosters, OneAtWork, Preparing
<1>8. ~overlap => send[s].dist = record.dist /\ u \in record.print
  BY <1>0, <1>1 DEF Rosters, OneAtWork, Preparing
<1>9. \A v \in Users, d \in Sends :
        Holds(v, d)' => Holds(v, d) \/ (v = u /\ d = send[s].dist)
  BY <1>1, <1>3 DEF Holds
<1>10. \A q \in Sends : Sealed(q)' =>
        Sealed(q) /\ send'[q] = send[q] /\ send[q].dist \in Sends
  BY <1>4, NamesType DEF Sealed, Chains, KeysNamed, HasKey
<1>11. RecordOfRoster' /\ KeyStaysInRoster'
  BY <1>1, <1>8, <1>9, <1>10, NamesType DEF Rosters, RecordOfRoster, KeyStaysInRoster
<1> QED BY <1>5, <1>6, <1>7, <1>11 DEF Rosters

\* The mark is put on the record as it is now, not on the one of before the distribution.
LEMMA MarkSound ==
    ASSUME IInv, NEW s \in Sends, Mark(s)
    PROVE  IInv'
<1> USE DEF IInv
<1> DEFINE x == [Loaded(send[s], record') EXCEPT !.target = {}]
<1>0. /\ send \in [Sends -> SendStates] /\ send[s] \in SendStates /\ record \in Records
      /\ \A q \in Sends : send[q].left \subseteq send[q].roster
  BY DEF Types, SenderTypes
<1>1. /\ send[s].at = "mark" /\ record' = Marked(record, send[s])
      /\ UNCHANGED <<members, epoch, known, remote, shares, overlap>>
      /\ send' = [send EXCEPT ![s] = x]
  BY DEF Mark, server, readers, network
<1>2. /\ record' \in Records /\ record'.dist = record.dist
      /\ record'.chain = record.chain /\ record'.print = record.print
  BY <1>0, <1>1 DEF Marked, Records, SendStates
<1>3. /\ Loaded(send[s], record') \in SendStates
      /\ Loaded(send[s], record').at = "share"
      /\ Loaded(send[s], record').dist = record.dist
      /\ Loaded(send[s], record').roster = send[s].roster
      /\ Loaded(send[s], record').left = send[s].left
  BY <1>0, <1>2 DEF Loaded, SendStates, Records, Steps
<1>4. /\ x \in SendStates /\ x.at = "share" /\ x.dist = record.dist
      /\ x.roster = send[s].roster /\ x.left = send[s].left
  BY <1>3 DEF SendStates
<1> HIDE DEF x
<1>5. /\ send' \in [Sends -> SendStates] /\ send'[s] = x
      /\ \A q \in Sends : q # s => send'[q] = send[q]
  BY <1>0, <1>1, <1>4
<1>6. Types'
  BY <1>0, <1>1, <1>2, <1>4, <1>5 DEF Types, SenderTypes, KeyTypes
<1>7. \A d \in Sends : (Ensured(d) => Ensured(d)') /\ (Sealed(d)' => d # s /\ Sealed(d))
  BY <1>1, <1>4, <1>5 DEF Ensured, Sealed
<1>8. record.dist # 0
  BY <1>1 DEF Chains, KeysNamed, HasKey
<1>9. NamesInUse'
  BY <1>1, <1>2, <1>4, <1>5, <1>7, NamesType DEF Chains, NamesInUse
<1>10. KeysNamed'
  BY <1>2, <1>4, <1>5, <1>7, <1>8 DEF Chains, KeysNamed, HasKey
<1>11. ChainAhead' /\ NoKeyReuse'
  BY <1>2, <1>5, <1>7 DEF Chains, ChainAhead, NoKeyReuse
<1>12. OneAtWork'
  BY <1>1, <1>2, <1>4, <1>5 DEF Rosters, OneAtWork, Preparing
<1>13. RecordOfRoster' /\ KeyStaysInRoster'
  BY <1>1, <1>2, <1>5, <1>7 DEF Rosters, RecordOfRoster, KeyStaysInRoster, Holds
<1> QED BY <1>6, <1>9, <1>10, <1>11, <1>12, <1>13 DEF Chains, Rosters

\* The message takes the key of the record, and the record moves on.
LEMMA EncryptSound ==
    ASSUME IInv, NEW s \in Sends, Encrypt(s)
    PROVE  IInv'
<1> USE DEF IInv
<1>0. /\ send \in [Sends -> SendStates] /\ send[s] \in SendStates /\ record \in Records
      /\ \A q \in Sends : send[q].left \subseteq send[q].roster
  BY DEF Types, SenderTypes
<1>1. /\ send[s].at = "share"
      /\ UNCHANGED <<members, epoch, known, remote, shares, overlap>>
  BY DEF Encrypt, server, readers, network
<1>2. /\ record' \in Records /\ record'.dist = record.dist
      /\ record'.chain = record.chain + 1 /\ record'.print = record.print
      /\ record.chain \in Nat
  BY <1>0 DEF Encrypt, Records
<1>3. /\ send' \in [Sends -> SendStates]
      /\ \A q \in Sends : q # s => send'[q] = send[q]
      /\ send'[s].at = "stamp" /\ send'[s].dist = record.dist
      /\ send'[s].chain = record.chain /\ send'[s].roster = send[s].roster
      /\ send'[s].left = send[s].left
  BY <1>0 DEF Encrypt, SendStates, Records, Steps
<1>4. Types'
  BY <1>0, <1>1, <1>2, <1>3 DEF Types, SenderTypes, KeyTypes
<1>5. \A d \in Sends : (Ensured(d) => Ensured(d)') /\ (Sealed(d)' => d = s \/ Sealed(d))
  BY <1>1, <1>3 DEF Ensured, Sealed
<1>6. record.dist # 0
  BY <1>1 DEF Chains, KeysNamed, HasKey
<1>7. NamesInUse'
  BY <1>1, <1>2, <1>3, <1>5, NamesType DEF Chains, NamesInUse
<1>8. KeysNamed'
  BY <1>2, <1>3, <1>5, <1>6 DEF Chains, KeysNamed, HasKey
<1>9. \A q \in Sends : send[q].chain \in Nat
  BY <1>0 DEF SendStates
<1>10. ChainAhead'
  BY <1>2, <1>3, <1>5, <1>9 DEF Chains, ChainAhead
<1>11. NoKeyReuse'
  BY <1>2, <1>3, <1>5, <1>9 DEF Chains, ChainAhead, NoKeyReuse
<1>12. OneAtWork'
  BY <1>1, <1>2, <1>3 DEF Rosters, OneAtWork, Preparing
<1>13. ~overlap => send[s].roster = record.print
  BY <1>1 DEF Rosters, OneAtWork, Preparing
<1>14. RecordOfRoster' /\ KeyStaysInRoster'
  BY <1>1, <1>2, <1>3, <1>5, <1>6, <1>13
  DEF Rosters, RecordOfRoster, KeyStaysInRoster, Holds
<1> QED BY <1>4, <1>7, <1>8, <1>10, <1>11, <1>12, <1>14 DEF Chains, Rosters

-----------------------------------------------------------------------------
(* The receiving side.                                                     *)

\* Keys are imported from distributions under way and come from nowhere else.
LEMMA KeysComeFromShares ==
    ASSUME IInv, UNCHANGED <<members, epoch, known, record, send, overlap>>,
           shares' \subseteq shares,
           remote' = [u \in Users |-> [d \in Dists |-> remote'[u][d]]],
           \A u \in Users, d \in Dists : remote'[u][d] # NoKey => Holds(u, d)
    PROVE  IInv'
<1> USE DEF IInv
<1>1. Types'
  BY DEF Types, SenderTypes, KeyTypes
<1>2. \A u \in Users, d \in Dists : Holds(u, d)' => Holds(u, d)
  BY DEF Holds
<1>3. \A u \in Users, d \in Dists : Holds(u, d) => Ensured(d)
  BY DEF Holds, Chains, NamesInUse
<1>4. NamesInUse'
  BY <1>3 DEF Chains, NamesInUse, Ensured
<1>5. KeysNamed' /\ ChainAhead' /\ NoKeyReuse' /\ OneAtWork'
  BY DEF Chains, KeysNamed, HasKey, Sealed, ChainAhead, NoKeyReuse,
         Rosters, OneAtWork, Preparing
<1>6. \A q \in Sends : Sealed(q) => send[q].dist \in Dists
  BY NamesType DEF Chains, KeysNamed, HasKey
<1>7. RecordOfRoster'
  BY <1>2, NamesType DEF Rosters, RecordOfRoster, Sealed
<1>8. KeyStaysInRoster'
  BY <1>2, <1>6 DEF Rosters, KeyStaysInRoster, Sealed
<1> QED BY <1>1, <1>4, <1>5, <1>7, <1>8 DEF Chains, Rosters

\* Opening a message changes a key the device has.
LEMMA DecryptKeys ==
    ASSUME Types, NEW u \in Users, NEW s \in Sends, KeyOf(u, s) # NoKey, Decrypt(u, s)
    PROVE  /\ remote' = [v \in Users |-> [d \in Dists |-> remote'[v][d]]]
           /\ \A v \in Users, d \in Dists : remote'[v][d] # NoKey => remote[v][d] # NoKey
<1> DEFINE k == Advanced(remote[u][send[s].dist], s)
<1>1. \/ remote' = remote
      \/ remote' = [remote EXCEPT ![u][send[s].dist] = k]
  BY DEF Decrypt
<1>2. remote[u][send[s].dist] # NoKey
  BY DEF KeyOf
<1> HIDE DEF k
<1> QED BY <1>1, <1>2 DEF Types, KeyTypes

LEMMA ReaderSteps ==
    ASSUME IInv, NEW u \in Users, NEW s \in Sends, Reader(u, s)
    PROVE  IInv'
<1> USE DEF IInv
<1>1. CASE Persist(u, s) \/ Miss(u, s)
  BY <1>1, QuietStep DEF Persist, Miss, server, sender, readers, network, Types, SenderTypes
<1>2. CASE Receive(u, s) \/ RetryPending(u, s)
  <2>1. /\ UNCHANGED <<members, epoch, known, record, send, overlap, shares>>
        /\ \/ UNCHANGED remote
           \/ KeyOf(u, s) # NoKey /\ Decrypt(u, s)
    BY <1>2 DEF Receive, RetryPending, server, sender, readers, network
  <2>2. CASE UNCHANGED remote
    BY <2>1, <2>2, QuietStep DEF Types, SenderTypes
  <2>3. CASE KeyOf(u, s) # NoKey /\ Decrypt(u, s)
    BY <2>1, <2>3, DecryptKeys, KeysComeFromShares DEF Holds
  <2> QED BY <2>1, <2>2, <2>3
<1> QED BY <1>1, <1>2 DEF Reader

LEMMA ImportSound ==
    ASSUME IInv, NEW share \in shares, Import(share)
    PROVE  IInv'
<1> USE DEF IInv
<1> DEFINE k == Imported(remote[share.to][share.dist], share)
<1>1. /\ UNCHANGED <<members, epoch, known, record, send, overlap>>
      /\ shares' = shares \ {share}
      /\ remote' = [remote EXCEPT ![share.to][share.dist] = k]
  BY DEF Import, server, sender
<1> HIDE DEF k
<1>2. /\ remote' = [v \in Users |-> [d \in Dists |-> remote'[v][d]]]
      /\ \A v \in Users, d \in Dists : remote'[v][d] # NoKey =>
           remote[v][d] # NoKey \/ (v = share.to /\ d = share.dist)
  BY <1>1 DEF Types, KeyTypes
<1>3. \A v \in Users, d \in Dists : remote'[v][d] # NoKey => Holds(v, d)
  BY <1>2 DEF Holds
<1> QED BY <1>1, <1>2, <1>3, KeysComeFromShares

\* What is read again from a key the device does not have is nothing.
LEMMA RereadNoKey ==
    ASSUME NEW u \in Users, NEW d \in Dists, remote[u][d] = NoKey
    PROVE  Reread(u, d) = NoKey
<1>1. {q \in Replayed(u) : send[q].dist = d} = {}
  BY DEF Replayed, KeyOf
<1>2. {send[s].chain + 1 : s \in {q \in Replayed(u) : send[q].dist = d}} = {}
  BY <1>1
<1>3. Max({-1} \cup {}) = -1
  BY DEF Max
<1>4. Reread(u, d) = [NoKey EXCEPT !.chain = Max({@} \cup {})]
  BY <1>2 DEF Reread
<1> QED BY <1>3, <1>4 DEF NoKey

LEMMA HistorySteps ==
    ASSUME IInv, NEW u \in Users, Reconnect(u) \/ LoadHistory(u)
    PROVE  IInv'
<1> USE DEF IInv
<1>1. CASE Reconnect(u)
  BY <1>1, QuietStep DEF Reconnect, server, sender, network, Types, SenderTypes
<1>2. CASE LoadHistory(u)
  <2>1. /\ UNCHANGED <<members, epoch, known, record, send, overlap, shares>>
        /\ remote' = [remote EXCEPT ![u] = [d \in Dists |-> Reread(u, d)]]
    BY <1>2 DEF LoadHistory, server, sender, network
  <2>2. \A d \in Dists : Reread(u, d) # NoKey => remote[u][d] # NoKey
    BY RereadNoKey
  <2>3. /\ remote' = [v \in Users |-> [d \in Dists |-> remote'[v][d]]]
        /\ \A v \in Users, d \in Dists : remote'[v][d] # NoKey => remote[v][d] # NoKey
    BY <2>1, <2>2 DEF Types, KeyTypes
  <2> QED BY <2>1, <2>3, KeysComeFromShares DEF Holds
<1> QED BY <1>1, <1>2

-----------------------------------------------------------------------------
(* The theorems.                                                           *)

LEMMA InitSound == Init => IInv
<1> SUFFICES ASSUME Init PROVE IInv
  OBVIOUS
<1>1. \A s \in Sends : send[s] = Idle
  BY DEF Init
<1>2. Idle \in SendStates /\ Idle.at = "idle" /\ Idle.dist = 0 /\ Idle.left = {}
  BY DEF Idle, SendStates, Steps
<1>3. Types
  BY <1>1, <1>2 DEF Init, Types, SenderTypes, KeyTypes, NoRecord, Records
<1>4. Chains
  BY <1>1, <1>2 DEF Init, Chains, NamesInUse, KeysNamed, HasKey, Sealed, ChainAhead,
                    NoKeyReuse, NoRecord
<1>5. Rosters
  BY <1>1, <1>2 DEF Init, Rosters, OneAtWork, Preparing, RecordOfRoster, KeyStaysInRoster,
                    Sealed, NoRecord
<1> QED BY <1>3, <1>4, <1>5 DEF IInv

LEMMA NextSound == IInv /\ [Next]_vars => IInv'
<1> SUFFICES ASSUME IInv, [Next]_vars PROVE IInv'
  OBVIOUS
<1>1. CASE RaiseEpoch \/ LoseBump \/ Notice
  BY <1>1, QuietStep DEF RaiseEpoch, LoseBump, Notice, server, sender, readers, network,
                         bounds, IInv, Types, SenderTypes
<1>2. CASE \E u \in Users : AddMember(u) \/ RemoveMember(u) \/ Reconnect(u) \/ LoadHistory(u)
  BY <1>2, MemberSteps, HistorySteps
<1>3. CASE \E s \in Sends : Sender(s)
  BY <1>3, EarlySteps, EnsureSound, MarkSound, EncryptSound, LateSteps, ShareSteps DEF Sender
<1>4. CASE \E s \in Sends : \E u \in Users : Reader(u, s)
  BY <1>4, ReaderSteps
<1>5. CASE \E share \in shares : Import(share)
  BY <1>5, ImportSound
<1>6. CASE UNCHANGED vars
  BY <1>6, QuietStep DEF vars, server, sender, readers, network, IInv, Types, SenderTypes
<1> QED BY <1>1, <1>2, <1>3, <1>4, <1>5, <1>6 DEF Next

LEMMA Invariance == Spec => []IInv
BY InitSound, NextSound, PTL DEF Spec

\* The records and sends of the sender and the remote keys of the readers keep their
\* types; what is left to distribute stays within the roster a send has read.
THEOREM TypeCorrect == Spec => []Types
<1>1. IInv => Types
  BY DEF IInv
<1> QED BY <1>1, Invariance, PTL

\* However many sends overlap, and whatever fails, no key of a chain seals two messages.
THEOREM FreshKeys == Spec => []NoKeyReuse
<1>1. IInv => NoKeyReuse
  BY DEF IInv, Chains
<1> QED BY <1>1, Invariance, PTL

\* As long as sends do not overlap, a key is held by devices of the roster its message
\* was sent for and by no other: who has been removed cannot read on.
THEOREM RosterOnly == Spec => []KeyStaysInRoster
<1>1. IInv => KeyStaysInRoster
  BY DEF IInv, Rosters
<1> QED BY <1>1, Invariance, PTL

-----------------------------------------------------------------------------
(* The inductive invariant of what the readers hold.                       *)

\* What the readers' side needs of types.
Shapes ==
    /\ rows \in Seq(Sends)
    /\ \A u \in Users, d \in Dists : remote[u][d] # NoKey =>
          remote[u][d] \in [init : Nat, chain : Nat]
    /\ opened \in [Users -> SUBSET Sends] /\ unreadable \in [Users -> SUBSET Sends]
    /\ pending \in [Users -> SUBSET Sends] /\ unsaved \in [Users -> SUBSET Sends]
    /\ retrying \in [Users -> SUBSET Sends]
    /\ live \subseteq [to : Users, send : Sends]

\* What is stored, under way or with a reader has been sealed.
Messages ==
    /\ \A s \in Stored : Sealed(s)
    /\ \A m \in live : Sealed(m.send)
    /\ \A u \in Users : \A s \in opened[u] \cup unreadable[u] \cup pending[u]
                                 \cup unsaved[u] \cup retrying[u] : Sealed(s)

\* Who counts as given has the key, or will.
Given ==
    /\ record.dist # 0 => \A u \in record.given : Holds(u, record.dist)
    /\ \A s \in Sends :
          /\ send[s].at # "mark" => send[s].target = {}
          /\ send[s].at = "mark" => \A u \in send[s].target : Holds(u, send[s].dist)

\* The send at work has what the record has, and has passed over nobody of its roster.
Sharing ==
    /\ \A s \in Sends : send[s].at = "ensure" => send[s].left = send[s].roster
    /\ overlap \/ \A s \in Sends : send[s].at \in {"share", "mark"} =>
          /\ send[s].chain = record.chain /\ send[s].given = record.given
          /\ send[s].roster \subseteq send[s].given \cup send[s].left \cup send[s].target

\* The key of d that is held was given away at c or before.
Within(d, c) ==
    /\ \A share \in shares : share.dist = d => share.chain <= c
    /\ \A u \in Users : remote[u][d] # NoKey => remote[u][d].init <= c

\* Once a message is sealed with a key, it is given to nobody any more.
GivenBefore ==
    overlap \/
        /\ record.dist # 0 => Within(record.dist, record.chain)
        /\ \A s \in Sends : Sealed(s) =>
              /\ Within(send[s].dist, send[s].chain)
              /\ send[s].dist = record.dist => record.print \subseteq record.given
              /\ \A u \in send[s].roster : Holds(u, send[s].dist)

\* A key is where it was given away, or behind a message that it has opened.
AsGiven(u, d) ==
    /\ d = record.dist => remote[u][d].chain <= record.chain
    /\ \A s \in Sends : Sealed(s) /\ send[s].dist = d => remote[u][d].chain <= send[s].chain
AsOpened(u, d) ==
    \E q \in opened[u] : send[q].dist = d /\ remote[u][d].chain = send[q].chain + 1
Placed ==
    overlap \/ \A u \in Users, d \in Dists : remote[u][d] # NoKey =>
        AsGiven(u, d) \/ AsOpened(u, d)

Reading == Shapes /\ Messages /\ Given /\ Sharing /\ GivenBefore /\ Placed
JInv == IInv /\ Reading /\ UnreadableForCause
-----------------------------------------------------------------------------
(* What no step undoes.                                                    *)

KeepsSealed ==
    \A s \in Sends : Sealed(s) =>
        /\ Sealed(s)' /\ send'[s].dist = send[s].dist /\ send'[s].chain = send[s].chain
        /\ send'[s].roster = send[s].roster

\* A sealed message stays what it is wherever it goes.
LEMMA MessagesKept ==
    ASSUME Shapes, Messages, KeepsSealed,
           UNCHANGED <<remote, opened, unreadable, pending, unsaved, retrying>>,
           rows' \in Seq(Sends), \A s \in Stored' : s \in Sends /\ Sealed(s)',
           live' \subseteq [to : Users, send : Sends],
           \A m \in live' : m \in live \/ Sealed(m.send)'
    PROVE  Shapes' /\ Messages'
<1>1. Shapes'
  BY DEF Shapes
<1>2. \A m \in live : m.send \in Sends
  BY DEF Shapes
<1>3. \A m \in live' : Sealed(m.send)'
  BY <1>2 DEF Messages, KeepsSealed
<1>4. ASSUME NEW u \in Users
      PROVE  opened[u] \cup unreadable[u] \cup pending[u] \cup unsaved[u] \cup retrying[u]
                \subseteq Sends
  BY DEF Shapes
<1>5. \A u \in Users : \A s \in opened[u] \cup unreadable[u] \cup pending[u]
                                \cup unsaved[u] \cup retrying[u] : Sealed(s)'
  BY <1>4 DEF Messages, KeepsSealed
<1>6. Messages'
  BY <1>3, <1>5 DEF Messages
<1> QED BY <1>1, <1>6

\* So does the cause for which one is unreadable.
LEMMA CauseKept ==
    ASSUME Shapes, Messages, UnreadableForCause, KeepsSealed, overlap => overlap',
           UNCHANGED <<opened, unreadable>>
    PROVE  UnreadableForCause'
<1>1. \A u \in Users : opened[u] \subseteq Sends /\ unreadable[u] \subseteq Sends
  BY DEF Shapes
<1>2. \A u \in Users : \A s \in opened[u] \cup unreadable[u] : Sealed(s)
  BY DEF Messages
<1> QED BY <1>1, <1>2 DEF UnreadableForCause, KeepsSealed

\* A step that loads, gives and seals nothing.
LEMMA QuietSender ==
    ASSUME Shapes, Messages, Given, Sharing, GivenBefore, Placed, overlap => overlap',
           UNCHANGED <<record, shares, remote, opened>>, KeepsSealed,
           \A s \in Sends : Sealed(s)' => Sealed(s),
           \A s \in Sends : send'[s].at \in {"share", "mark"} => send'[s] = send[s],
           \A s \in Sends : send'[s].at = "ensure" => send'[s].left = send'[s].roster,
           \A s \in Sends : send'[s].at # "mark" => send'[s].target = {}
    PROVE  Given' /\ Sharing' /\ GivenBefore' /\ Placed'
<1>1. \A u, d : Holds(u, d)' <=> Holds(u, d)
  BY DEF Holds
<1>2. Given'
  BY <1>1 DEF Given
<1>3. Sharing'
  BY DEF Sharing
<1>4. GivenBefore'
  BY <1>1 DEF GivenBefore, Within, KeepsSealed
<1>5. Placed'
  <2>1. ASSUME NEW u \in Users, NEW d \in Dists, AsGiven(u, d) PROVE AsGiven(u, d)'
    BY <2>1 DEF AsGiven, KeepsSealed
  <2>2. ASSUME NEW u \in Users, NEW d \in Dists, remote[u][d] # NoKey, AsOpened(u, d)
        PROVE  AsOpened(u, d)'
    <3>1. \A q \in opened[u] : q \in Sends /\ Sealed(q)
      BY DEF Shapes, Messages
    <3> QED BY <2>2, <3>1 DEF AsOpened, KeepsSealed
  <2> QED BY <2>1, <2>2 DEF Placed
<1> QED BY <1>2, <1>3, <1>4, <1>5

\* The server and the news of it leave all of it alone.
LEMMA MemberStepsKeep ==
    ASSUME JInv, \/ \E u \in Users : AddMember(u) \/ RemoveMember(u)
                 \/ RaiseEpoch \/ LoseBump \/ Notice \/ UNCHANGED vars
    PROVE  Reading' /\ UnreadableForCause'
<1> USE DEF JInv, Reading
<1>1. UNCHANGED <<record, send, shares, live, rows, overlap>> /\ UNCHANGED readers
  BY DEF AddMember, RemoveMember, RaiseEpoch, LoseBump, Notice, vars, server, sender, network
<1>2. UNCHANGED <<remote, opened, unreadable, pending, unsaved, retrying>>
  BY <1>1 DEF readers
<1>3. KeepsSealed /\ \A s \in Sends : Sealed(s)' <=> Sealed(s)
  BY <1>1 DEF KeepsSealed, Sealed
<1>4. \A s \in Stored : s \in Sends
  BY DEF Shapes, Stored, ToSet
<1>5. Shapes' /\ Messages'
  <2>1. Stored' = Stored
    BY <1>1 DEF Stored
  <2> QED BY <1>1, <1>2, <1>3, <1>4, <2>1, MessagesKept DEF Shapes, Messages
<1>6. Given' /\ Sharing' /\ GivenBefore' /\ Placed'
  BY <1>1, <1>2, <1>3, QuietSender DEF IInv, Given, Sharing
<1> QED BY <1>1, <1>2, <1>3, <1>5, <1>6, CauseKept

-----------------------------------------------------------------------------
(* The sending side keeps it.                                              *)

\* One send moves on, and loads, gives and seals nothing.
LEMMA SendMoves ==
    ASSUME JInv, NEW s \in Sends,
           UNCHANGED <<record, shares, remote, opened, unreadable, pending, unsaved, retrying>>,
           overlap => overlap', KeepsSealed,
           \A q \in Sends : q # s => send'[q] = send[q],
           send'[s].at \notin {"share", "mark"}, send'[s].target = {},
           send'[s].at = "ensure" => send'[s].left = send'[s].roster,
           Sealed(s)' => Sealed(s),
           rows' \in Seq(Sends), \A q \in Stored' : q \in Stored \/ (q = s /\ Sealed(s)'),
           live' \subseteq [to : Users, send : Sends],
           \A m \in live' : m \in live \/ Sealed(m.send)'
    PROVE  Reading' /\ UnreadableForCause'
<1> USE DEF JInv, Reading
<1>1. \A q \in Sends : Sealed(q)' => Sealed(q)
  BY DEF Sealed
<1>2. \A q \in Stored : q \in Sends
  BY DEF Shapes, Stored, ToSet
<1>3. \A q \in Stored' : q \in Sends /\ Sealed(q)'
  BY <1>2 DEF Messages, KeepsSealed
<1>4. Shapes' /\ Messages'
  BY <1>3, MessagesKept
<1>5. Given' /\ Sharing' /\ GivenBefore' /\ Placed'
  <2>1. \A q \in Sends : send'[q].at \in {"share", "mark"} => send'[q] = send[q]
    OBVIOUS
  <2>2. \A q \in Sends : send'[q].at # "mark" => send'[q].target = {}
    BY DEF Given
  <2>3. \A q \in Sends : send'[q].at = "ensure" => send'[q].left = send'[q].roster
    BY DEF Sharing
  <2> QED BY <1>1, <2>1, <2>2, <2>3, QuietSender
<1> QED BY <1>4, <1>5, CauseKept

\* Before a send has a key there is nothing to give.
LEMMA EarlyStepsKeep ==
    ASSUME JInv, NEW s \in Sends, Begin(s) \/ ApplyDetails(s) \/ ReadRoster(s)
    PROVE  Reading' /\ UnreadableForCause'
<1>0. /\ send \in [Sends -> SendStates] /\ send[s] \in SendStates
      /\ Shapes /\ Messages /\ Given
  BY DEF JInv, IInv, Types, SenderTypes, Reading
<1>1. /\ UNCHANGED <<record, shares, remote, opened, unreadable, pending, unsaved, retrying>>
      /\ UNCHANGED <<rows, live>> /\ (overlap => overlap')
  <2>1. CASE Begin(s)
    BY <2>1 DEF Begin, server, readers, network
  <2>2. CASE ApplyDetails(s)
    BY <2>2 DEF ApplyDetails, server, readers, network
  <2>3. CASE ReadRoster(s)
    BY <2>3 DEF ReadRoster, server, readers, network
  <2> QED BY <2>1, <2>2, <2>3
<1>2. /\ \A q \in Sends : q # s => send'[q] = send[q]
      /\ send[s].at \in {"idle", "details", "roster"}
      /\ send'[s].at \in {"details", "roster", "ensure"}
      /\ send'[s].target = send[s].target
      /\ send'[s].at = "ensure" => send'[s].left = send'[s].roster
  <2>1. CASE Begin(s)
    BY <1>0, <2>1 DEF Begin, SendStates, Steps
  <2>2. CASE ApplyDetails(s)
    BY <1>0, <2>2 DEF ApplyDetails, SendStates, Steps
  <2>3. CASE ReadRoster(s)
    BY <1>0, <2>3 DEF ReadRoster, SendStates, Steps
  <2> QED BY <2>1, <2>2, <2>3
<1>3. send[s].target = {}
  BY <1>0, <1>2 DEF Given
<1>4. KeepsSealed /\ ~Sealed(s)'
  BY <1>2 DEF KeepsSealed, Sealed
<1>5. Stored' = Stored
  BY <1>1 DEF Stored
<1> QED BY <1>0, <1>1, <1>2, <1>3, <1>4, <1>5, SendMoves DEF Shapes

\* A sealed message goes into the history and out on the sockets.
LEMMA LateStepsKeep ==
    ASSUME JInv, NEW s \in Sends,
           \/ Stamp(s) \/ Retry(s) \/ CheckEpoch(s) \/ Insert(s) \/ Publish(s) \/ PostFails(s)
    PROVE  Reading' /\ UnreadableForCause'
<1>0. /\ send \in [Sends -> SendStates] /\ send[s] \in SendStates
      /\ Shapes /\ Messages /\ Given /\ members \subseteq Users
  BY DEF JInv, IInv, Types, SenderTypes, Reading
<1>1. UNCHANGED <<record, shares, remote, opened, unreadable, pending, unsaved, retrying, overlap>>
  BY DEF Stamp, Retry, CheckEpoch, Insert, Publish, PostFails, server, readers, network
<1>2. /\ \A q \in Sends : q # s => send'[q] = send[q]
      /\ send[s].at \in {"stamp", "failed", "post", "insert", "publish"}
      /\ send'[s].at \in {"post", "insert", "refused", "publish", "done", "failed"}
      /\ send'[s].dist = send[s].dist /\ send'[s].chain = send[s].chain
      /\ send'[s].roster = send[s].roster /\ send'[s].target = send[s].target
  <2>1. CASE Stamp(s)
    BY <1>0, <2>1 DEF Stamp, SendStates, Steps
  <2>2. CASE Retry(s)
    BY <1>0, <2>2 DEF Retry, SendStates, Steps
  <2>3. CASE CheckEpoch(s)
    BY <1>0, <2>3 DEF CheckEpoch, SendStates, Steps
  <2>4. CASE Insert(s)
    BY <1>0, <2>4 DEF Insert, SendStates, Steps
  <2>5. CASE Publish(s)
    BY <1>0, <2>5 DEF Publish, SendStates, Steps
  <2>6. CASE PostFails(s)
    BY <1>0, <2>6 DEF PostFails, SendStates, Steps
  <2> QED BY <2>1, <2>2, <2>3, <2>4, <2>5, <2>6
<1>3. send[s].target = {}
  BY <1>0, <1>2 DEF Given
<1>4. KeepsSealed /\ Sealed(s) /\ Sealed(s)'
  BY <1>2 DEF KeepsSealed, Sealed
<1>5. /\ rows' \in Seq(Sends)
      /\ \A q \in Stored' : q \in Stored \/ q = s
  <2>1. CASE rows' = rows
    BY <1>0, <2>1 DEF Stored, Shapes
  <2>2. CASE rows' = Append(rows, s)
    BY <1>0, <2>2 DEF Stored, Shapes, ToSet
  <2> QED BY <2>1, <2>2 DEF Stamp, Retry, CheckEpoch, Insert, Publish, PostFails, server
<1>6. /\ live' \subseteq [to : Users, send : Sends]
      /\ \A m \in live' : m \in live \/ m.send = s
  <2>1. CASE live' = live
    BY <1>0, <2>1 DEF Shapes
  <2>2. CASE live' = live \cup {[to |-> u, send |-> s] : u \in members \cap Readers}
    BY <1>0, <2>2 DEF Shapes
  <2> QED BY <2>1, <2>2 DEF Stamp, Retry, CheckEpoch, Insert, Publish, PostFails, network
<1>7. \A m \in live' : m \in live \/ Sealed(m.send)'
  BY <1>4, <1>6
<1> QED BY <1>1, <1>2, <1>3, <1>4, <1>5, <1>6, <1>7, SendMoves

\* The readers' keys stay where they are.
LEMMA PlacedKept ==
    ASSUME Shapes, Messages, Placed, KeepsSealed, overlap => overlap',
           UNCHANGED <<remote, opened>>,
           ~overlap => \A u \in Users, d \in Dists :
               remote[u][d] # NoKey /\ AsGiven(u, d) => AsGiven(u, d)'
    PROVE  Placed'
<1>1. ASSUME NEW u \in Users, NEW d \in Dists, AsOpened(u, d)
      PROVE  AsOpened(u, d)'
  <2>1. \A q \in opened[u] : q \in Sends /\ Sealed(q)
    BY DEF Shapes, Messages
  <2> QED BY <1>1, <2>1 DEF AsOpened, KeepsSealed
<1> QED BY <1>1 DEF Placed

\* A kept key is one that is held as it was; a rotated one is held by nobody yet.
LEMMA EnsureKeeps ==
    ASSUME JInv, NEW s \in Sends, Ensure(s)
    PROVE  Reading' /\ UnreadableForCause'
<1> USE DEF JInv, Reading
<1>0. /\ send \in [Sends -> SendStates] /\ send[s] \in SendStates /\ record \in Records
  BY DEF IInv, Types, SenderTypes
<1>1. /\ send[s].at = "ensure" /\ record' = Rotated(s)
      /\ UNCHANGED <<remote, shares, live, rows, overlap>>
      /\ UNCHANGED <<opened, unreadable, pending, unsaved, retrying>>
      /\ send' = [send EXCEPT ![s] = Loaded(send[s], record')]
  BY DEF Ensure, server, readers, network
<1>2. /\ record' = record \/ (record'.dist = s /\ record'.chain = 0 /\ record'.given = {})
      /\ record' \in Records
  <2>1. CASE record.dist # 0 /\ record.print = send[s].roster
    BY <1>0, <1>1, <2>1 DEF Rotated
  <2>2. CASE ~(record.dist # 0 /\ record.print = send[s].roster)
    <3>1. record' = [dist |-> s, chain |-> 0, print |-> send[s].roster, given |-> {}]
      BY <1>1, <2>2 DEF Rotated
    <3> QED BY <1>0, <3>1, Constants DEF Records, SendStates
  <2> QED BY <2>1, <2>2
<1>3. /\ \A q \in Sends : q # s => send'[q] = send[q]
      /\ send'[s].at = "share"
      /\ send'[s].chain = record'.chain /\ send'[s].given = record'.given
      /\ send'[s].roster = send[s].roster /\ send'[s].left = send[s].left
      /\ send'[s].target = send[s].target
  <2>1. /\ Loaded(send[s], record').at = "share"
        /\ Loaded(send[s], record').chain = record'.chain
        /\ Loaded(send[s], record').given = record'.given
        /\ Loaded(send[s], record').roster = send[s].roster
        /\ Loaded(send[s], record').left = send[s].left
        /\ Loaded(send[s], record').target = send[s].target
    BY <1>0, <1>2 DEF Loaded, SendStates, Records
  <2> QED BY <1>0, <1>1, <2>1
<1>4. /\ KeepsSealed
      /\ \A q \in Sends : Sealed(q)' => Sealed(q) /\ send'[q] = send[q]
  BY <1>1, <1>3 DEF KeepsSealed, Sealed
<1>5. Stored' = Stored /\ \A q \in Stored : q \in Sends
  BY <1>1 DEF Stored, Shapes, ToSet
<1>6. Shapes' /\ Messages'
  BY <1>1, <1>4, <1>5, MessagesKept DEF Shapes, Messages, KeepsSealed
<1>7. UnreadableForCause'
  BY <1>1, <1>4, CauseKept
<1>8. \A u, d : Holds(u, d)' <=> Holds(u, d)
  BY <1>1 DEF Holds
<1>9. Given'
  BY <1>1, <1>2, <1>3, <1>8 DEF Given
<1>10. Sharing'
  <2>1. send[s].target = {} /\ send[s].left = send[s].roster
    BY <1>1 DEF Given, Sharing
  <2>2. ASSUME ~overlap, NEW q \in Sends, send'[q].at \in {"share", "mark"}
        PROVE  q = s
    BY <1>1, <1>3, <2>2 DEF IInv, Rosters, OneAtWork, Preparing
  <2>3. send'[s].roster \subseteq send'[s].left
    BY <1>3, <2>1
  <2>4. \A q \in Sends : send'[q].at = "ensure" => send'[q].left = send'[q].roster
    BY <1>3 DEF Sharing
  <2> QED BY <1>1, <1>3, <2>2, <2>3, <2>4 DEF Sharing
<1>11. ASSUME record' # record
       PROVE  /\ \A u \in Users : remote[u][record'.dist] = NoKey
              /\ \A share \in shares : share.dist # record'.dist
              /\ \A q \in Sends : Sealed(q) => send[q].dist # record'.dist
  <2>1. ~Ensured(s) /\ record'.dist = s /\ s # 0 /\ s \in Dists
    BY <1>1, <1>2, <1>11, Constants DEF Ensured
  <2>2. NamesInUse
    BY DEF IInv, Chains
  <2> QED BY <2>1, <2>2 DEF NamesInUse
<1>12. \A q \in Sends : Sealed(q)' /\ Within(send[q].dist, send[q].chain) =>
            Within(send[q].dist, send[q].chain)'
  BY <1>1, <1>4 DEF Within
<1>13. GivenBefore'
  <2>1. CASE record' = record
    BY <1>1, <1>4, <1>8, <2>1 DEF GivenBefore, Within
  <2>2. CASE record' # record
    <3>1. Within(record.dist, record.chain)'
      BY <1>1, <1>11, <2>2 DEF Within
    <3> QED BY <1>1, <1>4, <1>8, <1>11, <1>12, <2>2, <3>1 DEF GivenBefore
  <2> QED BY <2>1, <2>2
<1>14. Placed'
  <2>1. ASSUME NEW u \in Users, NEW d \in Dists, remote[u][d] # NoKey, AsGiven(u, d)
        PROVE  AsGiven(u, d)'
    <3>1. d = record'.dist => record' = record
      BY <1>11, <2>1
    <3> QED BY <1>1, <1>4, <2>1, <3>1 DEF AsGiven
  <2> QED BY <1>1, <1>4, <2>1, PlacedKept
<1> QED BY <1>6, <1>7, <1>9, <1>10, <1>13, <1>14

\* Who gets the key now did not have it, so no message has been sealed with it yet.
LEMMA ShareKeeps ==
    ASSUME JInv, NEW s \in Sends, NEW u \in Users, Share(s, u) \/ ShareFails(s, u)
    PROVE  Reading' /\ UnreadableForCause'
<1> USE DEF JInv, Reading
<1>0. /\ send \in [Sends -> SendStates] /\ send[s] \in SendStates
      /\ send[s].left \subseteq send[s].roster
  BY DEF IInv, Types, SenderTypes
<1>1. /\ send[s].at = "share" /\ u \in send[s].left
      /\ UNCHANGED <<record, remote, live, rows, overlap>>
      /\ UNCHANGED <<opened, unreadable, pending, unsaved, retrying>>
      /\ shares \subseteq shares'
      /\ shares' = shares \/ (u \notin send[s].given /\ shares' = shares \cup {ShareOf(s, u)})
  BY DEF Share, ShareFails, server, readers
<1>2. send[s].target = {}
  BY <1>1 DEF Given
<1>3. ShareOf(s, u).to = u /\ ShareOf(s, u).dist = send[s].dist
      /\ ShareOf(s, u).chain = send[s].chain
  BY DEF ShareOf
<1>4. /\ \A q \in Sends : q # s => send'[q] = send[q]
      /\ send'[s].at \in {"share", "mark", "dropped"}
      /\ send'[s].at # "mark" => send'[s].target = {}
      /\ send'[s].at = "mark" => send'[s].target = {u} /\ ShareOf(s, u) \in shares'
      /\ send'[s].at # "dropped" =>
           /\ send'[s].dist = send[s].dist /\ send'[s].chain = send[s].chain
           /\ send'[s].given = send[s].given /\ send'[s].roster = send[s].roster
           /\ send'[s].left = send[s].left \ {u}
           /\ send'[s].at = "share" => u \in send[s].given
  <2>1. CASE Share(s, u) /\ u \in send[s].given
    BY <1>0, <1>1, <1>2, <2>1 DEF Share, SendStates
  <2>2. CASE Share(s, u) /\ u \notin send[s].given
    BY <1>0, <1>1, <2>2 DEF Share, SendStates
  <2>3. CASE ShareFails(s, u)
    <3> DEFINE x == [Idle EXCEPT !.at = "dropped"]
    <3>1. x.at = "dropped" /\ x.target = {}
      BY DEF Idle
    <3>2. send' = [send EXCEPT ![s] = x]
      BY <2>3 DEF ShareFails
    <3> HIDE DEF x
    <3> QED BY <1>0, <3>1, <3>2
  <2> QED BY <1>1, <2>1, <2>2, <2>3
<1>5. /\ KeepsSealed
      /\ \A q \in Sends : Sealed(q)' => Sealed(q) /\ send'[q] = send[q]
  BY <1>1, <1>4 DEF KeepsSealed, Sealed
<1>6. Stored' = Stored /\ \A q \in Stored : q \in Sends
  BY <1>1 DEF Stored, Shapes, ToSet
<1>7. Shapes' /\ Messages'
  BY <1>1, <1>5, <1>6, MessagesKept DEF Shapes, Messages, KeepsSealed
<1>8. UnreadableForCause'
  BY <1>1, <1>5, CauseKept
<1>9. \A v, d : Holds(v, d) => Holds(v, d)'
  BY <1>1 DEF Holds
<1>10. Given'
  <2>1. send'[s].at = "mark" => (\A v \in send[s].target : Holds(v, send[s].dist))'
    BY <1>3, <1>4 DEF Holds
  <2>2. record'.dist # 0 => (\A v \in record.given : Holds(v, record.dist))'
    BY <1>1, <1>9 DEF Given
  <2>3. ASSUME NEW q \in Sends
        PROVE  /\ send'[q].at # "mark" => send'[q].target = {}
               /\ send'[q].at = "mark" => (\A v \in send[q].target : Holds(v, send[q].dist))'
    <3>1. CASE q = s
      BY <1>4, <2>1, <3>1
    <3>2. CASE q # s
      BY <1>4, <1>9, <3>2 DEF Given
    <3> QED BY <3>1, <3>2
  <2> QED BY <2>2, <2>3 DEF Given
<1>11. Sharing'
  <2>1. \A q \in Sends : send'[q].at = "ensure" => send'[q].left = send'[q].roster
    BY <1>4 DEF Sharing
  <2>2. ASSUME ~overlap, NEW q \in Sends, send'[q].at \in {"share", "mark"}
        PROVE  /\ send'[q].chain = record'.chain /\ send'[q].given = record'.given
               /\ send'[q].roster \subseteq send'[q].given \cup send'[q].left \cup send'[q].target
    <3>1. CASE q = s
      <4>1. /\ send[s].chain = record.chain /\ send[s].given = record.given
            /\ send[s].roster \subseteq send[s].given \cup send[s].left
        BY <1>1, <1>2, <2>2 DEF Sharing
      <4>2. u \in send[s].given \/ send'[s].target = {u}
        BY <1>4, <2>2, <3>1
      <4>3. /\ send'[s].chain = send[s].chain /\ send'[s].given = send[s].given
            /\ send'[s].roster = send[s].roster /\ send'[s].left = send[s].left \ {u}
        BY <1>4, <2>2, <3>1
      <4> QED BY <1>1, <3>1, <4>1, <4>2, <4>3
    <3>2. CASE q # s
      BY <1>1, <1>4, <2>2, <3>2 DEF Sharing
    <3> QED BY <3>1, <3>2
  <2> QED BY <1>1, <2>1, <2>2 DEF Sharing
<1>12. GivenBefore'
  <2>1. CASE shares' = shares
    BY <1>1, <1>5, <1>9, <2>1 DEF GivenBefore, Within
  <2>2. CASE overlap
    BY <1>1, <2>2 DEF GivenBefore
  <2>3. CASE ~overlap /\ shares' = shares \cup {ShareOf(s, u)} /\ u \notin send[s].given
    <3>1. /\ send[s].dist = record.dist /\ u \in record.print
          /\ send[s].chain = record.chain /\ send[s].given = record.given
      BY <1>0, <1>1, <2>3 DEF IInv, Rosters, OneAtWork, Preparing, Sharing
    <3>2. \A q \in Sends : Sealed(q) => send[q].dist # record.dist
      BY <2>3, <3>1 DEF GivenBefore
    <3>3. \A d, c : Within(d, c) /\ d # record.dist => Within(d, c)'
      BY <1>1, <1>3, <2>3, <3>1 DEF Within
    <3>4. record.dist # 0 => Within(record.dist, record.chain)'
      <4>1. record.dist # 0 => Within(record.dist, record.chain)
        BY <2>3 DEF GivenBefore
      <4>2. record.chain \in Int
        BY DEF IInv, Types, SenderTypes, Records
      <4> QED BY <1>1, <1>3, <2>3, <3>1, <4>1, <4>2 DEF Within
    <3>5. ASSUME NEW q \in Sends, Sealed(q)'
          PROVE  /\ Within(send[q].dist, send[q].chain)'
                 /\ send'[q].dist # record'.dist
                 /\ (\A v \in send[q].roster : Holds(v, send[q].dist))'
      <4>1. Sealed(q) /\ send'[q] = send[q]
        BY <1>5, <3>5
      <4>2. Within(send[q].dist, send[q].chain) /\ \A v \in send[q].roster : Holds(v, send[q].dist)
        BY <2>3, <4>1 DEF GivenBefore
      <4>3. Within(send[q].dist, send[q].chain)'
        BY <3>2, <3>3, <4>1, <4>2 DEF Within
      <4> QED BY <1>1, <1>9, <3>2, <4>1, <4>2, <4>3
    <3> QED BY <1>1, <3>4, <3>5 DEF GivenBefore
  <2> QED BY <1>1, <2>1, <2>2, <2>3
<1>13. Placed'
  <2>1. ASSUME NEW v \in Users, NEW d \in Dists, remote[v][d] # NoKey, AsGiven(v, d)
        PROVE  AsGiven(v, d)'
    BY <1>1, <1>5, <2>1 DEF AsGiven
  <2> QED BY <1>1, <1>5, <2>1, PlacedKept
<1> QED BY <1>7, <1>8, <1>10, <1>11, <1>12, <1>13

\* Who is marked has the key, or will.
LEMMA MarkKeeps ==
    ASSUME JInv, NEW s \in Sends, Mark(s)
    PROVE  Reading' /\ UnreadableForCause'
<1> USE DEF JInv, Reading
<1> DEFINE x == [Loaded(send[s], record') EXCEPT !.target = {}]
<1>0. /\ send \in [Sends -> SendStates] /\ send[s] \in SendStates /\ record \in Records
  BY DEF IInv, Types, SenderTypes
<1>1. /\ send[s].at = "mark" /\ record' = Marked(record, send[s])
      /\ UNCHANGED <<remote, shares, live, rows, overlap>>
      /\ UNCHANGED <<opened, unreadable, pending, unsaved, retrying>>
      /\ send' = [send EXCEPT ![s] = x]
  BY DEF Mark, server, readers, network
<1>2. /\ record' \in Records /\ record'.dist = record.dist
      /\ record'.chain = record.chain /\ record'.print = record.print
      /\ record'.given = IF record.dist = send[s].dist THEN record.given \cup send[s].target
                                                      ELSE record.given
  BY <1>0, <1>1 DEF Marked, Records, SendStates
<1>3. /\ x.at = "share" /\ x.chain = record'.chain /\ x.given = record'.given
      /\ x.roster = send[s].roster /\ x.left = send[s].left /\ x.target = {}
  <2>1. /\ Loaded(send[s], record') \in SendStates
        /\ Loaded(send[s], record').at = "share"
        /\ Loaded(send[s], record').chain = record'.chain
        /\ Loaded(send[s], record').given = record'.given
        /\ Loaded(send[s], record').roster = send[s].roster
        /\ Loaded(send[s], record').left = send[s].left
    BY <1>0, <1>2 DEF Loaded, SendStates, Records, Steps
  <2> QED BY <2>1 DEF SendStates
<1> HIDE DEF x
<1>4. send'[s] = x /\ \A q \in Sends : q # s => send'[q] = send[q]
  BY <1>0, <1>1
<1>5. /\ KeepsSealed
      /\ \A q \in Sends : Sealed(q)' => Sealed(q) /\ send'[q] = send[q]
  BY <1>1, <1>3, <1>4 DEF KeepsSealed, Sealed
<1>6. Stored' = Stored /\ \A q \in Stored : q \in Sends
  BY <1>1 DEF Stored, Shapes, ToSet
<1>7. Shapes' /\ Messages'
  BY <1>1, <1>5, <1>6, MessagesKept DEF Shapes, Messages, KeepsSealed
<1>8. UnreadableForCause'
  BY <1>1, <1>5, CauseKept
<1>9. \A v, d : Holds(v, d) <=> Holds(v, d)'
  BY <1>1 DEF Holds
<1>10. Given'
  <2>1. record.dist # 0 => \A v \in record'.given : Holds(v, record.dist)
    BY <1>1, <1>2 DEF Given
  <2>2. \A q \in Sends : /\ send'[q].at # "mark" => send'[q].target = {}
                         /\ send'[q].at = "mark" => send'[q] = send[q]
    BY <1>3, <1>4 DEF Given
  <2> QED BY <1>2, <1>9, <2>1, <2>2 DEF Given
<1>11. Sharing'
  <2>1. \A q \in Sends : send'[q].at = "ensure" => send'[q].left = send'[q].roster
    BY <1>3, <1>4 DEF Sharing
  <2>2. ASSUME ~overlap, NEW q \in Sends, send'[q].at \in {"share", "mark"}
        PROVE  q = s
    BY <1>1, <1>4, <2>2 DEF IInv, Rosters, OneAtWork, Preparing
  <2>3. ASSUME ~overlap
        PROVE  send[s].roster \subseteq record'.given \cup send[s].left
    <3>1. /\ send[s].dist = record.dist /\ send[s].given = record.given
          /\ send[s].roster \subseteq send[s].given \cup send[s].left \cup send[s].target
      BY <1>1, <2>3 DEF IInv, Rosters, OneAtWork, Preparing, Sharing
    <3> QED BY <1>2, <3>1
  <2> QED BY <1>1, <1>3, <1>4, <2>1, <2>2, <2>3 DEF Sharing
<1>12. GivenBefore'
  <2>1. \A d, c : Within(d, c)' <=> Within(d, c)
    BY <1>1 DEF Within
  <2>2. record.given \subseteq record'.given
    BY <1>2
  <2> QED BY <1>1, <1>2, <1>5, <1>9, <2>1, <2>2 DEF GivenBefore, Within
<1>13. Placed'
  <2>1. ASSUME NEW v \in Users, NEW d \in Dists, remote[v][d] # NoKey, AsGiven(v, d)
        PROVE  AsGiven(v, d)'
    BY <1>1, <1>2, <1>5, <2>1 DEF AsGiven
  <2> QED BY <1>1, <1>5, <2>1, PlacedKept
<1> QED BY <1>7, <1>8, <1>10, <1>11, <1>12, <1>13

\* The key that seals has gone to the whole roster by then, at this place of the chain or
\* before.
LEMMA EncryptKeeps ==
    ASSUME JInv, NEW s \in Sends, Encrypt(s)
    PROVE  Reading' /\ UnreadableForCause'
<1> USE DEF JInv, Reading
<1>0. /\ send \in [Sends -> SendStates] /\ send[s] \in SendStates /\ record \in Records
  BY DEF IInv, Types, SenderTypes
<1>1. /\ send[s].at = "share" /\ send[s].left = {}
      /\ UNCHANGED <<remote, shares, live, rows, overlap>>
      /\ UNCHANGED <<opened, unreadable, pending, unsaved, retrying>>
  BY DEF Encrypt, server, readers, network
<1>2. /\ record' \in Records /\ record'.dist = record.dist /\ record'.given = record.given
      /\ record'.chain = record.chain + 1 /\ record'.print = record.print
      /\ record.chain \in Nat
  BY <1>0 DEF Encrypt, Records
<1>3. /\ \A q \in Sends : q # s => send'[q] = send[q]
      /\ send'[s].at = "stamp" /\ send'[s].dist = record.dist
      /\ send'[s].chain = record.chain /\ send'[s].roster = send[s].roster
      /\ send'[s].target = send[s].target
  BY <1>0 DEF Encrypt, SendStates, Records, Steps
<1>4. /\ KeepsSealed
      /\ \A q \in Sends : Sealed(q)' => q = s \/ (Sealed(q) /\ send'[q] = send[q])
  BY <1>1, <1>3 DEF KeepsSealed, Sealed
<1>5. Stored' = Stored /\ \A q \in Stored : q \in Sends
  BY <1>1 DEF Stored, Shapes, ToSet
<1>6. Shapes' /\ Messages'
  BY <1>1, <1>4, <1>5, MessagesKept DEF Shapes, Messages, KeepsSealed
<1>7. UnreadableForCause'
  BY <1>1, <1>4, CauseKept
<1>8. \A v, d : Holds(v, d) <=> Holds(v, d)'
  BY <1>1 DEF Holds
<1>9. send[s].target = {} /\ record.dist # 0
  BY <1>1 DEF Given, IInv, Chains, KeysNamed, HasKey
<1>10. Given'
  BY <1>2, <1>3, <1>8, <1>9 DEF Given
<1>11. Sharing'
  BY <1>1, <1>3 DEF Sharing, IInv, Rosters, OneAtWork, Preparing
<1>12. ~overlap =>
         /\ send[s].roster = record.print /\ record.print \subseteq record.given
         /\ \A v \in send[s].roster : Holds(v, record.dist)
  BY <1>1, <1>9 DEF IInv, Rosters, OneAtWork, Preparing, Sharing, Given
<1>13. GivenBefore'
  <2>1. \A d, c : Within(d, c)' <=> Within(d, c)
    BY <1>1 DEF Within
  <2>2. ASSUME ~overlap PROVE Within(record.dist, record.chain)
    BY <1>9, <2>2 DEF GivenBefore
  <2>3. ASSUME ~overlap PROVE Within(record.dist, record.chain + 1)
    <3>1. \A share \in shares : share.chain \in Nat
      BY DEF IInv, Types, KeyTypes
    <3>2. \A v \in Users : remote[v][record.dist] # NoKey => remote[v][record.dist].init \in Nat
      BY <1>0, <1>9 DEF Shapes, Records
    <3> QED BY <1>2, <2>2, <2>3, <3>1, <3>2 DEF Within
  <2>4. ASSUME ~overlap PROVE Within(record'.dist, record'.chain)
    BY <1>2, <2>3, <2>4
  <2>5. ASSUME ~overlap, NEW q \in Sends, Sealed(q)'
        PROVE  /\ Within(send'[q].dist, send'[q].chain)
               /\ send'[q].dist = record.dist => record.print \subseteq record.given
               /\ \A v \in send'[q].roster : Holds(v, send'[q].dist)
    <3>1. CASE q = s
      BY <1>3, <1>12, <2>2, <2>5, <3>1
    <3>2. CASE q # s
      BY <1>4, <2>5, <3>2 DEF GivenBefore
    <3> QED BY <3>1, <3>2
  <2> QED BY <1>1, <1>2, <1>8, <2>1, <2>4, <2>5 DEF GivenBefore, Within
<1>14. Placed'
  <2>1. ASSUME NEW v \in Users, NEW d \in Dists, remote[v][d] # NoKey, AsGiven(v, d)
        PROVE  AsGiven(v, d)'
    <3>1. remote[v][d].chain \in Nat
      BY <2>1 DEF Shapes
    <3>2. d = record.dist => remote[v][d].chain <= record.chain
      BY <2>1 DEF AsGiven
    <3>3. d = record'.dist => remote[v][d].chain <= record'.chain
      BY <1>2, <3>1, <3>2
    <3>4. ASSUME NEW q \in Sends, Sealed(q)', send'[q].dist = d
          PROVE  remote[v][d].chain <= send'[q].chain
      <4>1. CASE q = s
        BY <1>3, <3>2, <3>4, <4>1
      <4>2. CASE q # s
        BY <1>4, <2>1, <3>4, <4>2 DEF AsGiven
      <4> QED BY <4>1, <4>2
    <3> QED BY <1>1, <3>3, <3>4 DEF AsGiven
  <2> QED BY <1>1, <1>4, <2>1, PlacedKept
<1> QED BY <1>6, <1>7, <1>10, <1>11, <1>13, <1>14

-----------------------------------------------------------------------------
(* The reading side keeps it.                                              *)

\* Keys come from distributions under way, and stay where a device has once got them.
LEMMA ReadersKeep ==
    ASSUME JInv, UNCHANGED <<record, send, overlap>>, shares' \subseteq shares,
           \A u \in Users, d \in Dists : Holds(u, d) => Holds(u, d)',
           \A u \in Users, d \in Dists : remote'[u][d] # NoKey =>
              \/ remote[u][d] # NoKey /\ remote'[u][d].init = remote[u][d].init
              \/ \E share \in shares : share.dist = d /\ remote'[u][d].init = share.chain
    PROVE  Given' /\ Sharing' /\ GivenBefore'
<1> USE DEF JInv, Reading
<1>1. /\ send \in [Sends -> SendStates] /\ record \in Records /\ Dists = Sends
  BY DEF IInv, Types, SenderTypes, Dists
<1>2. /\ record.dist # 0 => record.dist \in Dists
      /\ \A s \in Sends : HasKey(s) => send[s].dist \in Dists
  BY NamesType DEF IInv, Chains, KeysNamed
<1>3. /\ record.given \subseteq Users
      /\ \A s \in Sends : send[s].target \subseteq Users /\ send[s].roster \subseteq Users
  BY <1>1 DEF SendStates, Records
<1>4. Given'
  BY <1>2, <1>3 DEF Given, HasKey
<1>5. Sharing'
  BY DEF Sharing
<1>6. \A d \in Dists : \A c : Within(d, c) => Within(d, c)'
  BY DEF Within
<1>7. GivenBefore'
  <2>1. \A s \in Sends : Sealed(s)' <=> Sealed(s)
    BY DEF Sealed
  <2>2. \A s \in Sends : Sealed(s) => send[s].dist \in Dists
    BY <1>2 DEF HasKey
  <2>3. ASSUME ~overlap, record.dist # 0 PROVE Within(record.dist, record.chain)'
    <3>1. Within(record.dist, record.chain)
      BY <2>3 DEF GivenBefore
    <3> QED BY <1>2, <1>6, <2>3, <3>1 DEF Within
  <2>4. ASSUME ~overlap, NEW s \in Sends, Sealed(s)
        PROVE  /\ Within(send[s].dist, send[s].chain)'
               /\ send[s].dist = record.dist => record.print \subseteq record.given
               /\ (\A u \in send[s].roster : Holds(u, send[s].dist))'
    <3>1. /\ Within(send[s].dist, send[s].chain)
          /\ send[s].dist = record.dist => record.print \subseteq record.given
          /\ \A u \in send[s].roster : Holds(u, send[s].dist)
      BY <2>4 DEF GivenBefore
    <3>2. Within(send[s].dist, send[s].chain)'
      BY <1>6, <2>2, <2>4, <3>1 DEF Within
    <3>3. (\A u \in send[s].roster : Holds(u, send[s].dist))'
      BY <1>3, <2>2, <2>4, <3>1
    <3> QED BY <3>1, <3>2, <3>3
  <2> QED BY <2>1, <2>3, <2>4 DEF GivenBefore
<1> QED BY <1>4, <1>5, <1>7

\* A step that changes no key and opens nothing.
LEMMA QuietReader ==
    ASSUME JInv, UNCHANGED <<record, send, overlap, remote, shares, opened, unreadable, rows>>,
           live' \subseteq live,
           pending' \in [Users -> SUBSET Sends], unsaved' \in [Users -> SUBSET Sends],
           retrying' \in [Users -> SUBSET Sends],
           \A u \in Users : \A s \in pending'[u] \cup unsaved'[u] \cup retrying'[u] : Sealed(s)
    PROVE  Reading' /\ UnreadableForCause'
<1> USE DEF JInv, Reading
<1>1. \A s : Sealed(s)' <=> Sealed(s)
  BY DEF Sealed
<1>2. Shapes'
  BY DEF Shapes
<1>3. Messages'
  <2>1. Stored' = Stored
    BY DEF Stored
  <2> QED BY <1>1, <2>1 DEF Messages
<1>4. Given' /\ Sharing' /\ GivenBefore'
  BY ReadersKeep DEF Holds
<1>5. KeepsSealed
  BY DEF KeepsSealed, Sealed
<1>6. Placed'
  BY <1>1, <1>5, PlacedKept DEF AsGiven
<1>7. UnreadableForCause'
  BY DEF UnreadableForCause
<1> QED BY <1>2, <1>3, <1>4, <1>6, <1>7

\* The chain of a key only moves behind a message that is opened, and a message is too old
\* for it only behind a later one.
LEMMA DecryptKeeps ==
    ASSUME JInv, NEW u \in Users, NEW s \in Sends, Sealed(s), KeyOf(u, s) # NoKey, Decrypt(u, s),
           s \notin opened[u], UNCHANGED <<record, send, overlap, shares, rows>>, live' \subseteq live,
           pending' \in [Users -> SUBSET Sends], unsaved' \in [Users -> SUBSET Sends],
           retrying' \in [Users -> SUBSET Sends],
           \A v \in Users : \A q \in pending'[v] \cup unsaved'[v] \cup retrying'[v] : Sealed(q)
    PROVE  Reading' /\ UnreadableForCause'
<1> USE DEF JInv, Reading
<1> DEFINE D == send[s].dist
           k == Advanced(remote[u][D], s)
<1>0. /\ D \in Dists /\ send[s].chain \in Nat
      /\ remote[u][D] \in [init : Nat, chain : Nat] /\ remote[u][D] # NoKey
  <2>1. HasKey(s)
    BY DEF HasKey
  <2>2. D \in Dists
    BY <2>1, NamesType DEF IInv, Chains, KeysNamed
  <2>3. send[s].chain \in Nat
    BY DEF IInv, Types, SenderTypes, SendStates
  <2>4. remote[u][D] # NoKey
    BY DEF KeyOf
  <2> QED BY <2>2, <2>3, <2>4 DEF Shapes
<1>1. \A q : Sealed(q)' <=> Sealed(q)
  BY DEF Sealed
<1>2. Stored' = Stored
  BY DEF Stored
<1>3. k \in [init : Nat, chain : Nat] /\ k.init = remote[u][D].init
      /\ k.chain = send[s].chain + 1 /\ k # NoKey
  <2>1. k \in [init : Nat, chain : Nat] /\ k.init = remote[u][D].init
        /\ k.chain = send[s].chain + 1
    BY <1>0 DEF Advanced
  <2>2. NoKey.init = -1
    BY DEF NoKey
  <2> HIDE DEF k
  <2>3. k.init \in Nat
    BY <2>1
  <2> QED BY <2>1, <2>2, <2>3
<1>4. remote = [v \in Users |-> [d \in Dists |-> remote[v][d]]]
  BY DEF IInv, Types, KeyTypes
<1>5. CASE Opens(KeyOf(u, s), s)
  <2>1. /\ remote' = [remote EXCEPT ![u][D] = k] /\ unreadable' = unreadable
        /\ opened' = [opened EXCEPT ![u] = @ \cup {s}]
    BY <1>5 DEF Decrypt
  <2> HIDE DEF k, D
  <2>2. /\ remote'[u][D] = k
        /\ \A v \in Users, d \in Dists : v # u \/ d # D => remote'[v][d] = remote[v][d]
    BY <1>0, <1>4, <2>1
  <2>3. /\ opened' \in [Users -> SUBSET Sends] /\ s \in opened'[u]
        /\ \A v \in Users : opened[v] \subseteq opened'[v] /\ opened'[v] \subseteq opened[v] \cup {s}
    BY <2>1 DEF Shapes
  <2>4. Shapes'
    BY <1>3, <2>1, <2>2, <2>3 DEF Shapes
  <2>5. Messages'
    <3>1. \A v \in Users : \A q \in opened'[v] \cup unreadable'[v] : Sealed(q)
      BY <2>1, <2>3 DEF Messages
    <3> QED BY <1>1, <1>2, <3>1 DEF Messages
  <2>6. Given' /\ Sharing' /\ GivenBefore'
    <3>1. \A v \in Users, d \in Dists : Holds(v, d) => Holds(v, d)'
      BY <1>3, <2>2 DEF Holds
    <3>2. \A v \in Users, d \in Dists : remote'[v][d] # NoKey =>
              remote[v][d] # NoKey /\ remote'[v][d].init = remote[v][d].init
      BY <1>0, <1>3, <2>2
    <3> QED BY <3>1, <3>2, ReadersKeep
  <2>7. Placed'
    <3>1. ASSUME NEW v \in Users, NEW d \in Dists, v = u, d = D PROVE AsOpened(v, d)'
      BY <1>3, <2>2, <2>3, <3>1 DEF AsOpened, D
    <3>2. ASSUME NEW v \in Users, NEW d \in Dists, v # u \/ d # D, AsGiven(v, d)
          PROVE  AsGiven(v, d)'
      BY <1>1, <2>2, <3>2 DEF AsGiven
    <3>3. ASSUME NEW v \in Users, NEW d \in Dists, v # u \/ d # D, AsOpened(v, d)
          PROVE  AsOpened(v, d)'
      BY <2>2, <2>3, <3>3 DEF AsOpened
    <3> QED BY <2>2, <3>1, <3>2, <3>3 DEF Placed
  <2>8. UnreadableForCause'
    BY <2>1, <2>3 DEF UnreadableForCause
  <2> QED BY <2>4, <2>5, <2>6, <2>7, <2>8
<1>6. CASE ~Opens(KeyOf(u, s), s)
  <2>1. /\ remote' = remote /\ opened' = opened
        /\ unreadable' = [unreadable EXCEPT ![u] = @ \cup {s}]
    BY <1>6 DEF Decrypt
  <2>2. /\ unreadable' \in [Users -> SUBSET Sends]
        /\ \A v \in Users : \A q \in unreadable'[v] : q \in unreadable[v] \/ (v = u /\ q = s)
    BY <2>1 DEF Shapes
  <2>3. Shapes'
    BY <2>1, <2>2 DEF Shapes
  <2>4. Messages'
    BY <1>1, <1>2, <2>1, <2>2 DEF Messages
  <2>5. Given' /\ Sharing' /\ GivenBefore'
    BY <2>1, ReadersKeep DEF Holds
  <2>6. Placed'
    <3>1. KeepsSealed
      BY DEF KeepsSealed, Sealed
    <3> QED BY <1>1, <2>1, <3>1, PlacedKept DEF AsGiven
  <2>7. UnreadableForCause'
    <3>1. ASSUME ~overlap
          PROVE  \E q \in opened[u] : send[q].dist = D /\ send[q].chain > send[s].chain
      <4>1. remote[u][D].chain > send[s].chain
        BY <1>0, <1>6 DEF Opens, KeyOf
      <4>2. ~AsGiven(u, D)
        BY <1>0, <4>1 DEF AsGiven
      <4>3. PICK q \in opened[u] : send[q].dist = D /\ remote[u][D].chain = send[q].chain + 1
        BY <1>0, <3>1, <4>2 DEF Placed, AsOpened
      <4>4. q \in Sends /\ Sealed(q) /\ q # s
        BY DEF Shapes, Messages
      <4>5. send[q].chain # send[s].chain
        BY <4>3, <4>4 DEF IInv, Chains, NoKeyReuse
      <4>6. send[q].chain \in Nat
        BY <4>4 DEF IInv, Types, SenderTypes, SendStates
      <4> QED BY <1>0, <4>1, <4>3, <4>5, <4>6
    <3> QED BY <2>1, <2>2, <3>1 DEF UnreadableForCause
  <2> QED BY <2>3, <2>4, <2>5, <2>6, <2>7
<1> QED BY <1>5, <1>6

\* A message is opened, or waits, or is missed.
LEMMA ReaderKeeps ==
    ASSUME JInv, NEW u \in Users, NEW s \in Sends, Reader(u, s)
    PROVE  Reading' /\ UnreadableForCause'
<1> USE DEF JInv, Reading
<1>0. /\ pending \in [Users -> SUBSET Sends] /\ unsaved \in [Users -> SUBSET Sends]
      /\ retrying \in [Users -> SUBSET Sends]
      /\ \A v \in Users : \A q \in pending[v] \cup unsaved[v] \cup retrying[v] : Sealed(q)
      /\ \A m \in live : Sealed(m.send)
  BY DEF Shapes, Messages
<1>1. /\ UNCHANGED <<record, send, overlap, shares, rows>> /\ live' \subseteq live
  BY DEF Reader, Receive, Persist, Miss, RetryPending, server, sender, network
<1>2. CASE Persist(u, s)
  <2>1. UNCHANGED <<remote, opened, unreadable>>
    BY <1>2 DEF Persist
  <2>2. /\ s \in unsaved[u] /\ retrying' = retrying
        /\ unsaved' = [unsaved EXCEPT ![u] = @ \ {s}]
        /\ pending' = [pending EXCEPT ![u] = @ \cup {s}]
    BY <1>2 DEF Persist
  <2>3. /\ pending' \in [Users -> SUBSET Sends] /\ unsaved' \in [Users -> SUBSET Sends]
        /\ retrying' \in [Users -> SUBSET Sends]
        /\ \A v \in Users : \A q \in pending'[v] \cup unsaved'[v] \cup retrying'[v] : Sealed(q)
    BY <1>0, <2>2
  <2> QED BY <1>1, <2>1, <2>3, QuietReader
<1>3. CASE Miss(u, s)
  BY <1>0, <1>1, <1>3, QuietReader DEF Miss, readers
<1>4. CASE Receive(u, s)
  <2>1. Sealed(s)
    <3>1. [to |-> u, send |-> s] \in live
      BY <1>4 DEF Receive
    <3> QED BY <1>0, <3>1
  <2>2. /\ \/ unsaved' = unsaved \/ unsaved' = [unsaved EXCEPT ![u] = @ \cup {s}]
        /\ \/ pending' = pending \/ pending' = [pending EXCEPT ![u] = @ \ {s}]
        /\ retrying' = retrying
    BY <1>4 DEF Receive, readers
  <2>3. /\ pending' \in [Users -> SUBSET Sends] /\ unsaved' \in [Users -> SUBSET Sends]
        /\ retrying' \in [Users -> SUBSET Sends]
        /\ \A v \in Users : \A q \in pending'[v] \cup unsaved'[v] \cup retrying'[v] : Sealed(q)
    BY <1>0, <2>1, <2>2
  <2>4. \/ UNCHANGED <<remote, opened, unreadable>>
        \/ KeyOf(u, s) # NoKey /\ s \notin opened[u] /\ Decrypt(u, s)
    BY <1>4 DEF Receive, readers
  <2> QED BY <1>1, <2>1, <2>3, <2>4, QuietReader, DecryptKeeps
<1>5. CASE RetryPending(u, s)
  <2>1. Sealed(s)
    BY <1>0, <1>5 DEF RetryPending
  <2>2. /\ unsaved' = unsaved
        /\ \/ pending' = pending \/ pending' = [pending EXCEPT ![u] = @ \ {s}]
        /\ retrying' = [retrying EXCEPT ![u] = @ \ {s}]
    BY <1>5 DEF RetryPending
  <2>3. /\ pending' \in [Users -> SUBSET Sends] /\ unsaved' \in [Users -> SUBSET Sends]
        /\ retrying' \in [Users -> SUBSET Sends]
        /\ \A v \in Users : \A q \in pending'[v] \cup unsaved'[v] \cup retrying'[v] : Sealed(q)
    BY <1>0, <2>2
  <2>4. \/ UNCHANGED <<remote, opened, unreadable>>
        \/ KeyOf(u, s) # NoKey /\ s \notin opened[u] /\ Decrypt(u, s)
    BY <1>5 DEF RetryPending
  <2> QED BY <1>1, <2>1, <2>3, <2>4, QuietReader, DecryptKeeps
<1> QED BY <1>2, <1>3, <1>4, <1>5 DEF Reader

\* The queue is loaded.
LEMMA ReconnectKeeps ==
    ASSUME JInv, NEW u \in Users, Reconnect(u)
    PROVE  Reading' /\ UnreadableForCause'
<1>0. /\ pending \in [Users -> SUBSET Sends] /\ unsaved \in [Users -> SUBSET Sends]
      /\ retrying \in [Users -> SUBSET Sends]
      /\ \A v \in Users : \A q \in pending[v] \cup unsaved[v] \cup retrying[v] : Sealed(q)
  BY DEF JInv, Reading, Shapes, Messages
<1>1. /\ UNCHANGED <<record, send, overlap, remote, shares, opened, unreadable, rows>>
      /\ live' \subseteq live /\ UNCHANGED <<pending, unsaved>>
      /\ retrying' = [retrying EXCEPT ![u] = pending[u]]
  BY DEF Reconnect, Due, server, sender, network
<1>2. /\ retrying' \in [Users -> SUBSET Sends]
      /\ \A v \in Users : \A q \in retrying'[v] : q \in pending[v] \cup retrying[v]
  BY <1>0, <1>1
<1> QED BY <1>0, <1>1, <1>2, QuietReader

\* The greater of two.
LEMMA MaxOfTwo ==
    ASSUME NEW a \in Int, NEW b \in Int
    PROVE  /\ Max({a, b}) \in {a, b}
           /\ Max({a, b}) >= a /\ Max({a, b}) >= b
<1>1. \E x \in {a, b} : \A y \in {a, b} : x >= y
  OBVIOUS
<1> QED BY <1>1 DEF Max

\* And of a chain and the place of a missing key.
LEMMA MaxOfNone == ASSUME NEW b \in Nat PROVE Max({-1, b}) = b
<1>1. /\ b \in {-1, b} /\ \A y \in {-1, b} : b >= y
      /\ \A x \in {-1, b} : x >= b => x = b
  OBVIOUS
<1> QED BY <1>1 DEF Max

\* A key that is imported is where it was given away, or stays where it was.
LEMMA ImportKeeps ==
    ASSUME JInv, NEW share \in shares, Import(share)
    PROVE  Reading' /\ UnreadableForCause'
<1> USE DEF JInv, Reading
<1> DEFINE u == share.to
           d == share.dist
           k == Imported(remote[u][d], share)
<1>0. /\ u \in Users /\ d \in Dists /\ share.chain \in Nat
      /\ remote = [v \in Users |-> [e \in Dists |-> remote[v][e]]]
      /\ remote[u][d] # NoKey => remote[u][d] \in [init : Nat, chain : Nat]
  BY DEF IInv, Types, KeyTypes, Shapes
<1>1. /\ UNCHANGED <<record, send, overlap, unsaved, pending, opened, unreadable, live, rows>>
      /\ shares' = shares \ {share}
      /\ remote' = [remote EXCEPT ![u][d] = k]
      /\ retrying' = [retrying EXCEPT ![u] = @ \cup {s \in pending[u] : send[s].dist = d}]
  BY DEF Import, server, sender
<1>2. /\ k \in [init : Nat, chain : Nat]
      /\ k.init = IF remote[u][d] = NoKey THEN share.chain ELSE remote[u][d].init
      /\ k.chain = share.chain \/ (remote[u][d] # NoKey /\ k = remote[u][d])
  <2>1. CASE remote[u][d] = NoKey
    <3>1. /\ k.init = share.chain /\ k.chain = Max({-1, share.chain})
          /\ k = [init |-> k.init, chain |-> k.chain]
      BY <2>1 DEF Imported, NoKey
    <3>2. Max({-1, share.chain}) = share.chain
      BY <1>0, MaxOfNone
    <3> QED BY <1>0, <2>1, <3>1, <3>2
  <2>2. CASE remote[u][d] # NoKey
    <3>1. /\ k.init = remote[u][d].init
          /\ k.chain = Max({remote[u][d].chain, share.chain})
          /\ k = [init |-> k.init, chain |-> k.chain]
      BY <2>2 DEF Imported
    <3>2. Max({remote[u][d].chain, share.chain}) \in {remote[u][d].chain, share.chain}
      <4>1. remote[u][d].chain \in Int /\ share.chain \in Int
        BY <1>0, <2>2
      <4> QED BY <4>1, MaxOfTwo
    <3>3. k.chain = share.chain \/ k.chain = remote[u][d].chain
      BY <3>1, <3>2
    <3>4. remote[u][d] = [init |-> remote[u][d].init, chain |-> remote[u][d].chain]
      BY <1>0, <2>2
    <3> HIDE DEF k
    <3> QED BY <1>0, <2>2, <3>1, <3>3, <3>4
  <2> QED BY <2>1, <2>2
<1> HIDE DEF k
<1>3. k # NoKey
  BY <1>2 DEF NoKey
<1>4. /\ remote'[u][d] = k
      /\ \A v \in Users, e \in Dists : v # u \/ e # d => remote'[v][e] = remote[v][e]
  BY <1>0, <1>1
<1>5. /\ retrying' \in [Users -> SUBSET Sends]
      /\ \A v \in Users : \A q \in retrying'[v] : q \in retrying[v] \cup pending[v]
  BY <1>0, <1>1 DEF Shapes
<1>6. Shapes'
  BY <1>1, <1>2, <1>4, <1>5 DEF Shapes
<1>7. \A q : Sealed(q)' <=> Sealed(q)
  BY <1>1 DEF Sealed
<1>8. Messages'
  <2>1. Stored' = Stored
    BY <1>1 DEF Stored
  <2> QED BY <1>1, <1>5, <1>7, <2>1 DEF Messages
<1>9. Given' /\ Sharing' /\ GivenBefore'
  <2>1. \A v \in Users, e \in Dists : Holds(v, e) => Holds(v, e)'
    BY <1>1, <1>3, <1>4 DEF Holds
  <2>2. \A v \in Users, e \in Dists : remote'[v][e] # NoKey =>
              \/ remote[v][e] # NoKey /\ remote'[v][e].init = remote[v][e].init
              \/ \E x \in shares : x.dist = e /\ remote'[v][e].init = x.chain
    BY <1>2, <1>4
  <2> QED BY <1>1, <2>1, <2>2, ReadersKeep
<1>10. Placed'
  <2>1. ASSUME ~overlap, k.chain = share.chain,
               NEW v \in Users, NEW e \in Dists, v = u, e = d
        PROVE  AsGiven(v, e)'
    <3>1. e = record.dist => share.chain <= record.chain
      BY <1>0, <2>1, Constants DEF GivenBefore, Within
    <3>2. \A q \in Sends : Sealed(q) /\ send[q].dist = e => share.chain <= send[q].chain
      BY <2>1 DEF GivenBefore, Within
    <3> QED BY <1>1, <1>4, <1>7, <2>1, <3>1, <3>2 DEF AsGiven
  <2>2. ASSUME NEW v \in Users, NEW e \in Dists, remote'[v][e] = remote[v][e], AsGiven(v, e)
        PROVE  AsGiven(v, e)'
    BY <1>1, <1>7, <2>2 DEF AsGiven
  <2>3. ASSUME NEW v \in Users, NEW e \in Dists, remote'[v][e] = remote[v][e], AsOpened(v, e)
        PROVE  AsOpened(v, e)'
    BY <1>1, <2>3 DEF AsOpened
  <2> QED BY <1>1, <1>2, <1>4, <2>1, <2>2, <2>3 DEF Placed
<1>11. UnreadableForCause'
  BY <1>1 DEF UnreadableForCause
<1> QED BY <1>6, <1>8, <1>9, <1>10, <1>11

\* Over a finite set a function to the integers has a greatest value.
LEMMA FiniteMax ==
    ASSUME NEW S, IsFiniteSet(S), S # {}, NEW f \in [S -> Int]
    PROVE  \E x \in S : \A y \in S : f[x] >= f[y]
<1> DEFINE Greatest(A) == \E x \in A : \A y \in A : f[x] >= f[y]
           bad == {A \in FiniteSubsetsOf(S) : A # {} /\ ~Greatest(A)}
<1>1. SUFFICES ASSUME ~Greatest(S) PROVE FALSE
  OBVIOUS
<1>2. S \in bad
  BY <1>1 DEF FiniteSubsetsOf
<1>3. PICK A \in bad : \A B \in bad : <<B, A>> \notin StrictSubsetOrdering(S)
  <2>1. bad \subseteq FiniteSubsetsOf(S) /\ bad # {}
    BY <1>2
  <2> HIDE DEF bad
  <2> QED BY <2>1, FS_StrictSubsetOrderingWellFounded, WFMin
<1>4. A \subseteq S /\ IsFiniteSet(A) /\ A # {} /\ ~Greatest(A)
  BY DEF FiniteSubsetsOf
<1>5. PICK a \in A : TRUE
  BY <1>4
<1> DEFINE B == A \ {a}
<1>6. IsFiniteSet(B)
  BY <1>4, FS_Subset
<1>7. CASE B = {}
  BY <1>4, <1>5, <1>7
<1>8. CASE B # {}
  <2>1. Greatest(B)
    <3>1. <<B, A>> \in StrictSubsetOrdering(S)
      BY <1>4, <1>5 DEF StrictSubsetOrdering
    <3>2. B \notin bad
      BY <1>3, <3>1
    <3> QED BY <1>4, <1>6, <1>8, <3>2 DEF FiniteSubsetsOf
  <2>2. PICK b \in B : \A y \in B : f[b] >= f[y]
    BY <2>1
  <2>3. f[a] \in Int /\ f[b] \in Int /\ \A y \in A : f[y] \in Int
    BY <1>4, <1>5
  <2>4. CASE f[a] >= f[b]
    <3>1. \A y \in B : f[a] >= f[y]
      BY <2>2, <2>3, <2>4
    <3>2. \A y \in A : f[a] >= f[y]
      BY <2>3, <3>1
    <3> QED BY <1>4, <1>5, <3>2
  <2>5. CASE f[b] >= f[a]
    <3>1. \A y \in A : f[b] >= f[y]
      BY <2>2, <2>5
    <3> QED BY <1>4, <2>2, <3>1
  <2> QED BY <2>3, <2>4, <2>5
<1> QED BY <1>7, <1>8

\* History leaves a key where it was or behind a message that it has opened.
LEMMA RereadPlace ==
    ASSUME Types, Shapes, Messages, NEW u \in Users, NEW d \in Dists, remote[u][d] # NoKey
    PROVE  /\ Reread(u, d) \in [init : Nat, chain : Nat]
           /\ Reread(u, d).init = remote[u][d].init
           /\ \/ Reread(u, d) = remote[u][d]
              \/ \E q \in Replayed(u) : send[q].dist = d /\ Reread(u, d).chain = send[q].chain + 1
<1> DEFINE S == {q \in Replayed(u) : send[q].dist = d}
           ends == {send[s].chain + 1 : s \in S}
           c == remote[u][d].chain
           m == Max({c} \cup ends)
<1>1. remote[u][d] \in [init : Nat, chain : Nat]
  BY DEF Shapes
<1>2. S \subseteq Sends /\ IsFiniteSet(S)
  <2>1. S \subseteq Sends
    BY DEF Replayed, Stored, ToSet, Shapes
  <2>2. IsFiniteSet(Sends)
    BY Constants, FS_Interval DEF Sends
  <2> HIDE DEF S
  <2> QED BY <2>1, <2>2, FS_Subset
<1>3. \A s \in S : send[s].chain \in Nat
  BY <1>2 DEF Types, SenderTypes, SendStates
<1>4. c \in Nat
  BY <1>1
<1>5. Reread(u, d) = [remote[u][d] EXCEPT !.chain = m]
  BY DEF Reread
<1> HIDE DEF S
<1>6. m \in {c} \cup ends
  <2>1. \E x \in {c} \cup ends : \A y \in {c} \cup ends : x >= y
    <3>1. CASE S = {}
      BY <1>4, <3>1
    <3>2. CASE S # {}
      <4> DEFINE f == [s \in S |-> send[s].chain + 1]
      <4>1. f \in [S -> Int]
        BY <1>3
      <4> HIDE DEF f
      <4>2. PICK x \in S : \A y \in S : f[x] >= f[y]
        BY <1>2, <3>2, <4>1, FiniteMax
      <4>3. \A y \in S : send[x].chain + 1 >= send[y].chain + 1
        BY <4>2 DEF f
      <4>4. \A y \in ends : send[x].chain + 1 >= y
        BY <4>3
      <4>5. send[x].chain + 1 \in ends /\ send[x].chain \in Nat
        BY <1>3
      <4>6. CASE c <= send[x].chain + 1
        BY <4>4, <4>5, <4>6
      <4>7. CASE c > send[x].chain + 1
        <5>1. \A y \in ends : y \in Nat
          BY <1>3
        <5>2. \A y \in ends : c >= y
          <6> HIDE DEF ends, c
          <6> QED BY <1>4, <4>4, <4>5, <4>7, <5>1
        <5>3. c \in {c} \cup ends /\ c >= c
          <6> HIDE DEF ends, c
          <6> QED BY <1>4
        <5> HIDE DEF ends, c
        <5> QED BY <5>2, <5>3
      <4> QED BY <1>4, <4>5, <4>6, <4>7
    <3> QED BY <3>1, <3>2
  <2> HIDE DEF c, ends
  <2> QED BY <2>1 DEF Max
<1> HIDE DEF m
<1>7. m \in Nat /\ (m = c \/ \E q \in S : m = send[q].chain + 1)
  <2> HIDE DEF c
  <2> QED BY <1>3, <1>4, <1>6
<1>8. /\ Reread(u, d) \in [init : Nat, chain : Nat]
      /\ Reread(u, d).init = remote[u][d].init /\ Reread(u, d).chain = m
      /\ m = c => Reread(u, d) = remote[u][d]
  BY <1>1, <1>5, <1>7
<1> QED BY <1>7, <1>8 DEF S

\* What is read again is no older than the key of its roster: nothing is too old.
LEMMA HistoryKeeps ==
    ASSUME JInv, NEW u \in Users, LoadHistory(u)
    PROVE  Reading' /\ UnreadableForCause'
<1> USE DEF JInv, Reading
<1> DEFINE keyed == {s \in Stored : KeyOf(u, s) # NoKey}
<1>1. /\ UNCHANGED <<record, send, overlap, unsaved, retrying, shares, live, rows>>
      /\ opened' = [opened EXCEPT ![u] = @ \cup Replayed(u)]
      /\ unreadable' = [unreadable EXCEPT ![u] = (keyed \ Replayed(u)) \ opened[u]]
      /\ pending' = [pending EXCEPT ![u] = @ \cup (Stored \ keyed)]
      /\ remote' = [remote EXCEPT ![u] = [d \in Dists |-> Reread(u, d)]]
  BY DEF LoadHistory, server, sender, network
<1>2. Stored \subseteq Sends /\ Replayed(u) \subseteq Stored /\ keyed \subseteq Stored
  BY DEF Replayed, Stored, ToSet, Shapes
<1>3. \A s \in Stored : Sealed(s)
  BY DEF Messages
<1> HIDE DEF keyed
<1>4. /\ opened' \in [Users -> SUBSET Sends] /\ unreadable' \in [Users -> SUBSET Sends]
      /\ pending' \in [Users -> SUBSET Sends]
      /\ opened'[u] = opened[u] \cup Replayed(u)
      /\ \A v \in Users : /\ opened[v] \subseteq opened'[v]
                          /\ opened'[v] \subseteq opened[v] \cup Stored
                          /\ unreadable'[v] \subseteq unreadable[v] \cup Stored
                          /\ pending'[v] \subseteq pending[v] \cup Stored
  BY <1>1, <1>2 DEF Shapes
<1>5. \A q : Sealed(q)' <=> Sealed(q)
  BY <1>1 DEF Sealed
<1>6. Types
  BY DEF IInv
<1>7. /\ \A d \in Dists : remote'[u][d] = Reread(u, d)
      /\ \A v \in Users, d \in Dists : v # u => remote'[v][d] = remote[v][d]
  BY <1>1, <1>6 DEF Types, KeyTypes
<1>8. \A v \in Users, d \in Dists : remote[v][d] = NoKey => remote'[v][d] = NoKey
  BY <1>7, RereadNoKey
<1>9. ASSUME NEW v \in Users, NEW d \in Dists, remote[v][d] # NoKey
      PROVE  /\ remote'[v][d] \in [init : Nat, chain : Nat] /\ remote'[v][d] # NoKey
             /\ remote'[v][d].init = remote[v][d].init
             /\ \/ remote'[v][d] = remote[v][d]
                \/ \E q \in opened'[v] : send[q].dist = d /\ remote'[v][d].chain = send[q].chain + 1
  <2>1. remote[v][d] \in [init : Nat, chain : Nat]
    BY <1>9 DEF Shapes
  <2>2. /\ remote'[v][d] \in [init : Nat, chain : Nat]
        /\ remote'[v][d].init = remote[v][d].init
        /\ \/ remote'[v][d] = remote[v][d]
           \/ \E q \in opened'[v] : send[q].dist = d /\ remote'[v][d].chain = send[q].chain + 1
    <3>1. CASE v # u
      BY <1>7, <2>1, <3>1
    <3>2. CASE v = u
      BY <1>4, <1>6, <1>7, <1>9, <3>2, RereadPlace
    <3> QED BY <3>1, <3>2
  <2>3. remote'[v][d] # NoKey
    BY <2>2 DEF NoKey
  <2> QED BY <2>2, <2>3
<1>10. Shapes'
  BY <1>1, <1>4, <1>8, <1>9 DEF Shapes
<1>11. Messages'
  <2>1. Stored' = Stored
    BY <1>1 DEF Stored
  <2> QED BY <1>1, <1>3, <1>4, <1>5, <2>1 DEF Messages
<1>12. Given' /\ Sharing' /\ GivenBefore'
  <2>1. \A v \in Users, d \in Dists : Holds(v, d) => Holds(v, d)'
    BY <1>1, <1>9 DEF Holds
  <2>2. \A v \in Users, d \in Dists : remote'[v][d] # NoKey =>
              remote[v][d] # NoKey /\ remote'[v][d].init = remote[v][d].init
    BY <1>8, <1>9
  <2> QED BY <1>1, <2>1, <2>2, ReadersKeep
<1>13. Placed'
  <2>1. ASSUME NEW v \in Users, NEW d \in Dists, remote'[v][d] = remote[v][d], AsGiven(v, d)
        PROVE  AsGiven(v, d)'
    BY <1>1, <1>5, <2>1 DEF AsGiven
  <2>2. ASSUME NEW v \in Users, NEW d \in Dists, remote'[v][d] = remote[v][d], AsOpened(v, d)
        PROVE  AsOpened(v, d)'
    BY <1>1, <1>4, <2>2 DEF AsOpened
  <2>3. ASSUME NEW v \in Users, NEW d \in Dists,
               \E q \in opened'[v] : send[q].dist = d /\ remote'[v][d].chain = send[q].chain + 1
        PROVE  AsOpened(v, d)'
    BY <1>1, <2>3 DEF AsOpened
  <2> QED BY <1>1, <1>8, <1>9, <2>1, <2>2, <2>3 DEF Placed
<1>14. UnreadableForCause'
  <2>1. ASSUME ~overlap, NEW s \in unreadable'[u], u \in send[s].roster
        PROVE  FALSE
    <3>1. s \in Stored /\ KeyOf(u, s) # NoKey /\ s \notin Replayed(u)
      BY <1>1, <2>1 DEF Shapes, keyed
    <3>2. s \in Sends /\ Sealed(s)
      BY <1>2, <1>3, <3>1
    <3>3. remote[u][send[s].dist].init <= send[s].chain
      BY <2>1, <3>1, <3>2 DEF GivenBefore, Within, KeyOf
    <3> QED BY <3>1, <3>3 DEF Replayed, KeyOf
  <2>2. \A v \in Users : v # u => unreadable'[v] = unreadable[v]
    BY <1>1 DEF Shapes
  <2> QED BY <1>1, <1>4, <2>1, <2>2 DEF UnreadableForCause
<1> QED BY <1>10, <1>11, <1>12, <1>13, <1>14

-----------------------------------------------------------------------------
(* The theorems about reading.                                             *)

\* At first nobody holds anything.
LEMMA InitKeeps == Init => Reading /\ UnreadableForCause
<1> SUFFICES ASSUME Init PROVE Reading /\ UnreadableForCause
  OBVIOUS
<1>1. \A s \in Sends : send[s].at = "idle" /\ send[s].target = {}
  BY DEF Init, Idle
<1>2. record.dist = 0
  BY DEF Init, NoRecord
<1>3. \A s \in Sends : ~Sealed(s)
  BY <1>1 DEF Sealed
<1>4. Shapes
  BY DEF Init, Shapes
<1>5. Messages
  <2>1. Stored = {}
    BY DEF Init, Stored, ToSet
  <2> QED BY <2>1 DEF Init, Messages
<1>6. Given /\ Sharing /\ GivenBefore /\ Placed
  BY <1>1, <1>2, <1>3 DEF Init, Given, Sharing, GivenBefore, Placed
<1>7. UnreadableForCause
  BY DEF Init, UnreadableForCause
<1> QED BY <1>4, <1>5, <1>6, <1>7 DEF Reading

\* Every step keeps it.
LEMMA NextKeeps == JInv /\ [Next]_vars => Reading' /\ UnreadableForCause'
<1> SUFFICES ASSUME JInv, [Next]_vars PROVE Reading' /\ UnreadableForCause'
  OBVIOUS
<1>1. CASE RaiseEpoch \/ LoseBump \/ Notice \/ UNCHANGED vars
  BY <1>1, MemberStepsKeep
<1>2. CASE \E u \in Users : AddMember(u) \/ RemoveMember(u) \/ Reconnect(u) \/ LoadHistory(u)
  BY <1>2, MemberStepsKeep, ReconnectKeeps, HistoryKeeps
<1>3. CASE \E s \in Sends : Sender(s)
  BY <1>3, EarlyStepsKeep, EnsureKeeps, MarkKeeps, EncryptKeeps, LateStepsKeep, ShareKeeps
  DEF Sender
<1>4. CASE \E s \in Sends : \E u \in Users : Reader(u, s)
  BY <1>4, ReaderKeeps
<1>5. CASE \E share \in shares : Import(share)
  BY <1>5, ImportKeeps
<1> QED BY <1>1, <1>2, <1>3, <1>4, <1>5 DEF Next

\* So it always holds.
LEMMA ReadingInvariance == Spec => []JInv
<1>1. Init => JInv
  BY InitSound, InitKeeps DEF JInv
<1>2. JInv /\ [Next]_vars => JInv'
  BY NextSound, NextKeeps DEF JInv
<1> QED BY <1>1, <1>2, PTL DEF Spec

\* As long as sends do not overlap, every device of the roster of a message has its key or
\* will be given it, and from that message on or earlier.
THEOREM RosterReads == Spec => []RosterHoldsKey
<1>1. JInv => RosterHoldsKey
  BY DEF JInv, Reading, GivenBefore, Within, RosterHoldsKey, KeyOf, IInv, Types, SenderTypes,
         SendStates
<1> QED BY <1>1, ReadingInvariance, PTL

\* As long as sends do not overlap, a device of the roster is shown a message as unreadable
\* only when it has opened a later one of the same key.
THEOREM UnreadableHasCause == Spec => []UnreadableForCause
<1>1. JInv => UnreadableForCause
  BY DEF JInv
<1> QED BY <1>1, ReadingInvariance, PTL
=============================================================================
