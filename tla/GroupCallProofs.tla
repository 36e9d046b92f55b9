-------------------------- MODULE GroupCallProofs --------------------------
(***************************************************************************)
(* That the group has one call at a time, and that nobody sits in a dead   *)
(* one, for any members, devices, calls and losses.  The invariant behind  *)
(* the first: only one request is between the look and the insert, none    *)
(* but it makes a call live that was not, and whatever works on a call or  *)
(* shows one works on a call with a row.  The second has its own, below.   *)
(* Then, with a third: whoever leaves last ends the call, and a roster     *)
(* nobody works on is whole.                                               *)
(***************************************************************************)
EXTENDS GroupCall, TLAPS

HasRow(c, r) == c \in Calls /\ r[c] # "none"

Joining == {"lock", "insert", "user", "device", "map", "joined"}

\* A job that is past its look at the group's call works on one with a row.
Sound(j, r) ==
    /\ j \in Job
    /\ j.step \notin {"idle", "lock", "insert"} => HasRow(j.call, r)
    /\ j.step \in Joining => j.op \in {"create", "join"}

Phase == {"out", "opening", "known", "ready", "in"}
View == [phase : Phase, call : Calls \cup {NoCall}, mine : BOOLEAN,
         room : Calls \cup {NoCall}]

\* What a panel shows has a row, and it shows something once it is past POST.
Fit(p, r) ==
    /\ p \in View
    /\ p.phase \in {"known", "ready", "in"} \/ p.mine => p.call # NoCall
    /\ p.call # NoCall => HasRow(p.call, r)
    /\ p.room # NoCall => HasRow(p.room, r)

\* A request of the panel that is at work on its call
Asks(j) == j.op \in {"join", "activate"}

OneInsert ==
    \A d, e \in Devices, s, t \in Slots :
      At(d, s, "insert") /\ At(e, t, "insert") => d = e /\ s = t

InsertIsAlone ==
    \A d \in Devices, s \in Slots :
      At(d, s, "insert") => lock /\ LiveCalls \subseteq revived

WorkHasRow == \A d \in Devices, s \in Slots : Sound(job[d][s], row)

PanelHasRow ==
    \A d \in Devices :
      Fit(client[d], row) /\ (Asks(job[d]["request"]) => client[d].call # NoCall)

IInv == TypeOK /\ OneInsert /\ InsertIsAlone /\ WorkHasRow /\ PanelHasRow /\ OneLiveCall

Rosters == [users : SUBSET Users, devices : SUBSET Devices, mapped : SUBSET Devices]

\* The parts of TypeOK that are about neither the jobs nor the panels
Data ==
    /\ row \in [Calls -> Status]
    /\ caller \in [Calls -> Users \cup {NoUser}]
    /\ \A c \in Calls : caller[c] = NoUser <=> row[c] = "none"
    /\ roster \in [Calls -> Rosters]
    /\ lock \in BOOLEAN
    /\ inbox \in [Devices -> SUBSET Calls]
    /\ openings \in Nat /\ rejoins \in Nat /\ losses \in Nat
    /\ announced \in [Calls -> SUBSET Users]
    /\ revived \subseteq Calls /\ lapsed \subseteq Calls
    /\ tangled \subseteq Devices

Jobs == [Devices -> [Slots -> Job]]
Views == [Devices -> View]

LEMMA TypeParts == TypeOK <=> Data /\ job \in Jobs /\ client \in Views
BY DEF TypeOK, Data, Rosters, Jobs, Views, View, Phase

LEMMA TypePartsNext == Data' /\ job' \in Jobs /\ client' \in Views => TypeOK'
BY DEF TypeOK, Data, Rosters, Jobs, Views, View, Phase

\* No call of the group becomes live but by being revived.
Steady ==
    /\ \A c \in Calls : row[c] # "none" => row'[c] # "none"
    /\ \A c \in Calls : Live(c)' /\ c \notin revived' => Live(c) /\ c \notin revived
    /\ lock' = lock

\* What a device's jobs may become: one that inserts goes on, at most in another slot.
Moved(d) ==
    /\ \A s \in Slots : Sound(job'[d][s], row')
    /\ \A s \in Slots : job'[d][s].step = "insert" =>
         \/ job[d][s].step = "insert"
         \/ /\ job[d]["request"].step = "insert" /\ job'[d]["request"].step # "insert"
            /\ s = "late"
    /\ Asks(job'[d]["request"]) => client'[d].call # NoCall

LEMMA Keeps ==
    ASSUME IInv, NEW d \in Devices, Data', Steady,
           job' \in Jobs, client' \in Views,
           \A e \in Devices \ {d} : job'[e] = job[e] /\ client'[e] = client[e],
           Moved(d), Fit(client'[d], row')
    PROVE  IInv'
<1>1. TypeOK'
  BY TypePartsNext
<1>2. OneInsert'
  <2> SUFFICES ASSUME NEW e \in Devices, NEW f \in Devices, NEW s \in Slots, NEW t \in Slots,
                      job'[e][s].step = "insert", job'[f][t].step = "insert"
               PROVE  e = f /\ s = t
    BY DEF OneInsert, At
  <2>1. \E u \in Slots : job[e][u].step = "insert" /\ (e # d => u = s)
    BY DEF Moved, Slots
  <2>2. \E u \in Slots : job[f][u].step = "insert" /\ (f # d => u = t)
    BY DEF Moved, Slots
  <2>3. e = f
    BY <2>1, <2>2 DEF IInv, OneInsert, At
  <2>4. CASE e = d
    BY <2>3, <2>4 DEF IInv, OneInsert, At, Moved, Slots
  <2>5. CASE e # d
    BY <2>3, <2>5 DEF IInv, OneInsert, At
  <2> QED BY <2>4, <2>5
<1>3. InsertIsAlone'
  <2> SUFFICES ASSUME NEW e \in Devices, NEW s \in Slots, job'[e][s].step = "insert"
               PROVE  lock' /\ (LiveCalls \subseteq revived)'
    BY DEF InsertIsAlone, At
  <2>1. \E u \in Slots : job[e][u].step = "insert"
    BY DEF Moved, Slots
  <2>2. lock /\ LiveCalls \subseteq revived
    BY <2>1 DEF IInv, InsertIsAlone, At
  <2> QED BY <2>2 DEF Steady, LiveCalls
<1>4. WorkHasRow'
  <2> SUFFICES ASSUME NEW e \in Devices, NEW s \in Slots PROVE Sound(job'[e][s], row')
    BY DEF WorkHasRow
  <2> QED BY DEF Moved, IInv, WorkHasRow, Sound, HasRow, Steady
<1>5. PanelHasRow'
  <2> SUFFICES ASSUME NEW e \in Devices
               PROVE  Fit(client'[e], row') /\ (Asks(job'[e]["request"]) => client'[e].call # NoCall)
    BY DEF PanelHasRow
  <2>1. CASE e = d
    BY <2>1 DEF Moved
  <2>2. CASE e # d
    BY <2>2 DEF IInv, PanelHasRow, Fit, HasRow, Steady
  <2> QED BY <2>1, <2>2
<1>6. OneLiveCall'
  BY DEF IInv, OneLiveCall, Steady, LiveCalls
<1> QED BY <1>1, <1>2, <1>3, <1>4, <1>5, <1>6 DEF IInv

\* One job and the panel of its device change.
LEMMA PutShowKeeps ==
    ASSUME IInv, NEW d \in Devices, NEW s \in Slots, NEW j, NEW p, Data', Steady,
           Put(d, s, j), Sound(j, row'), j.step # "insert",
           Show(d, p), Fit(p, row'),
           Asks(IF s = "request" THEN j ELSE job[d]["request"]) => p.call # NoCall
    PROVE  IInv'
<1>1. job \in Jobs /\ client \in Views
  BY TypeParts DEF IInv
<1>2. /\ job' \in Jobs /\ job'[d][s] = j
      /\ \A t \in Slots \ {s} : job'[d][t] = job[d][t]
      /\ \A e \in Devices \ {d} : job'[e] = job[e]
  BY <1>1 DEF Put, Jobs, Sound
<1>3. client' \in Views /\ client'[d] = p /\ \A e \in Devices \ {d} : client'[e] = client[e]
  BY <1>1 DEF Show, Views, Fit
<1>4. \A t \in Slots \ {s} : Sound(job[d][t], row')
  BY DEF IInv, WorkHasRow, Sound, HasRow, Steady
<1>5. "request" \in Slots
  BY DEF Slots
<1>6. Moved(d)
  BY <1>2, <1>3, <1>4, <1>5 DEF Moved
<1> QED BY <1>2, <1>3, <1>6, Keeps

LEMMA SameView ==
    ASSUME IInv, NEW d \in Devices, UNCHANGED client
    PROVE  Show(d, client[d])
BY TypeParts DEF IInv, Views, Show

LEMMA SameFit ==
    ASSUME IInv, NEW d \in Devices, Steady
    PROVE  Fit(client[d], row')
BY DEF IInv, PanelHasRow, Fit, HasRow, Steady

\* One job changes: it does not begin to ask for its panel.
LEMMA PutKeeps ==
    ASSUME IInv, NEW d \in Devices, NEW s \in Slots, NEW j, Data', Steady,
           Put(d, s, j), Sound(j, row'), j.step # "insert", UNCHANGED client,
           Asks(j) => Asks(job[d][s])
    PROVE  IInv'
<1>1. Show(d, client[d]) /\ Fit(client[d], row')
  BY SameView, SameFit
<1>2. Asks(IF s = "request" THEN j ELSE job[d]["request"]) => client[d].call # NoCall
  BY DEF IInv, PanelHasRow
<1> QED BY <1>1, <1>2, PutShowKeeps

\* One job goes on to a later step of the same operation.
LEMMA GotoKeeps ==
    ASSUME IInv, NEW d \in Devices, NEW s \in Slots, NEW step \in Steps \ {"idle", "lock", "insert"},
           job[d][s].step \notin {"idle", "lock", "insert"},
           step \in Joining => job[d][s].step \in Joining,
           Goto(d, s, step), Data', Steady, UNCHANGED client
    PROVE  IInv'
<1> DEFINE j == [job[d][s] EXCEPT !.step = step]
<1>1. Sound(job[d][s], row)
  BY DEF IInv, WorkHasRow
<1>2. Sound(j, row') /\ j.op = job[d][s].op /\ j.step = step
  BY <1>1 DEF Sound, Job, HasRow, Steady, Joining
<1>3. Put(d, s, j)
  BY DEF Goto
<1> QED BY <1>2, <1>3, PutKeeps DEF Asks

\* The jobs that replace another one.
LEMMA IdleSound ==
    ASSUME NEW r PROVE Sound(Idle, r) /\ Idle.step # "insert" /\ ~Asks(Idle)
BY DEF Sound, Idle, New, Job, Ops, Steps, Status, Asks, Joining

LEMMA NewSound ==
    ASSUME NEW r, NEW c, HasRow(c, r), NEW op \in Ops, NEW step \in Steps \ Joining
    PROVE  LET j == New(op, c, step)
           IN  Sound(j, r) /\ j.step # "insert" /\ j.op = op /\ j.call = c
BY DEF Sound, HasRow, New, Job, Status, Joining

LEMMA FinishSound ==
    ASSUME NEW r, NEW c, HasRow(c, r)
    PROVE  Sound(Finish(c), r) /\ Finish(c).step # "insert" /\ ~Asks(Finish(c))
BY NewSound DEF Finish, Asks, Ops, Steps, Joining

LEMMA LeaveSound ==
    ASSUME NEW r, NEW c, HasRow(c, r), NEW kill \in BOOLEAN
    PROVE  Sound(Leave(c, kill), r) /\ Leave(c, kill).step # "insert" /\ ~Asks(Leave(c, kill))
BY DEF Leave, New, Sound, HasRow, Job, Ops, Steps, Status, Asks, Joining

LEMMA AfterSound ==
    ASSUME NEW r, NEW j, HasRow(j.call, r)
    PROVE  Sound(After(j), r) /\ After(j).step # "insert" /\ ~Asks(After(j))
BY IdleSound, FinishSound DEF After

LEMMA AwayFits ==
    ASSUME NEW r PROVE Fit(Away, r)
BY DEF Fit, Away, View, Phase

LEMMA NotedSound ==
    ASSUME NEW r, NEW j, Sound(j, r), NEW step \in Steps \ Joining, step # "idle",
           j.step \notin Joining, j.step # "idle", NEW b \in BOOLEAN
    PROVE  /\ Sound([j EXCEPT !.step = step, !.device = b], r)
           /\ Sound([j EXCEPT !.step = step, !.user = b], r)
BY DEF Sound, HasRow, Job, Joining

LEMMA Before ==
    ASSUME IInv, NEW d \in Devices, NEW s \in Slots
    PROVE  /\ Data /\ Sound(job[d][s], row) /\ Fit(client[d], row)
           /\ Asks(job[d]["request"]) => client[d].call # NoCall
BY TypeParts DEF IInv, WorkHasRow, PanelHasRow

-----------------------------------------------------------------------------
(* The steps of the server.                                                 *)

\* One command on the roster of a call leaves a roster.
LEMMA RosterEdit ==
    ASSUME NEW r \in [Calls -> Rosters], NEW c \in Calls,
           NEW us \in SUBSET Users, NEW ds \in SUBSET Devices
    PROVE  /\ [r EXCEPT ![c].users = us] \in [Calls -> Rosters]
           /\ [r EXCEPT ![c].devices = ds] \in [Calls -> Rosters]
           /\ [r EXCEPT ![c].mapped = ds] \in [Calls -> Rosters]
           /\ r[c].users \in SUBSET Users
           /\ r[c].devices \in SUBSET Devices /\ r[c].mapped \in SUBSET Devices
<1>1. r[c] \in Rosters
  OBVIOUS
<1>2. /\ [r[c] EXCEPT !.users = us] \in Rosters
      /\ [r[c] EXCEPT !.devices = ds] \in Rosters
      /\ [r[c] EXCEPT !.mapped = ds] \in Rosters
  BY <1>1 DEF Rosters
<1>3. /\ r[c].users \in SUBSET Users /\ r[c].devices \in SUBSET Devices
      /\ r[c].mapped \in SUBSET Devices
  BY <1>1 DEF Rosters
<1> QED BY <1>2, <1>3

\* Nothing else of the data changes.
LEMMA RosterKeeps ==
    ASSUME Data, roster' \in [Calls -> Rosters], UNCHANGED <<db, inbox, budget, history>>
    PROVE  Data'
<1>1. /\ UNCHANGED <<row, caller, lock, inbox, openings, rejoins, losses>>
      /\ UNCHANGED <<announced, revived, lapsed, tangled>>
  BY DEF db, budget, history, past
<1> QED BY <1>1 DEF Data

LEMMA StepAddUser ==
    ASSUME IInv, NEW d \in Devices, NEW s \in Slots, AddUser(d, s) PROVE IInv'
<1> DEFINE j == [job[d][s] EXCEPT !.step = "device",
                       !.user = Owner[d] \notin roster[Call(d, s)].users]
<1>1. Data /\ Sound(job[d][s], row)
  BY Before
<1>2. Data'
  <2> DEFINE c == Call(d, s)
             us == roster[c].users \cup {Owner[d]}
  <2>1. Owner[d] \in Users
    BY GroupCallAssumption DEF GroupCallAssumption
  <2>2. roster \in [Calls -> Rosters] /\ c \in Calls
    BY <1>1 DEF Data, AddUser, At, Call, Sound, HasRow
  <2>3. us \in SUBSET Users
    BY <2>1, <2>2, RosterEdit
  <2>4. roster' = [roster EXCEPT ![c].users = us]
    BY DEF AddUser
  <2>5. roster' \in [Calls -> Rosters]
    <3> HIDE DEF us, c
    <3> QED BY <2>2, <2>3, <2>4, RosterEdit
  <2>6. UNCHANGED <<db, inbox, budget, history>>
    BY DEF AddUser
  <2> QED BY <1>1, <2>5, <2>6, RosterKeeps
<1>3. Steady
  BY DEF AddUser, Steady, db, budget, history, past, Live
<1>4. Sound(j, row') /\ j.op = job[d][s].op /\ j.step # "insert"
  BY <1>1, <1>3 DEF Data, Sound, Job, HasRow, Steady, AddUser, At, Steps, Call, Joining
<1>5. Put(d, s, j) /\ UNCHANGED client
  BY DEF AddUser, Call
<1> QED BY <1>2, <1>3, <1>4, <1>5, PutKeeps DEF Asks

LEMMA StepAddDevice ==
    ASSUME IInv, NEW d \in Devices, NEW s \in Slots, AddDevice(d, s) PROVE IInv'
<1>1. Data /\ Sound(job[d][s], row)
  BY Before
<1>2. Data'
  <2> DEFINE c == Call(d, s)
             ds == roster[c].devices \cup {d}
  <2>1. roster \in [Calls -> Rosters] /\ c \in Calls
    BY <1>1 DEF Data, AddDevice, At, Call, Sound, HasRow
  <2>2. ds \in SUBSET Devices
    BY <2>1, RosterEdit
  <2>3. roster' = [roster EXCEPT ![c].devices = ds]
    BY DEF AddDevice
  <2>4. roster' \in [Calls -> Rosters]
    <3> HIDE DEF ds, c
    <3> QED BY <2>1, <2>2, <2>3, RosterEdit
  <2>5. UNCHANGED <<db, inbox, budget, history>>
    BY DEF AddDevice
  <2> QED BY <1>1, <2>4, <2>5, RosterKeeps
<1>3. Steady
  BY DEF AddDevice, Steady, db, budget, history, past, Live
<1> QED BY <1>2, <1>3, GotoKeeps DEF AddDevice, At, Steps, Joining

LEMMA StepMapDevice ==
    ASSUME IInv, NEW d \in Devices, NEW s \in Slots, MapDevice(d, s) PROVE IInv'
<1>1. Data /\ Sound(job[d][s], row)
  BY Before
<1>2. Data'
  <2> DEFINE c == Call(d, s)
             ds == roster[c].mapped \cup {d}
  <2>1. roster \in [Calls -> Rosters] /\ c \in Calls
    BY <1>1 DEF Data, MapDevice, At, Call, Sound, HasRow
  <2>2. ds \in SUBSET Devices
    BY <2>1, RosterEdit
  <2>3. roster' = [roster EXCEPT ![c].mapped = ds]
    BY DEF MapDevice
  <2>4. roster' \in [Calls -> Rosters]
    <3> HIDE DEF ds, c
    <3> QED BY <2>1, <2>2, <2>3, RosterEdit
  <2>5. UNCHANGED <<db, inbox, budget, history>>
    BY DEF MapDevice
  <2> QED BY <1>1, <2>4, <2>5, RosterKeeps
<1>3. Steady
  BY DEF MapDevice, Steady, db, budget, history, past, Live
<1> QED BY <1>2, <1>3, GotoKeeps DEF MapDevice, At, Steps, Joining

LEMMA StepUnlist ==
    ASSUME IInv, NEW d \in Devices, NEW s \in Slots, Unlist(d, s) PROVE IInv'
<1> DEFINE b == d \in roster[Call(d, s)].devices
           j == [job[d][s] EXCEPT !.step = "unmap", !.device = b]
<1>1. Data /\ Sound(job[d][s], row)
  BY Before
<1>2. Data'
  <2> DEFINE c == Call(d, s)
             ds == roster[c].devices \ {d}
  <2>1. roster \in [Calls -> Rosters] /\ c \in Calls
    BY <1>1 DEF Data, Unlist, At, Call, Sound, HasRow
  <2>2. ds \in SUBSET Devices
    BY <2>1, RosterEdit
  <2>3. roster' = [roster EXCEPT ![c].devices = ds]
    BY DEF Unlist
  <2>4. roster' \in [Calls -> Rosters]
    <3> HIDE DEF ds, c
    <3> QED BY <2>1, <2>2, <2>3, RosterEdit
  <2>5. UNCHANGED <<db, inbox, budget, history>>
    BY DEF Unlist
  <2> QED BY <1>1, <2>4, <2>5, RosterKeeps
<1>3. Steady
  BY DEF Unlist, Steady, db, budget, history, past, Live
<1>4. b \in BOOLEAN
  OBVIOUS
<1>5. Sound(j, row') /\ j.op = job[d][s].op /\ j.step # "insert"
  <2>1. Sound(job[d][s], row') /\ job[d][s].step \notin Joining \cup {"idle"}
    BY <1>1, <1>3 DEF Unlist, At, Steady, Sound, HasRow, Joining
  <2>2. j.op = job[d][s].op /\ j.step = "unmap"
    BY <1>1 DEF Sound, Job
  <2> HIDE DEF b
  <2> QED BY <1>4, <2>1, <2>2, NotedSound DEF Steps, Joining
<1>6. Put(d, s, j) /\ UNCHANGED client
  BY DEF Unlist, Call
<1> QED BY <1>2, <1>3, <1>5, <1>6, PutKeeps DEF Asks

LEMMA StepUnmap ==
    ASSUME IInv, NEW d \in Devices, NEW s \in Slots, Unmap(d, s) PROVE IInv'
<1>1. Data /\ Sound(job[d][s], row)
  BY Before
<1>2. Data'
  <2> DEFINE c == Call(d, s)
             ds == roster[c].mapped \ {d}
  <2>1. roster \in [Calls -> Rosters] /\ c \in Calls
    BY <1>1 DEF Data, Unmap, At, Call, Sound, HasRow
  <2>2. ds \in SUBSET Devices
    BY <2>1, RosterEdit
  <2>3. roster' = [roster EXCEPT ![c].mapped = ds]
    BY DEF Unmap
  <2>4. roster' \in [Calls -> Rosters]
    <3> HIDE DEF ds, c
    <3> QED BY <2>1, <2>2, <2>3, RosterEdit
  <2>5. UNCHANGED <<db, inbox, budget, history>>
    BY DEF Unmap
  <2> QED BY <1>1, <2>4, <2>5, RosterKeeps
<1>3. Steady
  BY DEF Unmap, Steady, db, budget, history, past, Live
<1> QED BY <1>2, <1>3, GotoKeeps DEF Unmap, At, Steps, Joining

LEMMA StepRemoveUser ==
    ASSUME IInv, NEW d \in Devices, NEW s \in Slots, RemoveUser(d, s) PROVE IInv'
<1> DEFINE b == Owner[d] \in roster[Call(d, s)].users
           j == [job[d][s] EXCEPT !.step = "left", !.user = b]
<1>1. Data /\ Sound(job[d][s], row)
  BY Before
<1>2. Data'
  <2> DEFINE c == Call(d, s)
             us == roster[c].users \ {Owner[d]}
  <2>1. roster \in [Calls -> Rosters] /\ c \in Calls
    BY <1>1 DEF Data, RemoveUser, At, Call, Sound, HasRow
  <2>2. us \in SUBSET Users
    BY <2>1, RosterEdit
  <2>3. roster' = [roster EXCEPT ![c].users = us]
    BY DEF RemoveUser
  <2>4. roster' \in [Calls -> Rosters]
    <3> HIDE DEF us, c
    <3> QED BY <2>1, <2>2, <2>3, RosterEdit
  <2>5. UNCHANGED <<db, inbox, budget, history>>
    BY DEF RemoveUser
  <2> QED BY <1>1, <2>4, <2>5, RosterKeeps
<1>3. Steady
  BY DEF RemoveUser, Steady, db, budget, history, past, Live
<1>4. b \in BOOLEAN
  OBVIOUS
<1>5. Sound(j, row') /\ j.op = job[d][s].op /\ j.step # "insert"
  <2>1. Sound(job[d][s], row') /\ job[d][s].step \notin Joining \cup {"idle"}
    BY <1>1, <1>3 DEF RemoveUser, At, Steady, Sound, HasRow, Joining
  <2>2. j.op = job[d][s].op /\ j.step = "left"
    BY <1>1 DEF Sound, Job
  <2> HIDE DEF b
  <2> QED BY <1>4, <2>1, <2>2, NotedSound DEF Steps, Joining
<1>6. Put(d, s, j) /\ UNCHANGED client
  BY DEF RemoveUser, Call
<1> QED BY <1>2, <1>3, <1>5, <1>6, PutKeeps DEF Asks

LEMMA StepLoad ==
    ASSUME IInv, NEW d \in Devices, NEW s \in Slots, Load(d, s) PROVE IInv'
<1> DEFINE j == [job[d][s] EXCEPT !.seen = row[Call(d, s)], !.step = "mark"]
<1>1. Data /\ Sound(job[d][s], row)
  BY Before
<1>2. Data'
  BY <1>1, GroupCallAssumption
  DEF Data, Load, db, budget, history, past, At, Call, Sound, HasRow, GroupCallAssumption
<1>3. Steady
  BY DEF Load, Steady, db, budget, history, past, Live
<1>4. Sound(j, row') /\ j.op = job[d][s].op /\ j.step # "insert"
  BY <1>1, <1>3 DEF Data, Sound, Job, HasRow, Steady, Load, At, Steps, Call, Joining
<1>5. Put(d, s, j) /\ UNCHANGED client
  BY DEF Load, Call
<1> QED BY <1>2, <1>3, <1>4, <1>5, PutKeeps DEF Asks

LEMMA StepClear ==
    ASSUME IInv, NEW d \in Devices, NEW s \in Slots, Clear(d, s) PROVE IInv'
<1>1. Data /\ Sound(job[d][s], row)
  BY Before
<1>2. Data'
  BY <1>1 DEF Data, Clear, db, budget, history, past, At, Call, Sound, HasRow, NoRoster, Rosters
<1>3. Steady
  BY DEF Clear, Steady, db, budget, history, past, Live
<1> QED BY <1>2, <1>3, GotoKeeps DEF Clear, At, Steps, Joining

LEMMA StepLook ==
    ASSUME IInv, NEW d \in Devices, NEW s \in Slots, Look(d, s) PROVE IInv'
<1>1. Data'
  BY Before DEF Data, Look, db, budget, history, past
<1>2. Steady
  BY DEF Look, Steady, db, budget, history, past, Live
<1>3. PICK step \in {"left", "unuser"} : Goto(d, s, step)
  BY DEF Look
<1> QED BY <1>1, <1>2, <1>3, GotoKeeps DEF Look, At, Steps, Joining

LEMMA StepAnnounceLeft ==
    ASSUME IInv, NEW d \in Devices, NEW s \in Slots, AnnounceLeft(d, s) PROVE IInv'
<1> DEFINE stop == job[d][s].op = "close" /\ ~job[d][s].device
           j == IF stop THEN Idle
                ELSE [job[d][s] EXCEPT !.step = "count", !.device = FALSE, !.user = FALSE]
<1>1. Data'
  BY Before DEF Data, AnnounceLeft, db, budget, history, past, At, Sound, HasRow
<1>2. Steady
  BY DEF AnnounceLeft, Steady, db, budget, history, past, Live
<1>3. Sound(j, row') /\ (Asks(j) => Asks(job[d][s])) /\ j.step # "insert"
  <2>1. CASE stop
    BY <2>1, IdleSound
  <2>2. CASE ~stop
    <3>1. Sound(job[d][s], row) /\ job[d][s].step = "left"
      BY Before DEF AnnounceLeft, At
    <3> QED BY <2>2, <3>1, <1>2 DEF Sound, Job, HasRow, Steady, Steps, Asks, Joining
  <2> QED BY <2>1, <2>2
<1>4. Put(d, s, j) /\ UNCHANGED client
  BY DEF AnnounceLeft
<1> QED BY <1>1, <1>2, <1>3, <1>4, PutKeeps

LEMMA StepCount ==
    ASSUME IInv, NEW d \in Devices, NEW s \in Slots, Count(d, s) PROVE IInv'
<1>1. Data'
  BY Before DEF Data, Count, db, budget, history, past
<1>2. Steady
  BY DEF Count, Steady, db, budget, history, past, Live
<1>3. CASE Goto(d, s, "end")
  BY <1>1, <1>2, <1>3, GotoKeeps DEF Count, At, Steps, Joining
<1>4. CASE Put(d, s, After(job[d][s]))
  <2>1. HasRow(job[d][s].call, row')
    BY Before, <1>2 DEF Count, At, Sound, HasRow, Steady
  <2> QED BY <1>1, <1>2, <1>4, <2>1, AfterSound, PutKeeps DEF Count
<1> QED BY <1>3, <1>4 DEF Count

LEMMA StepEndIfLive ==
    ASSUME IInv, NEW d \in Devices, NEW s \in Slots, EndIfLive(d, s) PROVE IInv'
<1>1. Data'
  BY Before DEF Data, EndIfLive, db, budget, history, past, At, Sound, HasRow, Status
<1>2. Steady
  BY Before DEF EndIfLive, Steady, db, budget, history, past, Live, Data, At, Sound, HasRow
<1>3. CASE Goto(d, s, "clear")
  BY <1>1, <1>2, <1>3, GotoKeeps DEF EndIfLive, At, Steps, Joining
<1>4. CASE Put(d, s, After(job[d][s]))
  <2>1. HasRow(job[d][s].call, row')
    BY Before, <1>2 DEF EndIfLive, At, Sound, HasRow, Steady
  <2> QED BY <1>1, <1>2, <1>4, <2>1, AfterSound, PutKeeps DEF EndIfLive
<1> QED BY <1>3, <1>4 DEF EndIfLive

LEMMA StepMarkEnded ==
    ASSUME IInv, NEW d \in Devices, NEW s \in Slots, MarkEnded(d, s) PROVE IInv'
<1>1. Data'
  BY Before DEF Data, MarkEnded, db, budget, history, past, At, Sound, HasRow, Status
<1>2. Steady
  BY Before DEF MarkEnded, Steady, db, budget, history, past, Live, Data, At, Sound, HasRow
<1>3. CASE Goto(d, s, "clear")
  BY <1>1, <1>2, <1>3, GotoKeeps DEF MarkEnded, At, Steps, Joining
<1>4. CASE Put(d, s, Idle)
  BY <1>1, <1>2, <1>4, IdleSound, PutKeeps DEF MarkEnded
<1> QED BY <1>3, <1>4 DEF MarkEnded

LEMMA StepTell ==
    ASSUME IInv, NEW d \in Devices, NEW s \in Slots, Tell(d, s) PROVE IInv'
<1>1. Data'
  BY Before DEF Data, Tell, db, budget, history, past, At, Sound, HasRow
<1>2. Steady
  BY DEF Tell, Steady, db, budget, history, past, Live
<1>3. HasRow(job[d][s].call, row')
  BY Before, <1>2 DEF Tell, At, Sound, HasRow, Steady
<1> QED BY <1>1, <1>2, <1>3, AfterSound, PutKeeps DEF Tell

LEMMA StepActivate ==
    ASSUME IInv, NEW d \in Devices, NEW s \in Slots, Activate(d, s) PROVE IInv'
<1> DEFINE c == job[d][s].call
<1>1. HasRow(c, row) /\ row' = [row EXCEPT ![c] = "active"]
  BY Before DEF Activate, At, Sound
<1>2. Data'
  BY Before, <1>1 DEF Data, Activate, budget, history, past, HasRow, Status
<1>3. Steady
  <2>1. row[c] \in {"ringing", "active", "ended"}
    BY Before, <1>1 DEF Data, Status, HasRow
  <2>2. revived' = IF row[c] = "ended" THEN revived \cup {c} ELSE revived
    BY DEF Activate
  <2> QED BY Before, <1>1, <2>1, <2>2 DEF Activate, Steady, Live, Data, HasRow
<1>4. HasRow(c, row')
  BY <1>1, <1>3 DEF HasRow, Steady
<1>5. CASE s = "request"
  <2> DEFINE p == [client[d] EXCEPT !.phase = "ready", !.mine = FALSE]
  <2>1. client[d].call # NoCall
    BY <1>5, Before DEF Activate, Asks
  <2>2. Fit(p, row')
    BY <2>1, Before, <1>3, SameFit DEF Fit, View, Phase
  <2>3. Put(d, s, Idle) /\ Show(d, p)
    BY <1>5 DEF Activate
  <2> QED BY <1>2, <1>3, <1>5, <2>2, <2>3, IdleSound, PutShowKeeps
<1>6. CASE s # "request"
  <2> DEFINE j == IF job[d][s].quit THEN Leave(c, job[d][s].kill) ELSE Idle
  <2>1. job[d][s].kill \in BOOLEAN
    BY Before DEF Sound, Job
  <2>2. Sound(j, row') /\ j.step # "insert" /\ ~Asks(j)
    BY <2>1, <1>4, LeaveSound, IdleSound
  <2>3. Put(d, s, j) /\ UNCHANGED client
    BY <1>6 DEF Activate
  <2> QED BY <1>2, <1>3, <2>2, <2>3, PutKeeps
<1> QED BY <1>5, <1>6

LEMMA StepAnswerJoin ==
    ASSUME IInv, NEW d \in Devices, NEW s \in Slots, AnswerJoin(d, s) PROVE IInv'
<1> DEFINE c == job[d][s].call
           kill == job[d][s].kill
<1>1. Data'
  BY Before, GroupCallAssumption
  DEF Data, AnswerJoin, db, budget, history, past, At, Sound, HasRow, GroupCallAssumption
<1>2. Steady
  BY DEF AnswerJoin, Steady, db, budget, history, past, Live
<1>3. HasRow(c, row') /\ kill \in BOOLEAN
  BY Before, <1>2 DEF AnswerJoin, At, Sound, HasRow, Steady, Job
<1>4. c # NoCall
  BY <1>3, GroupCallAssumption DEF HasRow, GroupCallAssumption
<1>5. CASE s = "request" /\ job[d][s].op = "create"
  <2> DEFINE p == [client[d] EXCEPT !.phase = "known", !.call = c, !.mine = kill]
  <2>1. Fit(p, row')
    BY <1>2, <1>3, <1>4, SameFit DEF Fit, View, Phase, HasRow
  <2>2. Put(d, s, Idle) /\ Show(d, p)
    BY <1>5 DEF AnswerJoin
  <2> QED BY <1>1, <1>2, <1>5, <2>1, <2>2, IdleSound, PutShowKeeps
<1>6. CASE s = "request" /\ job[d][s].op # "create" /\ Joined(d)
  <2> DEFINE p == [client[d] EXCEPT !.phase = "ready", !.call = c]
  <2>1. Fit(p, row')
    BY <1>2, <1>3, <1>4, SameFit DEF Fit, View, Phase, HasRow
  <2>2. Put(d, s, Idle) /\ Show(d, p)
    BY <1>6 DEF AnswerJoin
  <2> QED BY <1>1, <1>2, <1>6, <2>1, <2>2, IdleSound, PutShowKeeps
<1>7. CASE s = "request" /\ job[d][s].op # "create" /\ ~Joined(d)
  <2> DEFINE j == New("activate", c, "mark")
  <2>1. Sound(j, row') /\ j.step # "insert"
    BY <1>3, NewSound DEF Ops, Steps, Joining
  <2>2. Put(d, s, j) /\ UNCHANGED client
    BY <1>7 DEF AnswerJoin
  <2>3. Asks(job[d][s])
    BY <1>7, Before DEF AnswerJoin, At, Sound, Joining, Asks
  <2> QED BY <1>1, <1>2, <2>1, <2>2, <2>3, PutKeeps
<1>8. CASE s # "request"
  <2> DEFINE j == IF ~job[d][s].quit THEN Idle
                  ELSE IF job[d][s].op = "join" THEN Leave(c, kill) ELSE After(job[d][s])
  <2>1. Sound(j, row') /\ j.step # "insert" /\ ~Asks(j)
    BY <1>3, LeaveSound, IdleSound, AfterSound
  <2>2. Put(d, s, j) /\ UNCHANGED client
    BY <1>8 DEF AnswerJoin
  <2> QED BY <1>1, <1>2, <2>1, <2>2, PutKeeps
<1> QED BY <1>5, <1>6, <1>7, <1>8

\* The look: the call is found, or nobody else is between look and insert.
LEMMA StepReserve ==
    ASSUME IInv, NEW d \in Devices, NEW s \in Slots, Reserve(d, s) PROVE IInv'
<1>1. Data /\ Sound(job[d][s], row) /\ job[d][s].op \in {"create", "join"}
  BY Before DEF Reserve, At, Sound, Joining
<1>2. Data'
  BY <1>1 DEF Data, Reserve, budget, history, past
<1>3. CASE \E c \in Foremost : Put(d, s, [job[d][s] EXCEPT !.call = c, !.step = "user"])
                               /\ UNCHANGED <<lock, client>>
  <2>1. PICK c \in Foremost : Put(d, s, [job[d][s] EXCEPT !.call = c, !.step = "user"])
    BY <1>3
  <2> DEFINE j == [job[d][s] EXCEPT !.call = c, !.step = "user"]
  <2>2. Steady
    BY <1>3 DEF Reserve, Steady, budget, history, past, Live
  <2>3. HasRow(c, row')
    BY <2>2 DEF Foremost, LiveCalls, Live, HasRow, Steady
  <2>4. Sound(j, row') /\ j.op = job[d][s].op /\ j.step # "insert"
    BY <1>1, <2>3 DEF Sound, Job, HasRow, Steps, Joining
  <2> QED BY <1>2, <1>3, <2>1, <2>2, <2>4, PutKeeps DEF Asks
<1>4. CASE Put(d, s, Idle) /\ UNCHANGED lock /\ Show(d, IF s = "request" THEN Away ELSE client[d])
  <2>1. Steady
    BY <1>4 DEF Reserve, Steady, budget, history, past, Live
  <2>2. Asks(IF s = "request" THEN Idle ELSE job[d]["request"])
          => s # "request" /\ client[d].call # NoCall
    BY Before, IdleSound
  <2> QED BY <1>2, <1>4, <2>1, <2>2, IdleSound, AwayFits, SameFit, PutShowKeeps
<1>5. CASE LiveCalls = {} /\ lock' = TRUE /\ Goto(d, s, "insert") /\ UNCHANGED client
  <2> DEFINE j == [job[d][s] EXCEPT !.step = "insert"]
  <2>1. UNCHANGED <<row, revived>> /\ ~lock
    BY DEF Reserve, history, past
  <2>2. Sound(j, row) /\ j.step = "insert" /\ j.op = job[d][s].op
    BY <1>1 DEF Sound, Job, Steps, Joining
  <2>3. job \in Jobs /\ client \in Views
    BY TypeParts DEF IInv
  <2>4. /\ job' \in Jobs /\ job'[d][s] = j
        /\ \A e \in Devices, t \in Slots : e # d \/ t # s => job'[e][t] = job[e][t]
    <3>1. job' = [job EXCEPT ![d][s] = j] /\ j \in Job
      BY <1>5, <2>2 DEF Goto, Put, Sound
    <3> HIDE DEF j
    <3> QED BY <2>3, <3>1 DEF Jobs
  <2>5. \A e \in Devices, t \in Slots : job[e][t].step # "insert"
    BY <2>1 DEF IInv, InsertIsAlone, At
  <2>6. TypeOK'
    BY <1>2, <1>5, <2>3, <2>4, TypePartsNext
  <2>7. OneInsert' /\ InsertIsAlone'
    BY <1>5, <2>1, <2>4, <2>5 DEF OneInsert, InsertIsAlone, At, LiveCalls, Live
  <2>8. WorkHasRow'
    BY <2>1, <2>2, <2>4 DEF WorkHasRow, IInv
  <2>9. PanelHasRow'
    <3> SUFFICES ASSUME NEW e \in Devices
                 PROVE  Fit(client[e], row) /\ (Asks(job'[e]["request"]) => client[e].call # NoCall)
      BY <1>5, <2>1 DEF PanelHasRow
    <3>1. Fit(client[e], row) /\ (Asks(job[e]["request"]) => client[e].call # NoCall)
      BY DEF IInv, PanelHasRow
    <3>2. "request" \in Slots
      BY DEF Slots
    <3> QED BY <2>2, <2>4, <3>1, <3>2 DEF Asks
  <2>10. OneLiveCall'
    BY <2>1 DEF IInv, OneLiveCall, LiveCalls, Live
  <2> QED BY <2>6, <2>7, <2>8, <2>9, <2>10 DEF IInv
<1> QED BY <1>3, <1>4, <1>5 DEF Reserve

\* The insert: no other call of the group is live but one that was revived.
LEMMA StepInsert ==
    ASSUME IInv, NEW d \in Devices, NEW s \in Slots, Insert(d, s) PROVE IInv'
<1>1. PICK c \in Calls :
        /\ row[c] = "none" /\ row' = [row EXCEPT ![c] = "ringing"]
        /\ caller' = [caller EXCEPT ![c] = Owner[d]]
        /\ Put(d, s, [job[d][s] EXCEPT !.call = c, !.step = "user", !.kill = TRUE])
  BY DEF Insert
<1> DEFINE j == [job[d][s] EXCEPT !.call = c, !.step = "user", !.kill = TRUE]
<1>2. /\ Data /\ Sound(job[d][s], row) /\ job[d][s].step = "insert"
      /\ job \in Jobs /\ client \in Views /\ UNCHANGED <<client, revived>> /\ lock' = FALSE
  BY Before, TypeParts DEF Insert, At, IInv, history, past
<1>3. Data'
  <2>1. Owner[d] \in Users /\ Owner[d] # NoUser
    BY GroupCallAssumption DEF GroupCallAssumption
  <2> QED BY <1>1, <1>2, <2>1 DEF Data, Insert, budget, history, past, Status
<1>4. \A b \in Calls : row[b] # "none" => row'[b] # "none"
  BY <1>1, <1>2 DEF Data
<1>5. row'[c] = "ringing" /\ \A b \in Calls \ {c} : row'[b] = row[b]
  BY <1>1, <1>2 DEF Data
<1>6. Sound(j, row') /\ j.op = job[d][s].op /\ j.step = "user"
  BY <1>2, <1>5 DEF Sound, Job, HasRow, Steps, Joining
<1>7. /\ job' \in Jobs /\ job'[d][s] = j
      /\ \A e \in Devices, t \in Slots : e # d \/ t # s => job'[e][t] = job[e][t]
  <2>1. job' = [job EXCEPT ![d][s] = j] /\ j \in Job
    BY <1>1, <1>6 DEF Put, Sound
  <2> HIDE DEF j
  <2> QED BY <1>2, <2>1 DEF Jobs
<1> HIDE DEF j
<1>8. LiveCalls \subseteq revived
  BY <1>2 DEF IInv, InsertIsAlone, At
<1>9. TypeOK'
  BY <1>2, <1>3, <1>7, TypePartsNext
<1>10. \A e \in Devices, t \in Slots : job'[e][t].step # "insert"
  <2>1. \A e \in Devices, t \in Slots : job[e][t].step = "insert" => e = d /\ t = s
    BY <1>2 DEF IInv, OneInsert, At
  <2> QED BY <1>6, <1>7, <2>1
<1>11. OneInsert' /\ InsertIsAlone'
  BY <1>10 DEF OneInsert, InsertIsAlone, At
<1>12. WorkHasRow'
  <2> SUFFICES ASSUME NEW e \in Devices, NEW t \in Slots PROVE Sound(job'[e][t], row')
    BY DEF WorkHasRow
  <2>1. Sound(job[e][t], row')
    BY <1>4 DEF IInv, WorkHasRow, Sound, HasRow
  <2> QED BY <1>6, <1>7, <2>1
<1>13. PanelHasRow'
  <2> SUFFICES ASSUME NEW e \in Devices
               PROVE  Fit(client[e], row') /\ (Asks(job'[e]["request"]) => client[e].call # NoCall)
    BY <1>2 DEF PanelHasRow
  <2>1. Fit(client[e], row) /\ (Asks(job[e]["request"]) => client[e].call # NoCall)
    BY DEF IInv, PanelHasRow
  <2>2. "request" \in Slots
    BY DEF Slots
  <2>3. Fit(client[e], row')
    BY <2>1, <1>4 DEF Fit, HasRow
  <2> QED BY <1>6, <1>7, <2>1, <2>2, <2>3 DEF Asks
<1>14. OneLiveCall'
  BY <1>2, <1>5, <1>8 DEF OneLiveCall, LiveCalls, Live
<1> QED BY <1>9, <1>11, <1>12, <1>13, <1>14 DEF IInv

LEMMA StepCheck ==
    ASSUME IInv, NEW d \in Devices, NEW s \in Slots, Check(d, s) PROVE IInv'
<1> DEFINE c == job[d][s].call
           bootstrap == job[d][s].op = "join" /\ s = "request" /\ ~Joined(d)
<1>1. Data /\ Sound(job[d][s], row) /\ Fit(client[d], row) /\ HasRow(c, row)
  BY Before DEF Check, At, Sound
<1>2. Data'
  BY <1>1 DEF Data, Check, db, budget, history, past
<1>3. Steady
  BY DEF Check, Steady, db, budget, history, past, Live
<1>4. HasRow(c, row')
  BY <1>1, <1>3 DEF HasRow, Steady
<1>5. CASE Live(c)
  <2> DEFINE j == [job[d][s] EXCEPT
                     !.step = IF job[d][s].op = "join" THEN "user" ELSE "unlist",
                     !.seen = IF job[d][s].op = "close" THEN "active" ELSE row[c]]
  <2>1. Sound(j, row') /\ j.op = job[d][s].op /\ j.step # "insert"
    <3>1. job[d][s] \in Job /\ job[d][s].call = c /\ "active" \in Status /\ row[c] \in Status
      BY <1>1 DEF Sound, HasRow, Data, Status
    <3>2. j \in Job /\ j.op = job[d][s].op /\ j.call = c
      BY <3>1 DEF Job, Steps
    <3>3. j.step = IF job[d][s].op = "join" THEN "user" ELSE "unlist"
      BY <3>1 DEF Job
    <3> HIDE DEF j
    <3> QED BY <1>4, <3>2, <3>3 DEF Sound, Joining
  <2>2. Put(d, s, j) /\ UNCHANGED client
    BY <1>5 DEF Check
  <2> QED BY <1>2, <1>3, <2>1, <2>2, PutKeeps DEF Asks
<1>6. CASE ~Live(c) /\ job[d][s].op = "join" /\ s = "request" /\ Joined(d)
  <2>1. Show(d, client[d])
    BY <1>6 DEF Check
  <2>2. client[d].call # NoCall
    BY <1>1, <1>6 DEF Joined, Fit
  <2>3. CASE Put(d, s, Idle)
    BY <1>2, <1>3, <2>1, <2>2, <2>3, IdleSound, SameFit, PutShowKeeps
  <2>4. CASE \E b \in Foremost : Put(d, s, New("join", b, "check"))
    <3>1. PICK b \in Foremost : Put(d, s, New("join", b, "check"))
      BY <2>4
    <3>2. HasRow(b, row')
      BY <1>3 DEF Foremost, LiveCalls, Live, HasRow, Steady
    <3>3. /\ Sound(New("join", b, "check"), row')
          /\ New("join", b, "check").step # "insert"
      BY <3>2, NewSound DEF Ops, Steps, Joining
    <3> QED BY <1>2, <1>3, <2>1, <2>2, <3>1, <3>3, SameFit, PutShowKeeps
  <2> QED BY <1>6, <2>3, <2>4 DEF Check
<1>7. CASE ~Live(c) /\ ~(job[d][s].op = "join" /\ s = "request" /\ Joined(d))
  <2> DEFINE j == IF bootstrap /\ client[d].mine THEN Finish(c) ELSE After(job[d][s])
             p == IF bootstrap THEN Away ELSE client[d]
  <2>1. Sound(j, row') /\ j.step # "insert" /\ ~Asks(j)
    BY <1>4, FinishSound, AfterSound
  <2>2. Put(d, s, j) /\ Show(d, p)
    BY <1>7 DEF Check
  <2>3. Fit(p, row')
    BY <1>3, SameFit, AwayFits
  <2>4. Asks(IF s = "request" THEN j ELSE job[d]["request"]) => p.call # NoCall
    BY <2>1, Before
  <2> QED BY <1>2, <1>3, <2>1, <2>2, <2>3, <2>4, PutShowKeeps
<1> QED BY <1>5, <1>6, <1>7

LEMMA ServeKeeps ==
    ASSUME IInv, NEW d \in Devices, NEW s \in Slots, Serve(d, s) PROVE IInv'
BY StepReserve, StepInsert, StepCheck, StepAddUser, StepAddDevice, StepMapDevice,
   StepAnswerJoin, StepActivate, StepUnlist, StepUnmap, StepLook, StepRemoveUser,
   StepAnnounceLeft, StepCount, StepEndIfLive, StepLoad, StepMarkEnded, StepClear,
   StepTell DEF Serve

-----------------------------------------------------------------------------
(* The panel and the network.                                               *)

\* Only the panel of a device changes.
LEMMA ShowKeeps ==
    ASSUME IInv, NEW d \in Devices, NEW p, Data', Steady, UNCHANGED job,
           Show(d, p), Fit(p, row'), client[d].call # NoCall => p.call # NoCall
    PROVE  IInv'
<1>1. job \in Jobs /\ client \in Views
  BY TypeParts DEF IInv
<1>2. client' \in Views /\ client'[d] = p /\ \A e \in Devices \ {d} : client'[e] = client[e]
  BY <1>1 DEF Show, Views, Fit
<1>3. \A s \in Slots : Sound(job[d][s], row')
  BY DEF IInv, WorkHasRow, Sound, HasRow, Steady
<1>4. Asks(job[d]["request"]) => client[d].call # NoCall
  BY DEF IInv, PanelHasRow
<1>5. Moved(d)
  BY <1>2, <1>3, <1>4 DEF Moved
<1> QED BY <1>1, <1>2, <1>5, Keeps

LEMMA RequestSlot == "request" \in Slots /\ "late" \in Slots /\ "close" \in Slots
BY DEF Slots

LEMMA NotLooking ==
    ASSUME NEW c \in Calls PROVE c # NoCall
BY GroupCallAssumption DEF GroupCallAssumption

LEMMA StepOpen ==
    ASSUME IInv, NEW d \in Devices, Open(d) PROVE IInv'
<1> DEFINE j == New("create", NoCall, "lock")
           p == [client[d] EXCEPT !.phase = "opening"]
<1>1. Data /\ Fit(client[d], row)
  BY Before, RequestSlot
<1>2. Data'
  BY <1>1 DEF Data, Open, Start, Begin, Tangle, db, past
<1>3. Steady
  BY DEF Open, Steady, db, past, Live
<1>4. Sound(j, row') /\ j.step # "insert" /\ ~Asks(j)
  BY DEF Sound, New, Job, Ops, Steps, Status, Joining, Asks
<1>5. Fit(p, row')
  BY <1>3, SameFit DEF Fit, View, Phase
<1>6. Put(d, "request", j) /\ Show(d, p)
  BY DEF Open, Begin
<1> QED BY <1>2, <1>3, <1>4, <1>5, <1>6, RequestSlot, PutShowKeeps

LEMMA StepFind ==
    ASSUME IInv, NEW d \in Devices, Find(d) PROVE IInv'
<1>1. PICK c \in Foremost : Show(d, [client[d] EXCEPT !.phase = "known", !.call = c])
  BY DEF Find
<1> DEFINE p == [client[d] EXCEPT !.phase = "known", !.call = c]
<1>2. Data'
  BY Before, RequestSlot DEF Data, Find, Start, db, history, past
<1>3. Steady
  BY DEF Find, Steady, db, history, past, Live
<1>4. HasRow(c, row') /\ c # NoCall
  BY <1>3, NotLooking DEF Foremost, LiveCalls, Live, HasRow, Steady
<1>5. Fit(p, row') /\ p.call # NoCall
  BY <1>3, <1>4, SameFit DEF Fit, View, Phase, HasRow
<1> QED BY <1>1, <1>2, <1>3, <1>5, ShowKeeps DEF Find

LEMMA StepAttach ==
    ASSUME IInv, NEW d \in Devices, Attach(d) PROVE IInv'
<1> DEFINE p == [client[d] EXCEPT !.phase = "in",
                   !.room = IF Live(client[d].call) THEN client[d].call ELSE @]
<1>1. Fit(client[d], row) /\ client[d].call # NoCall
  BY Before, RequestSlot DEF Attach, Fit
<1>2. Data'
  BY Before, RequestSlot DEF Data, Attach, db, budget, history, past
<1>3. Steady
  BY DEF Attach, Steady, db, history, past, Live
<1>4. HasRow(client[d].call, row')
  BY <1>1, <1>3 DEF Fit, HasRow, Steady
<1>5. Fit(p, row') /\ p.call = client[d].call
  BY <1>1, <1>3, <1>4, SameFit DEF Fit, View, Phase, HasRow
<1> QED BY <1>2, <1>3, <1>5, ShowKeeps DEF Attach

\* A join of the call that the panel shows
LEMMA JoinSound ==
    ASSUME NEW d \in Devices, NEW r, Fit(client[d], r), client[d].call # NoCall
    PROVE  LET j == New("join", client[d].call, "check")
           IN  Sound(j, r) /\ j.step # "insert"
BY NewSound DEF Fit, Ops, Steps, Joining

LEMMA StepJoin ==
    ASSUME IInv, NEW d \in Devices, Join(d) PROVE IInv'
<1> DEFINE j == New("join", client[d].call, "check")
<1>1. Data'
  BY Before, RequestSlot DEF Data, Join, Begin, Tangle, db, budget, past
<1>2. Steady
  BY DEF Join, Steady, db, past, Live
<1>3. Fit(client[d], row') /\ client[d].call # NoCall /\ Show(d, client[d])
  BY <1>2, SameFit, SameView DEF Join, Fit
<1>4. Put(d, "request", j)
  BY DEF Join, Begin
<1> QED BY <1>1, <1>2, <1>3, <1>4, RequestSlot, JoinSound, PutShowKeeps

LEMMA StepRejoin ==
    ASSUME IInv, NEW d \in Devices, Rejoin(d) PROVE IInv'
<1> DEFINE j == New("join", client[d].call, "check")
           p == [client[d] EXCEPT !.room = NoCall]
<1>1. Data'
  BY Before, RequestSlot DEF Data, Rejoin, Begin, Tangle, db, past
<1>2. Steady
  BY DEF Rejoin, Steady, db, past, Live
<1>3. Fit(client[d], row') /\ client[d].call # NoCall
  BY <1>2, SameFit DEF Rejoin, Fit
<1>4. Fit(p, row') /\ p.call # NoCall
  BY <1>3 DEF Fit, View
<1>5. Put(d, "request", j) /\ Show(d, p)
  BY DEF Rejoin, Begin
<1> QED BY <1>1, <1>2, <1>3, <1>4, <1>5, RequestSlot, JoinSound, PutShowKeeps

LEMMA StepEndForEveryone ==
    ASSUME IInv, NEW d \in Devices, EndForEveryone(d) PROVE IInv'
<1>1. Data'
  BY Before, RequestSlot DEF Data, EndForEveryone, Begin, Tangle, db, budget, past
<1>2. Steady
  BY DEF EndForEveryone, Steady, db, past, Live
<1>3. Fit(client[d], row') /\ client[d].call # NoCall
  BY <1>2, SameFit DEF EndForEveryone, Joined, Fit
<1>4. HasRow(client[d].call, row')
  BY <1>3 DEF Fit
<1>5. Put(d, "request", Finish(client[d].call)) /\ Show(d, Away)
  BY DEF EndForEveryone, Begin
<1> QED BY <1>1, <1>2, <1>4, <1>5, RequestSlot, FinishSound, AwayFits, PutShowKeeps

\* A request that goes on in the slot of the late ones, and what the panel does next.
LEMMA TwoKeep ==
    ASSUME IInv, NEW d \in Devices, NEW j, NEW k, NEW p, Data', Steady,
           job' = [job EXCEPT ![d]["request"] = j, ![d]["late"] = k],
           Sound(j, row'), j.step # "insert",
           Sound(k, row'), k.step = job[d]["request"].step,
           Show(d, p), Fit(p, row'), Asks(j) => p.call # NoCall
    PROVE  IInv'
<1>1. job \in Jobs /\ client \in Views
  BY TypeParts DEF IInv
<1>2. /\ job' \in Jobs /\ job'[d]["request"] = j /\ job'[d]["late"] = k
      /\ job'[d]["close"] = job[d]["close"]
      /\ \A e \in Devices \ {d} : job'[e] = job[e]
  BY <1>1 DEF Jobs, Slots, Sound
<1>3. client' \in Views /\ client'[d] = p /\ \A e \in Devices \ {d} : client'[e] = client[e]
  BY <1>1 DEF Show, Views, Fit
<1>4. Sound(job[d]["close"], row')
  BY RequestSlot DEF IInv, WorkHasRow, Sound, HasRow, Steady
<1>5. Moved(d)
  BY <1>2, <1>3, <1>4 DEF Moved, Slots
<1> QED BY <1>2, <1>3, <1>5, Keeps

\* Whether the panel still waits for it changes nothing about a request.
LEMMA QuitSound ==
    ASSUME NEW r, NEW j, Sound(j, r), NEW a \in BOOLEAN, NEW b \in BOOLEAN
    PROVE  LET k == [j EXCEPT !.quit = a, !.kill = b]
           IN  Sound(k, r) /\ k.step = j.step
BY DEF Sound, HasRow, Job, Joining

LEMMA SameSound ==
    ASSUME IInv, NEW d \in Devices, NEW s \in Slots, Steady
    PROVE  Sound(job[d][s], row')
BY DEF IInv, WorkHasRow, Sound, HasRow, Steady

LEMMA WithdrawKeeps ==
    ASSUME IInv, NEW d \in Devices, NEW heard \in BOOLEAN, Withdraw(d, heard), Data', Steady
    PROVE  IInv'
<1> DEFINE r == job[d]["request"]
           c == client[d].call
           next == IF ~heard /\ (Joined(d) \/ r.op = "activate") THEN Leave(c, FALSE)
                   ELSE IF client[d].phase = "known" /\ r = Idle /\ client[d].mine
                     THEN Finish(c) ELSE Idle
           k == [r EXCEPT !.quit = ~Joined(d), !.kill = @ \/ client[d].mine]
<1>1. Fit(client[d], row') /\ Sound(r, row') /\ (Asks(r) => c # NoCall)
  BY SameFit, SameSound, RequestSlot, Before
<1>2. Sound(next, row') /\ next.step # "insert" /\ ~Asks(next)
  <2>1. CASE ~heard /\ (Joined(d) \/ r.op = "activate")
    <3>1. HasRow(c, row')
      BY <1>1, <2>1 DEF Fit, Joined, Asks
    <3> QED BY <2>1, <3>1, LeaveSound
  <2>2. CASE ~(~heard /\ (Joined(d) \/ r.op = "activate"))
            /\ client[d].phase = "known" /\ r = Idle /\ client[d].mine
    <3>1. HasRow(c, row')
      BY <1>1, <2>2 DEF Fit
    <3> QED BY <2>2, <3>1, FinishSound
  <2>3. CASE next = Idle
    BY <2>3, IdleSound
  <2> QED BY <2>1, <2>2, <2>3
<1>3. Show(d, Away) /\ Fit(Away, row')
  BY AwayFits DEF Withdraw
<1>4. CASE Put(d, "request", next)
  BY <1>2, <1>3, <1>4, RequestSlot, PutShowKeeps
<1>5. CASE job' = [job EXCEPT ![d]["request"] = next, ![d]["late"] = k]
  <2>1. Joined(d) \in BOOLEAN /\ client[d].mine \in BOOLEAN /\ r.kill \in BOOLEAN
    BY <1>1 DEF Joined, Fit, View, Sound, Job
  <2>2. Sound(k, row') /\ k.step = r.step
    BY <1>1, <2>1, QuitSound
  <2> HIDE DEF k, next
  <2> QED BY <1>2, <1>3, <1>5, <2>2, TwoKeep
<1> QED BY <1>4, <1>5 DEF Withdraw

LEMMA StepClose ==
    ASSUME IInv, NEW d \in Devices, Close(d) PROVE IInv'
<1>1. Data
  BY Before, RequestSlot
<1>2. tangled' \subseteq Devices
  BY <1>1 DEF Close, Withdraw, Tangle, Data
<1>3. losses' \in Nat
  BY <1>1 DEF Close, Lose, Data
<1>4. Data'
  BY <1>1, <1>2, <1>3 DEF Data, Close, db, past
<1>5. Steady
  BY DEF Close, Steady, db, past, Live
<1> QED BY <1>4, <1>5, WithdrawKeeps DEF Close

LEMMA StepHear ==
    ASSUME IInv, NEW d \in Devices, Hear(d) PROVE IInv'
<1>1. Data
  BY Before, RequestSlot
<1>2. tangled' \subseteq Devices
  BY <1>1 DEF Hear, Withdraw, Tangle, Data
<1>3. inbox' \in [Devices -> SUBSET Calls]
  BY <1>1 DEF Hear, Data
<1>4. Data'
  BY <1>1, <1>2, <1>3 DEF Data, Hear, db, budget, past
<1>5. Steady
  BY DEF Hear, Steady, db, past, Live
<1>6. CASE Withdraw(d, TRUE)
  BY <1>4, <1>5, <1>6, WithdrawKeeps
<1>7. CASE UNCHANGED <<job, client>>
  BY <1>4, <1>5, <1>7, SameView, SameFit, ShowKeeps
<1> QED BY <1>6, <1>7 DEF Hear

LEMMA StepGiveUp ==
    ASSUME IInv, NEW d \in Devices, GiveUp(d) PROVE IInv'
<1> DEFINE r == job[d]["request"]
           j == IF ~Joined(d) /\ client[d].mine THEN Finish(client[d].call) ELSE Idle
           p == IF Joined(d) THEN client[d] ELSE Away
<1>1. Data'
  BY Before, RequestSlot DEF Data, GiveUp, Lose, db, history, past
<1>2. Steady
  BY DEF GiveUp, Steady, db, history, past, Live
<1>3. Fit(client[d], row') /\ Sound(r, row')
  BY <1>2, SameFit, SameSound, RequestSlot
<1>4. Fit(p, row')
  BY <1>3, AwayFits
<1>5. Sound(j, row') /\ j.step # "insert" /\ ~Asks(j)
  <2>1. client[d].mine => HasRow(client[d].call, row')
    BY <1>3 DEF Fit
  <2> QED BY <2>1, FinishSound, IdleSound
<1>6. /\ job' = [job EXCEPT ![d]["late"] = r, ![d]["request"] = j]
      /\ Show(d, p)
  BY DEF GiveUp
<1>7. job' = [job EXCEPT ![d]["request"] = j, ![d]["late"] = r]
  <2>1. job \in Jobs
    BY TypeParts DEF IInv
  <2> HIDE DEF j
  <2> QED BY <1>6, <2>1 DEF Jobs, Slots
<1> QED BY <1>1, <1>2, <1>3, <1>4, <1>5, <1>6, <1>7, TwoKeep

LEMMA StepDrop ==
    ASSUME IInv, NEW d \in Devices, NEW alive \in BOOLEAN, Drop(d, alive) PROVE IInv'
<1> DEFINE r == job[d]["request"]
           x == IF client[d].room = NoCall THEN Idle
                ELSE New("close", client[d].room, "check")
           j == IF alive THEN r ELSE Idle
           k == IF alive \/ r = Idle THEN job[d]["late"]
                ELSE [r EXCEPT !.quit = FALSE, !.kill = FALSE]
           p == IF alive THEN [client[d] EXCEPT !.room = NoCall] ELSE Away
<1>1. Data
  BY Before, RequestSlot
<1>2. Data'
  <2>1. tangled' \subseteq Devices
    BY <1>1 DEF Drop, Data
  <2>2. inbox' \in [Devices -> SUBSET Calls] /\ losses' \in Nat
    BY <1>1 DEF Drop, Lose, Data
  <2> QED BY <1>1, <2>1, <2>2 DEF Data, Drop, db, past
<1>3. Steady
  BY DEF Drop, Steady, db, past, Live
<1>4. /\ Fit(client[d], row') /\ Sound(r, row') /\ Sound(job[d]["late"], row')
      /\ (Asks(r) => client[d].call # NoCall)
  BY <1>3, SameFit, SameSound, RequestSlot, Before
<1>5. Sound(x, row') /\ x.step # "insert"
  <2>1. client[d].room # NoCall => HasRow(client[d].room, row')
    BY <1>4 DEF Fit
  <2> QED BY <2>1, IdleSound, NewSound DEF Ops, Steps, Joining
<1>6. Fit(p, row') /\ (alive => p.call = client[d].call)
  BY <1>4, AwayFits DEF Fit, View
<1>7. /\ Sound(j, row') /\ (Asks(j) => p.call # NoCall)
      /\ j.step = "insert" => alive /\ j = r
  <2>1. CASE alive
    BY <1>4, <1>6, <2>1
  <2>2. CASE ~alive
    <3>1. j = Idle
      BY <2>2
    <3> HIDE DEF j
    <3> QED BY <3>1, IdleSound
  <2> QED BY <2>1, <2>2
<1>8. Sound(k, row') /\ (k = job[d]["late"] \/ (~alive /\ k.step = r.step))
  <2>1. CASE alive \/ r = Idle
    BY <1>4, <2>1
  <2>2. CASE ~(alive \/ r = Idle)
    <3>1. LET q == [r EXCEPT !.quit = FALSE, !.kill = FALSE]
          IN  Sound(q, row') /\ q.step = r.step
      BY <1>4, QuitSound
    <3> QED BY <2>2, <3>1
  <2> QED BY <2>1, <2>2
<1>9. Show(d, p)
  BY DEF Drop
<1>10. job \in Jobs /\ client \in Views
  BY TypeParts DEF IInv
<1>11. /\ job' = [job EXCEPT ![d]["close"] = x, ![d]["request"] = j, ![d]["late"] = k]
       /\ x \in Job /\ j \in Job /\ k \in Job
  BY <1>5, <1>7, <1>8 DEF Drop, Sound
<1> HIDE DEF j, k, x, p
<1>12. /\ job' \in Jobs /\ job'[d]["request"] = j /\ job'[d]["late"] = k
       /\ job'[d]["close"] = x /\ \A e \in Devices \ {d} : job'[e] = job[e]
  BY <1>10, <1>11 DEF Jobs, Slots
<1>13. client' \in Views /\ client'[d] = p /\ \A e \in Devices \ {d} : client'[e] = client[e]
  BY <1>6, <1>9, <1>10 DEF Show, Views, Fit
<1>14. Moved(d)
  BY <1>5, <1>7, <1>8, <1>12, <1>13 DEF Moved, Slots
<1> QED BY <1>2, <1>3, <1>6, <1>12, <1>13, <1>14, Keeps

\* Nothing of a call but its roster changes.
LEMMA StepIdle ==
    ASSUME IInv, Data', UNCHANGED <<row, revived, lock, job, client>>
    PROVE  IInv'
<1>1. TypeOK'
  BY TypeParts, TypePartsNext DEF IInv, Data
<1>2. OneInsert' /\ InsertIsAlone' /\ OneLiveCall'
  BY DEF IInv, OneInsert, InsertIsAlone, OneLiveCall, At, LiveCalls, Live
<1>3. WorkHasRow' /\ PanelHasRow'
  BY DEF IInv, WorkHasRow, PanelHasRow
<1> QED BY <1>1, <1>2, <1>3 DEF IInv

LEMMA StepLapse ==
    ASSUME IInv, NEW c \in Calls, Lapse(c) PROVE IInv'
<1>1. Data
  BY TypeParts DEF IInv
<1>2. Data'
  BY <1>1 DEF Data, Lapse, NoRoster, Rosters, db, budget
<1> QED BY <1>2, StepIdle DEF Lapse, db

-----------------------------------------------------------------------------
\* The invariant holds at first,
THEOREM InvInit == Init => IInv
<1> SUFFICES ASSUME Init PROVE IInv
  OBVIOUS
<1>1. Idle \in Job /\ Away \in View
  BY IdleSound, AwayFits DEF Sound, Fit
<1>2. Data
  BY GroupCallAssumption DEF Data, Init, Status, NoRoster, Rosters, GroupCallAssumption
<1>3. TypeOK
  BY <1>1, <1>2, TypeParts DEF Init, Jobs, Views
<1>4. OneInsert /\ InsertIsAlone
  BY IdleSound DEF Init, OneInsert, InsertIsAlone, At
<1>5. WorkHasRow /\ PanelHasRow
  BY IdleSound, AwayFits, RequestSlot DEF Init, WorkHasRow, PanelHasRow
<1>6. OneLiveCall
  BY DEF Init, OneLiveCall, LiveCalls, Live
<1> QED BY <1>3, <1>4, <1>5, <1>6 DEF IInv

\* and every step of the server, of a panel and of the network keeps it.
THEOREM InvStep == IInv /\ [Next]_vars => IInv'
<1> SUFFICES ASSUME IInv, [Next]_vars PROVE IInv'
  OBVIOUS
<1>1. ASSUME NEW d \in Devices, NEW s \in Slots, Serve(d, s) PROVE IInv'
  BY <1>1, ServeKeeps
<1>2. ASSUME NEW d \in Devices, Panel(d) PROVE IInv'
  BY <1>2, StepOpen, StepFind, StepJoin, StepAttach, StepRejoin, StepClose,
     StepEndForEveryone DEF Panel
<1>3. ASSUME NEW d \in Devices, Hear(d) \/ GiveUp(d) PROVE IInv'
  BY <1>3, StepHear, StepGiveUp
<1>4. ASSUME NEW d \in Devices, NEW alive \in BOOLEAN, Drop(d, alive) PROVE IInv'
  BY <1>4, StepDrop
<1>5. ASSUME NEW c \in Calls, Lapse(c) PROVE IInv'
  BY <1>5, StepLapse
<1>6. CASE UNCHANGED vars
  <2>1. Data
    BY TypeParts DEF IInv
  <2>2. Data'
    BY <2>1, <1>6 DEF Data, vars, db, budget, history, past
  <2> QED BY <1>6, <2>2, StepIdle DEF vars, db, history, past
<1> QED BY <1>1, <1>2, <1>3, <1>4, <1>5, <1>6 DEF Next

\* The state of rows, rosters, requests and panels is well typed for any group: in
\* particular a row has a caller just when it exists (reserveGroupCall).
THEOREM TypeCorrect == Spec => []TypeOK
<1>1. IInv => TypeOK
  BY DEF IInv
<1> QED BY <1>1, InvInit, InvStep, PTL DEF Spec

\* However many members open a call at once, join, leave, fail and end it, the group
\* has one live call at most that a late PUT "active" has not brought back.
THEOREM OneLive == Spec => []OneLiveCall
<1>1. IInv => OneLiveCall
  BY DEF IInv
<1> QED BY <1>1, InvInit, InvStep, PTL DEF Spec

-----------------------------------------------------------------------------
(* Nobody sits in a dead call.  What it needs: who clears a roster is no    *)
(* request the panel still waits for; a call that was loaded as ended has   *)
(* ended, or was brought back; and while nothing fails only a panel that is *)
(* not in a call yet joins one.                                             *)

Leaving == {"unlist", "unmap", "look", "unuser", "left", "count", "end", "clear", "tell"}
EndSteps == {"clear", "tell"}

Kind(j, r, v) ==
    /\ j.step \in Leaving => j.op \notin {"none", "create", "join", "activate"}
    /\ j.step = "check" => j.op \notin {"none", "create", "activate"}
    /\ j.step \in {"lock", "insert"} => j.op = "create"
    /\ j.step = "mark" /\ j.op = "finish" /\ j.seen = "ended"
         => r[j.call] = "ended" \/ j.call \in v

Kinds == \A d \in Devices, s \in Slots : Kind(job[d][s], row, revived)
Waits ==
    \A d \in Devices :
      LET r == job[d]["request"]
      IN  Asks(r) => ~Joined(d) /\ client[d].call = r.call
Ending(c, J) == \E e \in Devices, s \in Slots : J[e][s].call = c /\ J[e][s].step \in EndSteps
Seated ==
    \A d \in Devices :
      Joined(d) /\ row[client[d].call] = "ended" =>
        client[d].call \in inbox[d] \cup revived \/ Ending(client[d].call, job)

Calm == losses = 0 /\ rejoins = 0
Core == Kinds /\ Waits /\ Seated
CInv == IInv /\ (Calm => Core)

\* No call ends but with a step that is going to tell it, and none that has ended
\* comes back unnoticed.
RowsKept ==
    /\ \A c \in Calls :
         row'[c] = "ended" => row[c] = "ended" \/ c \in revived' \/ Ending(c, job')
    /\ \A c \in Calls : row[c] = "ended" => row'[c] = "ended" \/ c \in revived'
    /\ revived \subseteq revived'
\* Whoever sits in a call did so before, or has taken its seat in a living one.
SeatsKept ==
    \A e \in Devices :
      Joined(e)' =>
        \/ /\ Joined(e) /\ client'[e].call = client[e].call
           /\ client[e].call \in inbox[e] => client[e].call \in inbox'[e]
        \/ row'[client'[e].call] # "ended"

\* Whoever is going to tell the end of a call still is, or has told everyone in it.
EndingsKept ==
    \A c \in Calls :
      Ending(c, job) =>
        Ending(c, job') \/ \A e \in Devices : client'[e].call = c => c \in inbox'[e]

LEMMA KindsKeep ==
    ASSUME IInv, Kinds, RowsKept,
           \A e \in Devices, t \in Slots :
             job'[e][t] = job[e][t] \/ Kind(job'[e][t], row', revived')
    PROVE  Kinds'
<1> SUFFICES ASSUME NEW e \in Devices, NEW t \in Slots, job'[e][t] = job[e][t]
             PROVE  Kind(job[e][t], row', revived')
  BY DEF Kinds
<1>1. Kind(job[e][t], row, revived) /\ Sound(job[e][t], row)
  BY Before DEF Kinds
<1>2. job[e][t].step = "mark" => job[e][t].call \in Calls
  BY <1>1 DEF Sound, HasRow
<1> QED BY <1>1, <1>2 DEF Kind, RowsKept

LEMMA SeatedKeeps ==
    ASSUME IInv, Seated, RowsKept, SeatsKept, EndingsKept
    PROVE  Seated'
<1> SUFFICES ASSUME NEW d \in Devices, Joined(d)', row'[client'[d].call] = "ended"
             PROVE  client'[d].call \in inbox'[d] \cup revived' \/ Ending(client'[d].call, job')
  BY DEF Seated
<1> DEFINE c == client[d].call
<1>1. Joined(d) /\ client'[d].call = c /\ (c \in inbox[d] => c \in inbox'[d])
  BY DEF SeatsKept
<1>2. c \in Calls
  BY <1>1, Before, RequestSlot DEF Fit, Joined, HasRow
<1>3. CASE row[c] = "ended"
  <2>1. c \in inbox[d] \cup revived \/ Ending(c, job)
    BY <1>1, <1>3 DEF Seated
  <2> QED BY <1>1, <1>2, <2>1 DEF RowsKept, EndingsKept
<1>4. CASE row[c] # "ended"
  BY <1>1, <1>2, <1>4 DEF RowsKept
<1> QED BY <1>3, <1>4

\* One job goes on.
LEMMA CalmStep ==
    ASSUME IInv, Core, NEW d \in Devices, NEW s \in Slots, NEW j, Put(d, s, j),
           Kind(j, row', revived'), job[d][s].step \notin EndSteps \/ EndingsKept,
           RowsKept, SeatsKept, Waits'
    PROVE  Core'
<1>1. job \in Jobs
  BY TypeParts DEF IInv
<1>2. /\ job'[d][s] = j
      /\ \A e \in Devices, t \in Slots : e # d \/ t # s => job'[e][t] = job[e][t]
  BY <1>1 DEF Put, Jobs
<1>3. Kinds'
  <2>1. \A e \in Devices, t \in Slots :
          job'[e][t] = job[e][t] \/ Kind(job'[e][t], row', revived')
    BY <1>2
  <2> QED BY <2>1, KindsKeep DEF Core
<1>4. EndingsKept
  <2>1. CASE job[d][s].step \notin EndSteps
    BY <1>2, <2>1 DEF EndingsKept, Ending
  <2> QED BY <2>1
<1>5. Seated'
  BY <1>4, SeatedKeeps DEF Core
<1> QED BY <1>3, <1>5 DEF Core

\* The panel stays as it is, and a job that it waits for works on the same call.
LEMMA CalmPut ==
    ASSUME IInv, Core, NEW d \in Devices, NEW s \in Slots, NEW j, Put(d, s, j),
           Kind(j, row', revived'), job[d][s].step \notin EndSteps \/ EndingsKept,
           RowsKept, SeatsKept, UNCHANGED client,
           Asks(j) => Asks(job[d][s]) /\ j.call = job[d][s].call
    PROVE  Core'
<1>1. job \in Jobs
  BY TypeParts DEF IInv
<1>2. /\ job'[d][s] = j
      /\ \A e \in Devices, t \in Slots : e # d \/ t # s => job'[e][t] = job[e][t]
  BY <1>1 DEF Put, Jobs
<1>3. Waits'
  <2> SUFFICES ASSUME NEW e \in Devices, Asks(job'[e]["request"])
               PROVE  ~Joined(e) /\ client[e].call = job'[e]["request"].call
    BY DEF Waits, Joined
  <2>1. Asks(job[e]["request"]) /\ job'[e]["request"].call = job[e]["request"].call
    BY <1>2, RequestSlot
  <2> QED BY <2>1 DEF Core, Waits
<1> QED BY <1>3, CalmStep

\* The panel stops waiting for its request, or it was another job.
LEMMA CalmShow ==
    ASSUME IInv, Core, NEW d \in Devices, NEW s \in Slots, NEW j, NEW p, Put(d, s, j),
           Kind(j, row', revived'), job[d][s].step \notin EndSteps,
           RowsKept, SeatsKept, Show(d, p), ~Asks(j), s = "request" \/ p = client[d]
    PROVE  Core'
<1>1. job \in Jobs /\ client \in Views
  BY TypeParts DEF IInv
<1>2. /\ job'[d][s] = j
      /\ \A e \in Devices, t \in Slots : e # d \/ t # s => job'[e][t] = job[e][t]
  BY <1>1 DEF Put, Jobs
<1>3. client'[d] = p /\ \A e \in Devices \ {d} : client'[e] = client[e]
  BY <1>1 DEF Show, Views
<1>4. Waits'
  <2> SUFFICES ASSUME NEW e \in Devices, Asks(job'[e]["request"])
               PROVE  /\ client'[e].phase \notin {"ready", "in"}
                      /\ client'[e].call = job'[e]["request"].call
    BY DEF Waits, Joined
  <2>1. job'[e]["request"] = job[e]["request"] /\ client'[e] = client[e]
    BY <1>2, <1>3, RequestSlot
  <2> QED BY <2>1 DEF Core, Waits, Joined
<1> QED BY <1>4, CalmStep

LEMMA SameSeats ==
    ASSUME UNCHANGED <<client, inbox>> PROVE SeatsKept
BY DEF SeatsKept, Joined

\* The panel of a device leaves its seat or had none.
LEMMA OwnSeat ==
    ASSUME IInv, NEW d \in Devices, NEW p, Show(d, p), UNCHANGED inbox,
           p.phase \notin {"ready", "in"} \/ p = client[d]
    PROVE  SeatsKept
<1>1. client \in Views
  BY TypeParts DEF IInv
<1> QED BY <1>1 DEF SeatsKept, Show, Joined, Views

LEMMA IdleKind ==
    ASSUME NEW r, NEW v PROVE Kind(Idle, r, v) /\ ~Asks(Idle)
BY DEF Kind, Idle, New, Leaving, Asks

LEMMA NewKinds ==
    ASSUME NEW r, NEW v, NEW c, NEW k
    PROVE  /\ Kind(Finish(c), r, v) /\ ~Asks(Finish(c))
           /\ Kind(Leave(c, k), r, v) /\ ~Asks(Leave(c, k))
           /\ Kind(New("join", c, "check"), r, v) /\ New("join", c, "check").call = c
           /\ Kind(New("activate", c, "mark"), r, v) /\ New("activate", c, "mark").call = c
           /\ Kind(New("create", c, "lock"), r, v) /\ ~Asks(New("create", c, "lock"))
BY DEF Kind, Finish, Leave, New, Leaving, Asks

LEMMA AfterKind ==
    ASSUME NEW j, NEW r, NEW v PROVE Kind(After(j), r, v) /\ ~Asks(After(j))
BY IdleKind, NewKinds DEF After

\* The steps that only move a job on
Plain(d, s) ==
    \/ AddUser(d, s) \/ AddDevice(d, s) \/ MapDevice(d, s)
    \/ Unlist(d, s) \/ Unmap(d, s) \/ Look(d, s) \/ RemoveUser(d, s)

LEMMA CalmPlain ==
    ASSUME IInv, Core, NEW d \in Devices, NEW s \in Slots, Plain(d, s)
    PROVE  Core'
<1>1. Sound(job[d][s], row) /\ Kind(job[d][s], row, revived)
  BY Before DEF Core, Kinds
<1>2. UNCHANGED <<row, client, inbox, revived>>
  BY DEF Plain, AddUser, AddDevice, MapDevice, Unlist, Unmap, Look, RemoveUser, db, history, past
<1>3. RowsKept /\ SeatsKept
  BY <1>2, SameSeats DEF RowsKept
<1> DEFINE Onward(j) ==
             /\ Put(d, s, j) /\ j.op = job[d][s].op /\ j.call = job[d][s].call
             /\ \/ /\ job[d][s].step \in {"user", "device", "map"}
                   /\ j.step \in {"device", "map", "joined"}
                \/ /\ job[d][s].step \in {"unlist", "unmap", "look", "unuser"}
                   /\ j.step \in {"unmap", "look", "left", "unuser"}
<1>4. PICK j : Onward(j)
  <2>1. CASE AddUser(d, s)
    <3>1. Onward([job[d][s] EXCEPT !.step = "device",
                                  !.user = Owner[d] \notin roster[Call(d, s)].users])
      BY <1>1, <2>1 DEF AddUser, At, Goto, Call, Sound, Job
    <3> QED BY <3>1
  <2>2. CASE AddDevice(d, s)
    <3>1. Onward([job[d][s] EXCEPT !.step = "map"])
      BY <1>1, <2>2 DEF AddDevice, At, Goto, Call, Sound, Job
    <3> QED BY <3>1
  <2>3. CASE MapDevice(d, s)
    <3>1. Onward([job[d][s] EXCEPT !.step = "joined"])
      BY <1>1, <2>3 DEF MapDevice, At, Goto, Call, Sound, Job
    <3> QED BY <3>1
  <2>4. CASE Unlist(d, s)
    <3>1. Onward([job[d][s] EXCEPT !.step = "unmap",
                                  !.device = d \in roster[Call(d, s)].devices])
      BY <1>1, <2>4 DEF Unlist, At, Goto, Call, Sound, Job
    <3> QED BY <3>1
  <2>5. CASE Unmap(d, s)
    <3>1. Onward([job[d][s] EXCEPT !.step = "look"])
      BY <1>1, <2>5 DEF Unmap, At, Goto, Call, Sound, Job
    <3> QED BY <3>1
  <2>6. CASE RemoveUser(d, s)
    <3>1. Onward([job[d][s] EXCEPT !.step = "left",
                                  !.user = Owner[d] \in roster[Call(d, s)].users])
      BY <1>1, <2>6 DEF RemoveUser, At, Goto, Call, Sound, Job
    <3> QED BY <3>1
  <2>7. CASE Look(d, s)
    <3>1. PICK step \in {"left", "unuser"} : Goto(d, s, step)
      BY <2>7 DEF Look
    <3>2. Onward([job[d][s] EXCEPT !.step = step])
      BY <1>1, <2>7, <3>1 DEF Look, At, Goto, Sound, Job
    <3> QED BY <3>2
  <2> QED BY <2>1, <2>2, <2>3, <2>4, <2>5, <2>6, <2>7 DEF Plain
<1>5. Kind(j, row', revived') /\ job[d][s].step \notin EndSteps
  BY <1>1, <1>4 DEF Kind, Leaving, EndSteps
<1> QED BY <1>2, <1>3, <1>4, <1>5, CalmPut DEF Asks

LEMMA CalmReserve ==
    ASSUME IInv, Core, NEW d \in Devices, NEW s \in Slots, Reserve(d, s)
    PROVE  Core'
<1>1. Sound(job[d][s], row) /\ job[d][s].step = "lock" /\ job[d][s].op = "create"
  BY Before DEF Reserve, At, Core, Kinds, Kind
<1>2. UNCHANGED <<row, inbox, revived>> /\ RowsKept
  BY DEF Reserve, history, past, RowsKept
<1>3. CASE UNCHANGED client
  <2>1. CASE Put(d, s, Idle)
    BY <1>1, <1>2, <1>3, <2>1, SameSeats, IdleKind, CalmPut DEF EndSteps
  <2>2. CASE \E c \in Foremost : Put(d, s, [job[d][s] EXCEPT !.call = c, !.step = "user"])
    <3>1. PICK c : Put(d, s, [job[d][s] EXCEPT !.call = c, !.step = "user"])
      BY <2>2
    <3> DEFINE j == [job[d][s] EXCEPT !.call = c, !.step = "user"]
    <3>2. j.op = job[d][s].op /\ j.step = "user"
      BY <1>1 DEF Sound, Job
    <3>3. Kind(j, row', revived')
      BY <3>2 DEF Kind, Leaving
    <3> QED BY <1>1, <1>2, <1>3, <3>1, <3>2, <3>3, SameSeats, CalmPut DEF EndSteps, Asks
  <2>3. CASE Goto(d, s, "insert")
    <3> DEFINE j == [job[d][s] EXCEPT !.step = "insert"]
    <3>1. j.op = job[d][s].op /\ j.step = "insert" /\ Put(d, s, j)
      BY <1>1, <2>3 DEF Sound, Job, Goto
    <3>2. Kind(j, row', revived')
      BY <1>1, <3>1 DEF Kind, Leaving
    <3> QED BY <1>1, <1>2, <1>3, <3>1, <3>2, SameSeats, CalmPut DEF EndSteps, Asks
  <2> QED BY <2>1, <2>2, <2>3 DEF Reserve
<1>4. CASE Put(d, s, Idle) /\ Show(d, IF s = "request" THEN Away ELSE client[d])
  <2>1. SeatsKept
    BY <1>2, <1>4, OwnSeat DEF Away
  <2>2. s = "request" \/ (IF s = "request" THEN Away ELSE client[d]) = client[d]
    OBVIOUS
  <2> QED BY <1>1, <1>2, <1>4, <2>1, <2>2, IdleKind, CalmShow DEF EndSteps
<1> QED BY <1>3, <1>4 DEF Reserve

LEMMA CalmInsert ==
    ASSUME IInv, Core, NEW d \in Devices, NEW s \in Slots, Insert(d, s)
    PROVE  Core'
<1>1. /\ Data /\ Sound(job[d][s], row)
      /\ job[d][s].step = "insert" /\ job[d][s].op = "create"
  BY Before DEF Insert, At, Core, Kinds, Kind
<1>2. PICK c \in Calls :
        /\ row[c] = "none" /\ row' = [row EXCEPT ![c] = "ringing"]
        /\ Put(d, s, [job[d][s] EXCEPT !.call = c, !.step = "user", !.kill = TRUE])
  BY DEF Insert
<1> DEFINE j == [job[d][s] EXCEPT !.call = c, !.step = "user", !.kill = TRUE]
<1>3. RowsKept
  BY <1>1, <1>2 DEF Insert, history, past, RowsKept, Data
<1>4. SeatsKept /\ UNCHANGED client
  BY SameSeats DEF Insert
<1>5. j.op = job[d][s].op /\ j.step = "user"
  BY <1>1 DEF Sound, Job
<1>6. Kind(j, row', revived')
  BY <1>5 DEF Kind, Leaving
<1> QED BY <1>1, <1>2, <1>3, <1>4, <1>5, <1>6, CalmPut DEF EndSteps, Asks

LEMMA CalmCheck ==
    ASSUME IInv, Core, NEW d \in Devices, NEW s \in Slots, Check(d, s)
    PROVE  Core'
<1> DEFINE c == job[d][s].call
           bootstrap == job[d][s].op = "join" /\ s = "request" /\ ~Joined(d)
           again == job[d][s].op = "join" /\ s = "request" /\ Joined(d)
<1>1. /\ Sound(job[d][s], row) /\ Kind(job[d][s], row, revived)
      /\ job[d][s].step = "check"
  BY Before DEF Core, Kinds, Check, At
<1>2. UNCHANGED <<row, inbox, revived>> /\ RowsKept
  BY DEF Check, db, history, past, RowsKept
<1>3. ~again
  BY DEF Core, Waits, Asks
<1>4. CASE Live(c)
  <2> DEFINE j == [job[d][s] EXCEPT
                     !.step = IF job[d][s].op = "join" THEN "user" ELSE "unlist",
                     !.seen = IF job[d][s].op = "close" THEN "active" ELSE row[c]]
  <2>1. Put(d, s, j) /\ UNCHANGED client
    BY <1>4 DEF Check
  <2>2. /\ j.op = job[d][s].op /\ j.call = c
        /\ j.step = IF job[d][s].op = "join" THEN "user" ELSE "unlist"
    BY <1>1 DEF Sound, Job
  <2>3. Kind(j, row', revived')
    BY <1>1, <2>2 DEF Kind, Leaving
  <2> QED BY <1>1, <1>2, <2>1, <2>2, <2>3, SameSeats, CalmPut DEF EndSteps, Asks
<1>5. CASE ~Live(c)
  <2> DEFINE j == IF bootstrap /\ client[d].mine THEN Finish(c) ELSE After(job[d][s])
             p == IF bootstrap THEN Away ELSE client[d]
  <2>1. Put(d, s, j) /\ Show(d, p)
    BY <1>3, <1>5 DEF Check
  <2>2. Kind(j, row', revived') /\ ~Asks(j)
    BY NewKinds, AfterKind
  <2>3. SeatsKept
    BY <1>2, <2>1, OwnSeat DEF Away
  <2> QED BY <1>1, <1>2, <2>1, <2>2, <2>3, CalmShow DEF EndSteps
<1> QED BY <1>4, <1>5

LEMMA CalmAnswerJoin ==
    ASSUME IInv, Core, NEW d \in Devices, NEW s \in Slots, AnswerJoin(d, s)
    PROVE  Core'
<1>1. Sound(job[d][s], row) /\ job[d][s].step = "joined"
  BY Before DEF AnswerJoin, At
<1>2. UNCHANGED <<row, inbox, revived>> /\ RowsKept
  BY DEF AnswerJoin, db, history, past, RowsKept
<1>3. CASE s = "request" /\ job[d][s].op = "create"
  <2> DEFINE p == [client[d] EXCEPT !.phase = "known", !.call = job[d][s].call,
                                    !.mine = job[d][s].kill]
  <2>1. Put(d, s, Idle) /\ Show(d, p)
    BY <1>3 DEF AnswerJoin
  <2>2. Fit(client[d], row)
    BY Before
  <2>3. p.phase = "known"
    BY <2>2 DEF Fit, View
  <2>4. SeatsKept
    BY <1>2, <2>1, <2>3, OwnSeat
  <2> QED BY <1>1, <1>2, <1>3, <2>1, <2>4, IdleKind, CalmShow DEF EndSteps
<1>4. CASE s = "request" /\ job[d][s].op # "create"
  <2>1. ~Joined(d) /\ Asks(job[d][s])
    BY <1>1, <1>4 DEF Core, Waits, Asks, Sound, Joining
  <2>2. Put(d, s, New("activate", job[d][s].call, "mark")) /\ UNCHANGED client
    BY <1>4, <2>1 DEF AnswerJoin
  <2> QED BY <1>1, <1>2, <2>1, <2>2, NewKinds, SameSeats, CalmPut DEF EndSteps
<1>5. CASE s # "request"
  <2> DEFINE j == IF ~job[d][s].quit THEN Idle
                  ELSE IF job[d][s].op = "join" THEN Leave(job[d][s].call, job[d][s].kill)
                  ELSE After(job[d][s])
  <2>1. Put(d, s, j) /\ UNCHANGED client
    BY <1>5 DEF AnswerJoin
  <2>2. Kind(j, row', revived') /\ ~Asks(j)
    BY NewKinds, AfterKind, IdleKind
  <2> QED BY <1>1, <1>2, <2>1, <2>2, SameSeats, CalmPut DEF EndSteps
<1> QED BY <1>3, <1>4, <1>5

LEMMA CalmAnnounceLeft ==
    ASSUME IInv, Core, NEW d \in Devices, NEW s \in Slots, AnnounceLeft(d, s)
    PROVE  Core'
<1> DEFINE stop == job[d][s].op = "close" /\ ~job[d][s].device
           j == IF stop THEN Idle
                ELSE [job[d][s] EXCEPT !.step = "count", !.device = FALSE, !.user = FALSE]
<1>1. /\ Sound(job[d][s], row) /\ Kind(job[d][s], row, revived)
      /\ job[d][s].step = "left"
  BY Before DEF Core, Kinds, AnnounceLeft, At
<1>2. RowsKept /\ SeatsKept /\ UNCHANGED client
  BY SameSeats DEF AnnounceLeft, db, RowsKept
<1>3. Put(d, s, j)
  BY DEF AnnounceLeft
<1>4. Kind(j, row', revived') /\ ~Asks(j)
  <2>1. CASE stop
    BY <2>1, IdleKind
  <2>2. CASE ~stop
    <3>1. j.op = job[d][s].op /\ j.step = "count"
      BY <1>1, <2>2 DEF Sound, Job
    <3> QED BY <1>1, <3>1 DEF Kind, Leaving, Asks
  <2> QED BY <2>1, <2>2
<1> QED BY <1>1, <1>2, <1>3, <1>4, CalmPut DEF EndSteps

LEMMA CalmCount ==
    ASSUME IInv, Core, NEW d \in Devices, NEW s \in Slots, Count(d, s)
    PROVE  Core'
<1>1. /\ Sound(job[d][s], row) /\ Kind(job[d][s], row, revived)
      /\ job[d][s].step = "count"
  BY Before DEF Core, Kinds, Count, At
<1>2. RowsKept /\ SeatsKept /\ UNCHANGED client
  BY SameSeats DEF Count, db, history, past, RowsKept
<1>3. CASE Goto(d, s, "end")
  <2> DEFINE j == [job[d][s] EXCEPT !.step = "end"]
  <2>1. j.op = job[d][s].op /\ j.step = "end" /\ j.call = job[d][s].call /\ Put(d, s, j)
    BY <1>1, <1>3 DEF Sound, Job, Goto
  <2>2. Kind(j, row', revived')
    BY <1>1, <2>1 DEF Kind, Leaving
  <2> QED BY <1>1, <1>2, <2>1, <2>2, CalmPut DEF EndSteps, Asks
<1>4. CASE Put(d, s, After(job[d][s]))
  BY <1>1, <1>2, <1>4, AfterKind, CalmPut DEF EndSteps
<1> QED BY <1>3, <1>4 DEF Count

LEMMA CalmLoad ==
    ASSUME IInv, Core, NEW d \in Devices, NEW s \in Slots, Load(d, s)
    PROVE  Core'
<1> DEFINE j == [job[d][s] EXCEPT !.seen = row[Call(d, s)], !.step = "mark"]
<1>1. Sound(job[d][s], row) /\ job[d][s].step = "load"
  BY Before DEF Load, At
<1>2. UNCHANGED <<row, client>> /\ RowsKept /\ SeatsKept
  BY SameSeats DEF Load, db, history, past, RowsKept
<1>3. /\ Put(d, s, j) /\ j.op = job[d][s].op /\ j.step = "mark"
      /\ j.call = job[d][s].call /\ j.seen = row[job[d][s].call]
  BY <1>1 DEF Load, Sound, Job, Call
<1>4. Kind(j, row', revived')
  BY <1>2, <1>3 DEF Kind, Leaving
<1> QED BY <1>1, <1>2, <1>3, <1>4, CalmPut DEF EndSteps, Asks

LEMMA CalmActivate ==
    ASSUME IInv, Core, NEW d \in Devices, NEW s \in Slots, Activate(d, s)
    PROVE  Core'
<1> DEFINE c == job[d][s].call
<1>1. /\ Sound(job[d][s], row) /\ job[d][s].step = "mark" /\ job[d][s].op = "activate"
      /\ HasRow(c, row) /\ Data /\ job \in Jobs /\ client \in Views /\ Fit(client[d], row)
      /\ row' = [row EXCEPT ![c] = "active"] /\ UNCHANGED inbox
  BY Before, TypeParts DEF Activate, At, Sound, IInv
<1>2. RowsKept
  <2>1. \A b \in Calls : row'[b] = IF b = c THEN "active" ELSE row[b]
    BY <1>1 DEF Data
  <2>2. revived' = IF row[c] = "ended" THEN revived \cup {c} ELSE revived
    BY DEF Activate
  <2> QED BY <2>1, <2>2 DEF RowsKept
<1>3. CASE s = "request"
  <2> DEFINE p == [client[d] EXCEPT !.phase = "ready", !.mine = FALSE]
  <2>1. Put(d, s, Idle) /\ Show(d, p)
    BY <1>3 DEF Activate
  <2>3. /\ client'[d].call = client[d].call
        /\ \A e \in Devices \ {d} : client'[e] = client[e]
    BY <1>1, <2>1 DEF Show, Views, Fit, View
  <2>4. client[d].call = c
    BY <1>1, <1>3 DEF Core, Waits, Asks
  <2>5. SeatsKept
    BY <1>1, <2>3, <2>4 DEF SeatsKept, Joined, Data, HasRow
  <2> QED BY <1>1, <1>2, <1>3, <2>1, <2>5, IdleKind, CalmShow DEF EndSteps
<1>4. CASE s # "request"
  <2> DEFINE j == IF job[d][s].quit THEN Leave(c, job[d][s].kill) ELSE Idle
  <2>1. Put(d, s, j) /\ UNCHANGED client
    BY <1>4 DEF Activate
  <2>2. Kind(j, row', revived') /\ ~Asks(j)
    BY NewKinds, IdleKind
  <2> QED BY <1>1, <1>2, <2>1, <2>2, SameSeats, CalmPut DEF EndSteps
<1> QED BY <1>3, <1>4

LEMMA CalmEndIfLive ==
    ASSUME IInv, Core, NEW d \in Devices, NEW s \in Slots, EndIfLive(d, s)
    PROVE  Core'
<1> DEFINE c == job[d][s].call
<1>1. /\ Sound(job[d][s], row) /\ Kind(job[d][s], row, revived) /\ Data
      /\ job[d][s].step = "end" /\ c \in Calls /\ job \in Jobs
  BY Before, TypeParts DEF Core, Kinds, EndIfLive, At, Sound, HasRow, IInv
<1>2. SeatsKept /\ UNCHANGED <<revived, client>>
  BY SameSeats DEF EndIfLive, history, past
<1>3. CASE Live(c)
  <2>1. row' = [row EXCEPT ![c] = "ended"] /\ Goto(d, s, "clear")
    BY <1>3 DEF EndIfLive
  <2> DEFINE j == [job[d][s] EXCEPT !.step = "clear"]
  <2>2. j \in Job /\ j.op = job[d][s].op /\ j.step = "clear" /\ j.call = c /\ Put(d, s, j)
    BY <1>1, <2>1 DEF Sound, Job, Goto, Steps
  <2>3. Kind(j, row', revived')
    BY <1>1, <2>2 DEF Kind, Leaving
  <2> HIDE DEF j
  <2>4. Ending(c, job')
    BY <1>1, <2>2 DEF Ending, EndSteps, Put, Jobs
  <2>5. RowsKept
    BY <1>1, <1>2, <2>1, <2>4 DEF RowsKept, Data, Live
  <2> QED BY <1>1, <1>2, <2>2, <2>3, <2>5, CalmPut DEF EndSteps, Asks
<1>4. CASE ~Live(c)
  <2>1. Put(d, s, After(job[d][s])) /\ RowsKept
    BY <1>2, <1>4 DEF EndIfLive, RowsKept
  <2> QED BY <1>1, <1>2, <2>1, AfterKind, CalmPut DEF EndSteps
<1> QED BY <1>3, <1>4

LEMMA CalmMarkEnded ==
    ASSUME IInv, Core, NEW d \in Devices, NEW s \in Slots, MarkEnded(d, s)
    PROVE  Core'
<1> DEFINE c == job[d][s].call
<1>1. /\ Sound(job[d][s], row) /\ Kind(job[d][s], row, revived) /\ Data
      /\ job[d][s].step = "mark" /\ job[d][s].op = "finish" /\ c \in Calls /\ job \in Jobs
  BY Before, TypeParts DEF Core, Kinds, MarkEnded, At, Sound, HasRow, IInv
<1>2. SeatsKept /\ UNCHANGED <<revived, client>> /\ row' = [row EXCEPT ![c] = "ended"]
  BY SameSeats DEF MarkEnded, history, past
<1>3. CASE job[d][s].seen # "ended"
  <2> DEFINE j == [job[d][s] EXCEPT !.step = "clear"]
  <2>2. j \in Job /\ j.op = job[d][s].op /\ j.step = "clear" /\ j.call = c /\ Put(d, s, j)
    BY <1>1, <1>3 DEF Sound, Job, Goto, Steps, MarkEnded
  <2>3. Kind(j, row', revived')
    BY <1>1, <2>2 DEF Kind, Leaving
  <2> HIDE DEF j
  <2>4. Ending(c, job')
    BY <1>1, <2>2 DEF Ending, EndSteps, Put, Jobs
  <2>5. RowsKept
    BY <1>1, <1>2, <2>4 DEF RowsKept, Data
  <2> QED BY <1>1, <1>2, <2>2, <2>3, <2>5, CalmPut DEF EndSteps, Asks
<1>4. CASE job[d][s].seen = "ended"
  <2>1. row[c] = "ended" \/ c \in revived
    BY <1>1, <1>4 DEF Kind
  <2>2. Put(d, s, Idle)
    BY <1>4 DEF MarkEnded
  <2>3. RowsKept
    BY <1>1, <1>2, <2>1 DEF RowsKept, Data
  <2> QED BY <1>1, <1>2, <2>2, <2>3, IdleKind, CalmPut DEF EndSteps
<1> QED BY <1>3, <1>4

LEMMA CalmClear ==
    ASSUME IInv, Core, NEW d \in Devices, NEW s \in Slots, Clear(d, s)
    PROVE  Core'
<1> DEFINE j == [job[d][s] EXCEPT !.step = "tell"]
<1>1. /\ Sound(job[d][s], row) /\ Kind(job[d][s], row, revived)
      /\ job[d][s].step = "clear" /\ job \in Jobs
  BY Before, TypeParts DEF Core, Kinds, Clear, At, IInv
<1>2. RowsKept /\ SeatsKept /\ UNCHANGED client
  BY SameSeats DEF Clear, db, history, past, RowsKept
<1>3. /\ Put(d, s, j) /\ j \in Job /\ j.op = job[d][s].op /\ j.step = "tell"
      /\ j.call = job[d][s].call
  BY <1>1 DEF Clear, Goto, Sound, Job, Steps
<1>4. Kind(j, row', revived')
  BY <1>1, <1>3 DEF Kind, Leaving
<1> HIDE DEF j
<1>5. /\ job'[d][s] = j
      /\ \A e \in Devices, t \in Slots : e # d \/ t # s => job'[e][t] = job[e][t]
  BY <1>1, <1>3 DEF Put, Jobs
<1>6. EndingsKept
  <2> SUFFICES ASSUME NEW c \in Calls, Ending(c, job) PROVE Ending(c, job')
    BY DEF EndingsKept
  <2>1. PICK e \in Devices, t \in Slots : job[e][t].call = c /\ job[e][t].step \in EndSteps
    BY DEF Ending
  <2>2. job'[e][t].call = c /\ job'[e][t].step \in EndSteps
    BY <1>3, <1>5, <2>1 DEF EndSteps
  <2> QED BY <2>2 DEF Ending
<1> QED BY <1>1, <1>2, <1>3, <1>4, <1>6, CalmPut DEF Asks

LEMMA CalmTell ==
    ASSUME IInv, Core, NEW d \in Devices, NEW s \in Slots, Tell(d, s)
    PROVE  Core'
<1> DEFINE c == job[d][s].call
<1>1. job \in Jobs /\ Data
  BY TypeParts DEF IInv
<1>2. UNCHANGED <<row, client, revived>> /\ Put(d, s, After(job[d][s]))
  BY DEF Tell, db, past
<1>3. \A e \in Devices :
        inbox'[e] = IF client[e].call = c THEN inbox[e] \cup {c} ELSE inbox[e]
  BY DEF Tell
<1>4. RowsKept /\ SeatsKept
  BY <1>2, <1>3 DEF RowsKept, SeatsKept, Joined
<1>5. \A e \in Devices, t \in Slots : e # d \/ t # s => job'[e][t] = job[e][t]
  BY <1>1, <1>2 DEF Put, Jobs
<1>6. EndingsKept
  <2> SUFFICES ASSUME NEW b \in Calls, Ending(b, job)
               PROVE  Ending(b, job') \/ \A e \in Devices : client'[e].call = b => b \in inbox'[e]
    BY DEF EndingsKept
  <2>1. CASE b = c
    BY <1>2, <1>3, <2>1
  <2>2. CASE b # c
    BY <1>5, <2>2 DEF Ending
  <2> QED BY <2>1, <2>2
<1> QED BY <1>2, <1>4, <1>6, AfterKind, CalmPut

LEMMA CalmServe ==
    ASSUME IInv, Core, NEW d \in Devices, NEW s \in Slots, Serve(d, s)
    PROVE  Core'
<1>1. CASE Plain(d, s)
  BY <1>1, CalmPlain
<1>2. CASE ~Plain(d, s)
  BY <1>2, CalmReserve, CalmInsert, CalmCheck, CalmAnswerJoin, CalmActivate,
     CalmAnnounceLeft, CalmCount, CalmEndIfLive, CalmLoad, CalmMarkEnded, CalmClear,
     CalmTell DEF Serve, Plain
<1> QED BY <1>1, <1>2

\* Only a panel changes, and no request of it is at work.
LEMMA CalmView ==
    ASSUME IInv, Core, NEW d \in Devices, NEW p, UNCHANGED <<job, row, inbox, revived>>,
           Show(d, p), ~Asks(job[d]["request"]), SeatsKept
    PROVE  Core'
<1>1. RowsKept /\ EndingsKept
  BY DEF RowsKept, EndingsKept
<1>2. Kinds'
  BY DEF Core, Kinds
<1>3. Seated'
  BY <1>1, SeatedKeeps DEF Core
<1>4. client \in Views
  BY TypeParts DEF IInv
<1>5. \A e \in Devices \ {d} : client'[e] = client[e]
  BY <1>4 DEF Show, Views
<1>6. Waits'
  <2> SUFFICES ASSUME NEW e \in Devices, Asks(job[e]["request"])
               PROVE  /\ client'[e].phase \notin {"ready", "in"}
                      /\ client'[e].call = job[e]["request"].call
    BY DEF Waits, Joined
  <2> QED BY <1>5 DEF Core, Waits, Joined
<1> QED BY <1>2, <1>3, <1>6 DEF Core

LEMMA CalmOpen ==
    ASSUME IInv, Core, NEW d \in Devices, Open(d) PROVE Core'
<1> DEFINE p == [client[d] EXCEPT !.phase = "opening"]
<1>1. /\ Put(d, "request", New("create", NoCall, "lock")) /\ Show(d, p)
      /\ job[d]["request"] = Idle /\ UNCHANGED <<row, inbox, revived>>
  BY DEF Open, Begin, Free, db, past
<1>2. RowsKept
  BY <1>1 DEF RowsKept
<1>3. p.phase = "opening"
  BY Before, RequestSlot DEF Fit, View
<1>4. SeatsKept
  BY <1>1, <1>3, OwnSeat
<1>5. Idle.step \notin EndSteps
  BY DEF Idle, New, EndSteps
<1> QED BY <1>1, <1>2, <1>4, <1>5, NewKinds, RequestSlot, CalmShow

LEMMA CalmFind ==
    ASSUME IInv, Core, NEW d \in Devices, Find(d) PROVE Core'
<1>1. PICK c : Show(d, [client[d] EXCEPT !.phase = "known", !.call = c])
  BY DEF Find
<1> DEFINE p == [client[d] EXCEPT !.phase = "known", !.call = c]
<1>2. UNCHANGED <<job, row, inbox, revived>> /\ job[d]["request"] = Idle
  BY DEF Find, Free, db, history, past
<1>3. p.phase = "known"
  BY Before, RequestSlot DEF Fit, View
<1>4. SeatsKept
  BY <1>1, <1>2, <1>3, OwnSeat
<1> QED BY <1>1, <1>2, <1>4, IdleKind, CalmView

LEMMA CalmJoin ==
    ASSUME IInv, Core, NEW d \in Devices, Join(d) PROVE Core'
<1> DEFINE j == New("join", client[d].call, "check")
<1>1. /\ Put(d, "request", j) /\ job[d]["request"] = Idle /\ ~Joined(d)
      /\ UNCHANGED <<row, client, inbox, revived>>
  BY DEF Join, Begin, Free, Joined, db, past
<1>2. RowsKept /\ SeatsKept
  BY <1>1, SameSeats DEF RowsKept
<1>3. job \in Jobs
  BY TypeParts DEF IInv
<1>4. job'[d]["request"] = j /\ \A e \in Devices \ {d} : job'[e] = job[e]
  BY <1>1, <1>3, RequestSlot DEF Put, Jobs
<1>5. Waits'
  <2> SUFFICES ASSUME NEW e \in Devices, Asks(job'[e]["request"])
               PROVE  ~Joined(e) /\ client[e].call = job'[e]["request"].call
    BY <1>1 DEF Waits, Joined
  <2> QED BY <1>1, <1>4, NewKinds DEF Core, Waits
<1>6. Idle.step \notin EndSteps
  BY DEF Idle, New, EndSteps
<1> QED BY <1>1, <1>2, <1>5, <1>6, NewKinds, RequestSlot, CalmStep

LEMMA CalmAttach ==
    ASSUME IInv, Core, NEW d \in Devices, Attach(d) PROVE Core'
<1> DEFINE p == [client[d] EXCEPT !.phase = "in",
                   !.room = IF Live(client[d].call) THEN client[d].call ELSE @]
<1>1. Joined(d) /\ Show(d, p) /\ UNCHANGED <<job, row, inbox, revived>>
  BY DEF Attach, Joined, db, history, past
<1>2. ~Asks(job[d]["request"])
  BY <1>1 DEF Core, Waits
<1>3. p.call = client[d].call
  BY Before, RequestSlot DEF Fit, View
<1>4. client \in Views
  BY TypeParts DEF IInv
<1>5. SeatsKept
  BY <1>1, <1>3, <1>4 DEF SeatsKept, Show, Joined, Views
<1> QED BY <1>1, <1>2, <1>5, CalmView

LEMMA CalmEndForEveryone ==
    ASSUME IInv, Core, NEW d \in Devices, EndForEveryone(d) PROVE Core'
<1>1. /\ Put(d, "request", Finish(client[d].call)) /\ Show(d, Away)
      /\ job[d]["request"] = Idle /\ UNCHANGED <<row, inbox, revived>>
  BY DEF EndForEveryone, Begin, Free, db, past
<1>2. RowsKept
  BY <1>1 DEF RowsKept
<1>3. SeatsKept
  BY <1>1, OwnSeat DEF Away
<1>4. Idle.step \notin EndSteps
  BY DEF Idle, New, EndSteps
<1> QED BY <1>1, <1>2, <1>3, <1>4, NewKinds, RequestSlot, CalmShow

LEMMA CalmWithdraw ==
    ASSUME IInv, Core, NEW d \in Devices, NEW heard \in BOOLEAN, Withdraw(d, heard),
           UNCHANGED <<row, revived>>, \A e \in Devices \ {d} : inbox'[e] = inbox[e]
    PROVE  Core'
<1> DEFINE r == job[d]["request"]
           next == IF ~heard /\ (Joined(d) \/ r.op = "activate") THEN Leave(client[d].call, FALSE)
                   ELSE IF client[d].phase = "known" /\ r = Idle /\ client[d].mine
                     THEN Finish(client[d].call) ELSE Idle
           k == [r EXCEPT !.quit = ~Joined(d), !.kill = @ \/ client[d].mine]
<1>1. /\ job \in Jobs /\ client \in Views /\ Sound(r, row) /\ Kind(r, row, revived)
      /\ r.op \in {"none", "create", "join", "activate"} /\ Show(d, Away)
  BY TypeParts, Before, RequestSlot DEF IInv, Core, Kinds, Withdraw
<1>2. RowsKept
  BY DEF RowsKept
<1>3. client'[d] = Away /\ \A e \in Devices \ {d} : client'[e] = client[e]
  BY <1>1 DEF Show, Views
<1>4. SeatsKept
  BY <1>3 DEF SeatsKept, Joined, Away
<1>5. Kind(next, row', revived') /\ ~Asks(next)
  BY IdleKind, NewKinds
<1>6. r.step \notin EndSteps
  BY <1>1 DEF Kind, EndSteps, Leaving
<1>7. CASE Put(d, "request", next)
  BY <1>1, <1>2, <1>4, <1>5, <1>6, <1>7, RequestSlot, CalmShow
<1>8. CASE /\ Free(d, "late")
           /\ job' = [job EXCEPT ![d]["request"] = next, ![d]["late"] = k]
  <2>1. k.step = r.step /\ k.op = r.op /\ k.call = r.call /\ k.seen = r.seen
    BY <1>1 DEF Sound, Job
  <2>2. Kind(k, row, revived)
    BY <1>1, <2>1 DEF Kind
  <2> HIDE DEF k, next
  <2>3. /\ job'[d]["request"] = next /\ job'[d]["late"] = k
        /\ job'[d]["close"] = job[d]["close"]
        /\ \A e \in Devices \ {d} : job'[e] = job[e]
    BY <1>1, <1>8 DEF Jobs, Slots
  <2>4. Kinds'
    <3>1. \A e \in Devices, t \in Slots :
            job'[e][t] = job[e][t] \/ Kind(job'[e][t], row', revived')
      BY <1>5, <2>2, <2>3 DEF Slots
    <3> QED BY <1>2, <3>1, KindsKeep DEF Core
  <2>5. Waits'
    <3> SUFFICES ASSUME NEW e \in Devices, Asks(job'[e]["request"])
                 PROVE  /\ client'[e].phase \notin {"ready", "in"}
                        /\ client'[e].call = job'[e]["request"].call
      BY DEF Waits, Joined
    <3> QED BY <1>3, <1>5, <2>3 DEF Core, Waits, Joined
  <2>6. EndingsKept
    <3>1. Idle.step \notin EndSteps
      BY DEF Idle, New, EndSteps
    <3>2. job[d]["late"] = Idle
      BY <1>8 DEF Free
    <3> SUFFICES ASSUME NEW c \in Calls, Ending(c, job) PROVE Ending(c, job')
      BY DEF EndingsKept
    <3>3. PICK e \in Devices, t \in Slots : job[e][t].call = c /\ job[e][t].step \in EndSteps
      BY DEF Ending
    <3>4. e # d \/ t = "close"
      BY <1>6, <3>1, <3>2, <3>3 DEF Slots
    <3>5. job'[e][t] = job[e][t]
      BY <2>3, <3>4
    <3> QED BY <3>3, <3>5 DEF Ending
  <2> QED BY <1>2, <1>4, <2>4, <2>5, <2>6, SeatedKeeps DEF Core
<1> QED BY <1>7, <1>8 DEF Withdraw

LEMMA CalmHear ==
    ASSUME IInv, Core, NEW d \in Devices, Hear(d) PROVE Core'
<1>1. PICK c \in inbox[d] :
        /\ inbox' = [inbox EXCEPT ![d] = @ \ {c}]
        /\ IF client[d].call = c THEN Withdraw(d, TRUE) ELSE UNCHANGED <<job, client, tangled>>
        /\ UNCHANGED <<db, roster, budget, past>>
  BY DEF Hear
<1>2. UNCHANGED <<row, revived>> /\ Data
  BY <1>1, TypeParts DEF db, past, IInv
<1>3. \A e \in Devices : inbox'[e] = IF e = d THEN inbox[d] \ {c} ELSE inbox[e]
  BY <1>1, <1>2 DEF Data
<1>4. CASE client[d].call = c
  BY <1>1, <1>2, <1>3, <1>4, CalmWithdraw
<1>5. CASE client[d].call # c
  <2>1. UNCHANGED <<job, client>>
    BY <1>1, <1>5
  <2>2. SeatsKept
    BY <1>3, <1>5, <2>1 DEF SeatsKept, Joined
  <2>3. RowsKept /\ EndingsKept
    BY <1>2, <2>1 DEF RowsKept, EndingsKept
  <2>4. Kinds' /\ Waits'
    BY <1>2, <2>1 DEF Core, Kinds, Waits, Joined
  <2> QED BY <2>2, <2>3, <2>4, SeatedKeeps DEF Core
<1> QED BY <1>4, <1>5

LEMMA CalmStutter ==
    ASSUME Core, UNCHANGED <<row, revived, job, client, inbox>> PROVE Core'
BY DEF Core, Kinds, Waits, Seated, Joined

\* Every step keeps it, as long as nothing is lost and nobody rejoins.
LEMMA CalmNext ==
    ASSUME IInv, Calm => Core, [Next]_vars, Calm' PROVE Core'
<1>1. losses \in Nat /\ rejoins \in Nat
  BY DEF IInv, TypeOK
<1>2. /\ \A d \in Devices : ~Rejoin(d) /\ ~GiveUp(d)
      /\ \A d \in Devices, alive \in BOOLEAN : ~Drop(d, alive)
  <2>1. ASSUME NEW d \in Devices, Rejoin(d) PROVE FALSE
    BY <1>1, <2>1 DEF Calm, Rejoin
  <2>2. ASSUME NEW d \in Devices, GiveUp(d) PROVE FALSE
    BY <1>1, <2>2 DEF Calm, GiveUp, Lose
  <2>3. ASSUME NEW d \in Devices, NEW alive \in BOOLEAN, Drop(d, alive) PROVE FALSE
    BY <1>1, <2>3 DEF Calm, Drop, Lose
  <2> QED BY <2>1, <2>2, <2>3
<1>3. Core
  <2>1. ASSUME NEW d \in Devices, NEW s \in Slots, Serve(d, s)
        PROVE  UNCHANGED budget
    BY <2>1 DEF Serve, Reserve, Insert, Check, AddUser, AddDevice, MapDevice, AnswerJoin,
       Activate, Unlist, Unmap, Look, RemoveUser, AnnounceLeft, Count, EndIfLive, Load,
       MarkEnded, Clear, Tell
  <2>2. ASSUME NEW d \in Devices, Panel(d)
        PROVE  rejoins' = rejoins /\ (losses' = losses \/ losses' = losses + 1)
    BY <1>2, <2>2 DEF Panel, Open, Find, Join, Attach, Close, EndForEveryone, Lose, budget
  <2>3. ASSUME NEW d \in Devices, Hear(d) PROVE UNCHANGED budget
    BY <2>3 DEF Hear
  <2>4. ASSUME NEW c \in Calls, Lapse(c) PROVE UNCHANGED budget
    BY <2>4 DEF Lapse
  <2>5. rejoins' = rejoins /\ (losses' = losses \/ losses' = losses + 1)
    BY <1>2, <2>1, <2>2, <2>3, <2>4 DEF Next, vars, budget
  <2> QED BY <1>1, <2>5 DEF Calm
<1>4. ASSUME NEW d \in Devices, Close(d) PROVE Core'
  <2>1. Withdraw(d, FALSE) /\ UNCHANGED <<row, revived, inbox>>
    BY <1>4 DEF Close, db, past
  <2> QED BY <1>3, <2>1, CalmWithdraw
<1>5. ASSUME NEW d \in Devices, Panel(d) PROVE Core'
  BY <1>2, <1>3, <1>4, <1>5, CalmOpen, CalmFind, CalmJoin, CalmAttach, CalmEndForEveryone
  DEF Panel
<1>6. ASSUME NEW d \in Devices, Hear(d) PROVE Core'
  BY <1>3, <1>6, CalmHear
<1>7. ASSUME NEW d \in Devices, NEW s \in Slots, Serve(d, s) PROVE Core'
  BY <1>3, <1>7, CalmServe
<1>8. ASSUME NEW c \in Calls, Lapse(c) PROVE Core'
  BY <1>3, <1>8, CalmStutter DEF Lapse, db
<1>9. CASE UNCHANGED vars
  BY <1>3, <1>9, CalmStutter DEF vars, db, history, past
<1> QED BY <1>2, <1>5, <1>6, <1>7, <1>8, <1>9 DEF Next

\* Any number of members and devices: while no socket is lost and nobody rejoins, the
\* end of a call reaches every panel that is in it, unless the call was brought back.
THEOREM DeadCallsAreLeft == Spec => []NobodySitsInADeadCall
<1>1. Init => CInv
  <2> SUFFICES ASSUME Init PROVE Core
    BY InvInit DEF CInv
  <2>1. Kinds /\ Waits
    BY IdleKind, RequestSlot DEF Init, Kinds, Waits
  <2>2. Seated
    BY DEF Init, Seated, Joined, Away
  <2> QED BY <2>1, <2>2 DEF Core
<1>2. CInv /\ [Next]_vars => CInv'
  BY InvStep, CalmNext DEF CInv
<1>3. CInv => NobodySitsInADeadCall
  <2> SUFFICES ASSUME CInv, NEW d \in Devices, Joined(d), row[client[d].call] = "ended"
               PROVE  \/ client[d].call \in inbox[d] \cup revived \/ losses + rejoins > 0
                      \/ \E e \in Devices, s \in Slots :
                           Call(e, s) = client[d].call /\ job[e][s].step \in {"clear", "tell"}
    BY DEF NobodySitsInADeadCall
  <2>1. losses \in Nat /\ rejoins \in Nat
    BY DEF CInv, IInv, TypeOK
  <2>2. CASE Calm
    BY <2>2 DEF CInv, Core, Seated, Ending, EndSteps, Call
  <2>3. CASE ~Calm
    BY <2>1, <2>3 DEF Calm
  <2> QED BY <2>2, <2>3
<1> QED BY <1>1, <1>2, <1>3, PTL DEF Spec

-----------------------------------------------------------------------------
(* The roster and the end of a call: the inductive invariant.               *)

\* Two jobs of a device at a time are a request given up and the end of its call.
OneJob ==
    \A d \in Devices \ tangled : \A s, t \in Slots :
        ~Free(d, s) /\ ~Free(d, t) /\ s # t =>
            {s, t} = {"request", "late"} /\ job[d]["request"].op = "finish"

\* What a job is, and what it has noted so far.
Tidy(j) ==
    /\ j.op = "finish" => j.step \in {"load", "mark", "clear", "tell"}
    /\ j.step \in {"check", "unlist", "unmap", "look", "unuser"} => ~j.user
Orderly ==
    \A d \in Devices, s \in Slots : Tidy(job[d][s])

\* A roster is cleared once the call has ended.
Cleared ==
    \A d \in Devices, s \in Slots :
        job[d][s].step \in {"clear", "tell"} =>
            row[Call(d, s)] = "ended" \/ Call(d, s) \in revived

\* The steps between which the keys of a call and its events disagree about a device.
Between == {"device", "map", "joined", "unmap", "look", "unuser", "left"}

\* What the job at work on a call has made of its device so far.
DeviceBetween(j, in, on) ==
    /\ j.step = "device" => (in <=> on)
    /\ j.step = "map" => in
    /\ j.step = "joined" => in /\ on
    /\ j.step = "unmap" => ~in /\ (on <=> j.device)
    /\ j.step \in {"look", "unuser", "left"} => ~in /\ ~on

DeviceStory(d, c) ==
    LET in == d \in roster[c].devices
        on == d \in roster[c].mapped
    IN  /\ \A s \in Slots : Call(d, s) = c => DeviceBetween(job[d][s], in, on)
        /\ (in <=> on) \/ \E s \in Slots : Call(d, s) = c /\ job[d][s].step \in Between

\* And of its user, who has no other device.
UserBetween(j, in, listed, told) ==
    /\ j.step = "device" => listed /\ (in <=> ~j.user) /\ (told <=> ~j.user)
    /\ j.step \in {"map", "joined"} => listed /\ (told <=> ~j.user)
    /\ j.step \in {"unmap", "look", "unuser"} => (listed <=> j.device) /\ (told <=> j.device)
    /\ j.step = "left" => ~listed /\ (told <=> j.user) /\ (j.user => j.device)

Alone(d) == \A e \in Devices : Owner[e] = Owner[d] => e = d

UserStory(d, c) ==
    LET in == d \in roster[c].devices
        listed == Owner[d] \in roster[c].users
        told == Owner[d] \in announced[c]
    IN  /\ \A s \in Slots : Call(d, s) = c => UserBetween(job[d][s], in, listed, told)
        /\ \/ (in <=> listed) /\ (in <=> told)
           \/ \E s \in Slots : Call(d, s) = c /\ job[d][s].step \in Between

\* A user is listed for a device that is, is about to be, or is about to take the user off.
Keeping(j) ==
    j.step \in {"device", "map"} \/ (j.step \in {"look", "unuser"} /\ j.device)
UsersForCause(c) ==
    \A u \in roster[c].users : \E e \in Devices :
        /\ Owner[e] = u
        /\ e \in roster[c].mapped \/ \E s \in Slots : Call(e, s) = c /\ Keeping(job[e][s])

\* Somebody is about to fill an empty roster, or to count it.
Counting(j) ==
    \/ j.step \in {"user", "device", "map", "count", "end"}
    \/ j.step \in {"look", "unuser", "left"} /\ j.device
SomeoneCounts(c) ==
    Live(c) /\ Empty(c) => \E e \in Devices, s \in Slots : Call(e, s) = c /\ Counting(job[e][s])

\* A call whose roster nothing but the requests and closings has touched.
Followed(c) == row[c] # "ended" /\ c \notin revived \cup lapsed

Stories ==
    \A c \in Calls : Followed(c) =>
        /\ \A d \in Devices \ tangled :
             DeviceStory(d, c) /\ (Alone(d) => UserStory(d, c))
        /\ tangled = {} => UsersForCause(c) /\ SomeoneCounts(c)

Ordered == OneJob /\ Orderly /\ Cleared
RInv == IInv /\ Ordered /\ Stories

-----------------------------------------------------------------------------
(* What a step has to keep of it.                                           *)

\* All that a job has made of its device and its user, at this step.
Fitting(d, j, in, on, listed, told) ==
    /\ DeviceBetween(j, in, on) /\ ((in <=> on) \/ j.step \in Between)
    /\ Alone(d) =>
         /\ UserBetween(j, in, listed, told)
         /\ ((in <=> listed) /\ (in <=> told)) \/ j.step \in Between

Here(d, c, j) ==
    Fitting(d, j, d \in roster[c].devices, d \in roster[c].mapped,
            Owner[d] \in roster[c].users, Owner[d] \in announced[c])

\* The other jobs of a device have nothing to do with its place in a call.
LEMMA Elsewhere ==
    ASSUME Ordered, NEW d \in Devices \ tangled, NEW s \in Slots, ~Free(d, s),
           job[d][s].op # "finish", NEW t \in Slots, t # s
    PROVE  job[d][t].step \notin Between
<1>1. CASE Free(d, t)
  BY <1>1 DEF Free, Idle, New, Between
<1>2. CASE ~Free(d, t)
  <2>1. {s, t} = {"request", "late"} /\ job[d]["request"].op = "finish"
    BY <1>2 DEF Ordered, OneJob
  <2>2. t = "request" /\ job[d][t].op = "finish"
    BY <2>1
  <2> QED BY <2>2 DEF Ordered, Orderly, Tidy, Between
<1> QED BY <1>1, <1>2

\* A job knows the place of its device and user in the call it works on.
LEMMA HereNow ==
    ASSUME Ordered, Stories, NEW d \in Devices \ tangled, NEW s \in Slots, ~Free(d, s),
           job[d][s].op # "finish", NEW c \in Calls, Call(d, s) = c, Followed(c)
    PROVE  Here(d, c, job[d][s])
<1>1. DeviceStory(d, c) /\ (Alone(d) => UserStory(d, c))
  BY DEF Stories
<1>2. \A t \in Slots : job[d][t].step \in Between => t = s
  BY Elsewhere
<1> QED BY <1>1, <1>2 DEF Here, Fitting, DeviceStory, UserStory

\* A job goes on with the roster of its call, and changes it for its device and user only.
LEMMA StepStory ==
    ASSUME RInv, NEW d \in Devices, NEW s \in Slots, NEW j, NEW c \in Calls, Call(d, s) = c,
           ~Free(d, s), job[d][s].op # "finish", Put(d, s, j),
           UNCHANGED <<row, revived, lapsed, tangled>>,
           \A b \in Calls \ {c} : roster'[b] = roster[b] /\ announced'[b] = announced[b],
           \A e \in Devices \ {d} : /\ e \in roster'[c].devices <=> e \in roster[c].devices
                                    /\ e \in roster'[c].mapped <=> e \in roster[c].mapped,
           \A u \in Users \ {Owner[d]} : /\ u \in roster'[c].users <=> u \in roster[c].users
                                         /\ u \in announced'[c] <=> u \in announced[c],
           j.step \in Between => j.call = c,
           Followed(c) /\ d \notin tangled /\ Here(d, c, job[d][s]) =>
               Fitting(d, j, d \in roster'[c].devices, d \in roster'[c].mapped,
                       Owner[d] \in roster'[c].users, Owner[d] \in announced'[c]),
           Followed(c) /\ tangled = {} => (UsersForCause(c) /\ SomeoneCounts(c))'
    PROVE  Stories'
<1>1. /\ job'[d][s] = j
      /\ \A t \in Slots \ {s} : job'[d][t] = job[d][t]
      /\ \A e \in Devices \ {d} : job'[e] = job[e]
  BY TypeParts DEF RInv, IInv, Put, Jobs
<1>2. \A b : Followed(b)' <=> Followed(b)
  BY DEF Followed
<1>3. \A e \in Devices : Owner[e] \in Users
  BY GroupCallAssumption DEF GroupCallAssumption
<1>4. ASSUME NEW b \in Calls, Followed(b), NEW e \in Devices \ tangled
      PROVE  DeviceStory(e, b)' /\ (Alone(e) => UserStory(e, b)')
  <2>1. DeviceStory(e, b) /\ (Alone(e) => UserStory(e, b))
    BY <1>4 DEF RInv, Stories
  <2>2. CASE e # d
    <3>1. job'[e] = job[e]
      BY <1>1, <2>2
    <3>2. /\ e \in roster'[b].devices <=> e \in roster[b].devices
          /\ e \in roster'[b].mapped <=> e \in roster[b].mapped
      BY <2>2
    <3>3. DeviceStory(e, b)'
      BY <2>1, <3>1, <3>2 DEF DeviceStory, Call
    <3>4. ASSUME Alone(e) PROVE UserStory(e, b)'
      <4>1. Owner[e] # Owner[d]
        BY <2>2, <3>4 DEF Alone
      <4>2. /\ Owner[e] \in roster'[b].users <=> Owner[e] \in roster[b].users
            /\ Owner[e] \in announced'[b] <=> Owner[e] \in announced[b]
        BY <1>3, <4>1
      <4> QED BY <2>1, <3>1, <3>2, <3>4, <4>2 DEF UserStory, Call
    <3> QED BY <3>3, <3>4
  <2>3. CASE e = d /\ b # c
    <3>1. roster'[b] = roster[b] /\ announced'[b] = announced[b]
      BY <2>3
    <3>2. \A t \in Slots : Call(d, t)' = b /\ job'[d][t].step \in Between => t # s
      BY <1>1, <2>3 DEF Call
    <3>3. \A t \in Slots : Call(d, t) = b => t # s
      BY <2>3
    <3>4. DeviceStory(d, b)'
      <4>1. ASSUME NEW t \in Slots, Call(d, t)' = b
            PROVE  DeviceBetween(job'[d][t], d \in roster'[b].devices, d \in roster'[b].mapped)
        BY <1>1, <2>1, <2>3, <3>1, <3>2, <4>1 DEF DeviceStory, DeviceBetween, Between, Call
      <4> QED BY <1>1, <2>1, <2>3, <3>1, <3>3, <4>1 DEF DeviceStory, Call
    <3>5. ASSUME Alone(d) PROVE UserStory(d, b)'
      <4>1. ASSUME NEW t \in Slots, Call(d, t)' = b
            PROVE  UserBetween(job'[d][t], d \in roster'[b].devices, Owner[d] \in roster'[b].users,
                               Owner[d] \in announced'[b])
        BY <1>1, <2>1, <2>3, <3>1, <3>2, <3>5, <4>1 DEF UserStory, UserBetween, Between, Call
      <4> QED BY <1>1, <2>1, <2>3, <3>1, <3>3, <3>5, <4>1 DEF UserStory, Call
    <3> QED BY <2>3, <3>4, <3>5
  <2>4. CASE e = d /\ b = c
    <3>1. Fitting(d, j, d \in roster'[c].devices, d \in roster'[c].mapped,
                  Owner[d] \in roster'[c].users, Owner[d] \in announced'[c])
      BY <1>4, <2>4, HereNow DEF RInv
    <3>2. \A t \in Slots \ {s} : job'[d][t].step \notin Between
      BY <1>1, <1>4, <2>4, Elsewhere DEF RInv
    <3>3. \A t \in Slots : \A in, on : t # s => DeviceBetween(job'[d][t], in, on)
      BY <3>2 DEF DeviceBetween, Between
    <3>4. \A t \in Slots : \A in, on, told : t # s => UserBetween(job'[d][t], in, on, told)
      BY <3>2 DEF UserBetween, Between
    <3>5. j.step \in Between => Call(d, s)' = c
      BY <1>1 DEF Call
    <3>6. DeviceStory(d, c)'
      BY <1>1, <3>1, <3>3, <3>5 DEF Fitting, DeviceStory
    <3>7. Alone(d) => UserStory(d, c)'
      BY <1>1, <3>1, <3>4, <3>5 DEF Fitting, UserStory, Alone
    <3> QED BY <2>4, <3>6, <3>7
  <2> QED BY <2>2, <2>3, <2>4
<1>5. ASSUME NEW b \in Calls, Followed(b), tangled = {}
      PROVE  (UsersForCause(b) /\ SomeoneCounts(b))'
  <2>1. CASE b = c
    BY <1>5, <2>1
  <2>2. CASE b # c
    <3>1. UsersForCause(b) /\ SomeoneCounts(b)
      BY <1>5 DEF RInv, Stories
    <3>2. \A e \in Devices, t \in Slots :
             Call(e, t) = b => job'[e][t] = job[e][t] /\ Call(e, t)' = b
      BY <1>1, <2>2 DEF Call
    <3>3. roster'[b] = roster[b]
      BY <2>2
    <3>4. UsersForCause(b)'
      BY <3>1, <3>2, <3>3 DEF UsersForCause
    <3>5. SomeoneCounts(b)'
      BY <3>1, <3>2, <3>3 DEF SomeoneCounts, Live, Empty, Listed
    <3> QED BY <3>4, <3>5
  <2> QED BY <2>1, <2>2
<1>6. \A e : Alone(e)' <=> Alone(e)
  BY DEF Alone
<1> QED BY <1>2, <1>4, <1>5, <1>6 DEF Stories

\* What the rosters say of a job.
SameJob(j, k) ==
    j.op = k.op /\ j.call = k.call /\ j.step = k.step /\ j.device = k.device /\ j.user = k.user

\* Jobs may begin and end and change their slots, as long as those at work on a roster that
\* is followed go on, and somebody is left to count one that is empty.
LEMMA QuietStories ==
    ASSUME Stories, tangled \subseteq tangled',
           \A c \in Calls : Followed(c)' =>
              Followed(c) /\ roster'[c] = roster[c] /\ announced'[c] = announced[c],
           \A d \in Devices, s \in Slots : job'[d][s].step \in Between =>
              \E t \in Slots : SameJob(job[d][t], job'[d][s]),
           \A c \in Calls, d \in Devices, s \in Slots :
              Followed(c)' /\ Call(d, s) = c /\ job[d][s].step \in Between =>
                 \E t \in Slots : SameJob(job[d][s], job'[d][t]),
           \A c \in Calls : Followed(c)' /\ SomeoneCounts(c) => SomeoneCounts(c)'
    PROVE  Stories'
<1>1. \A c, e : Empty(c)' <=> Listed(c)' = {}
  BY DEF Empty
<1>2. ASSUME NEW c \in Calls, Followed(c)', NEW d \in Devices, d \notin tangled'
      PROVE  (DeviceStory(d, c) /\ (Alone(d) => UserStory(d, c)))'
  <2>1. DeviceStory(d, c) /\ (Alone(d) => UserStory(d, c))
    BY <1>2 DEF Stories
  <2>2. roster'[c] = roster[c] /\ announced'[c] = announced[c]
    BY <1>2
  <2>3. ASSUME NEW s \in Slots, Call(d, s)' = c, job'[d][s].step \in Between
        PROVE  \E t \in Slots : Call(d, t) = c /\ SameJob(job[d][t], job'[d][s])
    BY <2>3 DEF Call, SameJob
  <2>4. ASSUME NEW s \in Slots, Call(d, s) = c, job[d][s].step \in Between
        PROVE  \E t \in Slots : Call(d, t)' = c /\ job'[d][t].step \in Between
    <3>1. PICK t \in Slots : SameJob(job[d][s], job'[d][t])
      BY <1>2, <2>4
    <3> QED BY <2>4, <3>1 DEF Call, SameJob
  <2>5. ASSUME NEW s \in Slots, Call(d, s)' = c
        PROVE  DeviceBetween(job'[d][s], d \in roster[c].devices, d \in roster[c].mapped)
    <3>1. CASE job'[d][s].step \in Between
      <4>1. PICK t \in Slots : Call(d, t) = c /\ SameJob(job[d][t], job'[d][s])
        BY <2>3, <2>5, <3>1
      <4>2. DeviceBetween(job[d][t], d \in roster[c].devices, d \in roster[c].mapped)
        BY <2>1, <4>1 DEF DeviceStory
      <4> QED BY <4>1, <4>2 DEF DeviceBetween, SameJob
    <3>2. CASE job'[d][s].step \notin Between
      BY <3>2 DEF DeviceBetween, Between
    <3> QED BY <3>1, <3>2
  <2>6. DeviceStory(d, c)'
    BY <2>1, <2>2, <2>4, <2>5 DEF DeviceStory
  <2>7. ASSUME Alone(d), NEW s \in Slots, Call(d, s)' = c
        PROVE  UserBetween(job'[d][s], d \in roster[c].devices, Owner[d] \in roster[c].users,
                           Owner[d] \in announced[c])
    <3>1. CASE job'[d][s].step \in Between
      <4>1. PICK t \in Slots : Call(d, t) = c /\ SameJob(job[d][t], job'[d][s])
        BY <2>3, <2>7, <3>1
      <4>2. UserBetween(job[d][t], d \in roster[c].devices, Owner[d] \in roster[c].users,
                        Owner[d] \in announced[c])
        BY <2>1, <2>7, <4>1 DEF UserStory
      <4> QED BY <4>1, <4>2 DEF UserBetween, SameJob
    <3>2. CASE job'[d][s].step \notin Between
      BY <3>2 DEF UserBetween, Between
    <3> QED BY <3>1, <3>2
  <2>8. Alone(d) => UserStory(d, c)'
    BY <2>1, <2>2, <2>4, <2>7 DEF UserStory
  <2> QED BY <2>6, <2>8 DEF Alone
<1>3. ASSUME NEW c \in Calls, Followed(c)', tangled' = {}
      PROVE  (UsersForCause(c) /\ SomeoneCounts(c))'
  <2>1. UsersForCause(c) /\ SomeoneCounts(c)
    BY <1>3 DEF Stories
  <2>2. roster'[c] = roster[c]
    BY <1>3
  <2>3. ASSUME NEW e \in Devices, NEW s \in Slots, Call(e, s) = c, Keeping(job[e][s])
        PROVE  \E t \in Slots : Call(e, t)' = c /\ Keeping(job'[e][t])
    <3>1. job[e][s].step \in Between
      BY <2>3 DEF Keeping, Between
    <3>2. PICK t \in Slots : SameJob(job[e][s], job'[e][t])
      BY <1>3, <2>3, <3>1
    <3> QED BY <2>3, <3>2 DEF SameJob, Call, Keeping
  <2>4. UsersForCause(c)'
    BY <2>1, <2>2, <2>3 DEF UsersForCause
  <2> QED BY <1>3, <2>1, <2>4
<1> QED BY <1>2, <1>3 DEF Stories

\* The server goes on with a job.
LEMMA ServeOrdered ==
    ASSUME IInv, Ordered, NEW d \in Devices, NEW s \in Slots, NEW j, ~Free(d, s), Put(d, s, j),
           tangled' = tangled, Tidy(j), job[d][s].op = "finish" => j = Idle \/ j.op = "finish",
           j.step \in {"clear", "tell"} => row'[j.call] = "ended" \/ j.call \in revived',
           \A c \in Calls : row[c] = "ended" \/ c \in revived => row'[c] = "ended" \/ c \in revived'
    PROVE  Ordered'
<1>1. /\ job'[d][s] = j
      /\ \A t \in Slots \ {s} : job'[d][t] = job[d][t]
      /\ \A e \in Devices \ {d} : job'[e] = job[e]
  BY TypeParts DEF IInv, Put, Jobs
<1>2. \A e \in Devices, t \in Slots : ~Free(e, t)' => ~Free(e, t)
  BY <1>1 DEF Free
<1>3. OneJob'
  <2>1. \A e \in Devices : job[e]["request"].op = "finish" =>
            job'[e]["request"].op = "finish" \/ Free(e, "request")'
    BY <1>1, RequestSlot DEF Free
  <2> SUFFICES ASSUME NEW e \in Devices \ tangled, NEW t \in Slots, NEW u \in Slots,
                      ~Free(e, t)', ~Free(e, u)', t # u
               PROVE  {t, u} = {"request", "late"} /\ job'[e]["request"].op = "finish"
    BY DEF OneJob
  <2>2. {t, u} = {"request", "late"} /\ job[e]["request"].op = "finish"
    BY <1>2 DEF Ordered, OneJob
  <2>3. t = "request" \/ u = "request"
    BY <2>2
  <2> QED BY <2>1, <2>2, <2>3
<1>4. Orderly'
  BY <1>1 DEF Ordered, Orderly
<1>5. Cleared'
  <2> SUFFICES ASSUME NEW e \in Devices, NEW t \in Slots, job'[e][t].step \in {"clear", "tell"}
               PROVE  row'[job'[e][t].call] = "ended" \/ job'[e][t].call \in revived'
    BY DEF Cleared, Call
  <2>1. CASE e = d /\ t = s
    BY <1>1, <2>1
  <2>2. CASE ~(e = d /\ t = s)
    <3>1. job'[e][t] = job[e][t]
      BY <1>1, <2>2
    <3>2. row[job[e][t].call] = "ended" \/ job[e][t].call \in revived
      BY <3>1 DEF Ordered, Cleared, Call
    <3>3. job[e][t].call \in Calls
      BY <3>1 DEF IInv, WorkHasRow, Sound, HasRow
    <3> QED BY <3>1, <3>2, <3>3
  <2> QED BY <2>1, <2>2
<1> QED BY <1>3, <1>4, <1>5 DEF Ordered

\* Somebody still counts an empty roster: the job does, or is not the one that did.
LEMMA Counts ==
    ASSUME IInv, NEW d \in Devices, NEW s \in Slots, NEW j, Put(d, s, j), NEW c \in Calls,
           (Live(c) /\ Empty(c))' =>
              \/ j.call = c /\ Counting(j)
              \/ \E e \in Devices, t \in Slots :
                    (e # d \/ t # s) /\ Call(e, t) = c /\ Counting(job[e][t])
    PROVE  SomeoneCounts(c)'
<1>1. /\ job'[d][s] = j
      /\ \A t \in Slots \ {s} : job'[d][t] = job[d][t]
      /\ \A e \in Devices \ {d} : job'[e] = job[e]
  BY TypeParts DEF IInv, Put, Jobs
<1> SUFFICES ASSUME (Live(c) /\ Empty(c))'
             PROVE  \E e \in Devices, t \in Slots : job'[e][t].call = c /\ Counting(job'[e][t])
  BY DEF SomeoneCounts, Call
<1>2. CASE j.call = c /\ Counting(j)
  BY <1>1, <1>2
<1>3. CASE ~(j.call = c /\ Counting(j))
  <2>1. PICK e \in Devices, t \in Slots :
               (e # d \/ t # s) /\ Call(e, t) = c /\ Counting(job[e][t])
    BY <1>3
  <2>2. job'[e][t] = job[e][t]
    BY <1>1, <2>1
  <2> QED BY <2>1, <2>2 DEF Call
<1> QED BY <1>2, <1>3

\* The same, when the call was empty before.
LEMMA CountsOn ==
    ASSUME IInv, NEW d \in Devices, NEW s \in Slots, NEW j, Put(d, s, j), NEW c \in Calls,
           SomeoneCounts(c), (Live(c) /\ Empty(c))' => Live(c) /\ Empty(c),
           Call(d, s) = c /\ Counting(job[d][s]) =>
              (j.call = c /\ Counting(j)) \/ ~(Live(c) /\ Empty(c))'
    PROVE  SomeoneCounts(c)'
<1>1. ASSUME (Live(c) /\ Empty(c))'
      PROVE  \/ j.call = c /\ Counting(j)
             \/ \E e \in Devices, t \in Slots :
                   (e # d \/ t # s) /\ Call(e, t) = c /\ Counting(job[e][t])
  <2>1. PICK e \in Devices, t \in Slots : Call(e, t) = c /\ Counting(job[e][t])
    BY <1>1 DEF SomeoneCounts
  <2> QED BY <1>1, <2>1
<1> QED BY <1>1, Counts

\* Every user on the roster has its cause: the device at work has, or is not the cause.
LEMMA Causes ==
    ASSUME IInv, NEW d \in Devices, NEW s \in Slots, NEW j, Put(d, s, j), NEW c \in Calls,
           UsersForCause(c), roster[c].mapped \ {d} \subseteq roster'[c].mapped,
           roster'[c].users \subseteq roster[c].users \cup {Owner[d]},
           Owner[d] \in roster'[c].users =>
              \/ j.call = c /\ Keeping(j)
              \/ \E e \in roster'[c].mapped : e \in Devices /\ Owner[e] = Owner[d]
              \/ /\ Owner[d] \in roster[c].users /\ d \notin roster[c].mapped
                 /\ ~(Call(d, s) = c /\ Keeping(job[d][s]))
    PROVE  UsersForCause(c)'
<1>1. /\ job'[d][s] = j
      /\ \A t \in Slots \ {s} : job'[d][t] = job[d][t]
      /\ \A e \in Devices \ {d} : job'[e] = job[e]
  BY TypeParts DEF IInv, Put, Jobs
<1> SUFFICES ASSUME NEW u \in roster'[c].users
             PROVE  \E e \in Devices :
                      /\ Owner[e] = u
                      /\ \/ e \in roster'[c].mapped
                         \/ \E t \in Slots : job'[e][t].call = c /\ Keeping(job'[e][t])
  BY DEF UsersForCause, Call
<1>2. CASE u = Owner[d] /\ j.call = c /\ Keeping(j)
  BY <1>1, <1>2
<1>3. CASE u = Owner[d] /\ \E e \in roster'[c].mapped : e \in Devices /\ Owner[e] = Owner[d]
  BY <1>3
<1>4. CASE /\ u \in roster[c].users
           /\ u = Owner[d] => /\ d \notin roster[c].mapped
                              /\ ~(Call(d, s) = c /\ Keeping(job[d][s]))
  <2>1. PICK e \in Devices :
          /\ Owner[e] = u
          /\ e \in roster[c].mapped \/ \E t \in Slots : Call(e, t) = c /\ Keeping(job[e][t])
    BY <1>4 DEF UsersForCause
  <2>2. CASE e \in roster[c].mapped
    BY <1>4, <2>1, <2>2
  <2>3. CASE e \notin roster[c].mapped
    <3>1. PICK t \in Slots : Call(e, t) = c /\ Keeping(job[e][t])
      BY <2>1, <2>3
    <3>2. ~(e = d /\ t = s)
      BY <1>4, <2>1, <3>1
    <3>3. job'[e][t] = job[e][t]
      BY <1>1, <3>2
    <3> QED BY <2>1, <3>1, <3>3 DEF Call
  <2> QED BY <2>2, <2>3
<1> QED BY <1>2, <1>3, <1>4

\* A job does not touch its roster, and has not begun to or has done.
LEMMA QuietServe ==
    ASSUME RInv, NEW d \in Devices, NEW s \in Slots, NEW j, Put(d, s, j),
           j.step \notin Between, job[d][s].step \notin Between, tangled' = tangled,
           \A c \in Calls : Followed(c)' =>
              Followed(c) /\ roster'[c] = roster[c] /\ announced'[c] = announced[c],
           \A c \in Calls : Followed(c)' /\ SomeoneCounts(c) => SomeoneCounts(c)'
    PROVE  Stories'
<1>1. /\ job'[d][s] = j
      /\ \A t \in Slots \ {s} : job'[d][t] = job[d][t]
      /\ \A e \in Devices \ {d} : job'[e] = job[e]
  BY TypeParts DEF RInv, IInv, Put, Jobs
<1>2. \A e \in Devices, t \in Slots :
         job'[e][t].step \in Between \/ job[e][t].step \in Between => job'[e][t] = job[e][t]
  BY <1>1
<1>3. \A e \in Devices, t \in Slots : job'[e][t].step \in Between =>
         \E u \in Slots : SameJob(job[e][u], job'[e][t])
  BY <1>2 DEF SameJob
<1>4. \A c \in Calls, e \in Devices, t \in Slots :
         Followed(c)' /\ Call(e, t) = c /\ job[e][t].step \in Between =>
            \E u \in Slots : SameJob(job[e][t], job'[e][u])
  BY <1>2 DEF SameJob
<1> QED BY <1>3, <1>4, QuietStories DEF RInv

-----------------------------------------------------------------------------
(* The steps of the server that leave the rosters alone, but for the end.   *)

\* Before its row is chosen or inserted, a request has no roster.
LEMMA StoryReserve ==
    ASSUME RInv, NEW d \in Devices, NEW s \in Slots, Reserve(d, s) PROVE Ordered' /\ Stories'
<1>1. Sound(job[d][s], row) /\ job[d][s].step = "lock"
  BY Before DEF RInv, Reserve, At
<1>2. PICK j : Put(d, s, j) /\ j.step \in {"user", "insert", "idle"} /\ j.op # "finish"
  <2>1. ASSUME NEW c, Put(d, s, [job[d][s] EXCEPT !.call = c, !.step = "user"])
        PROVE  \E j : Put(d, s, j) /\ j.step = "user" /\ j.op # "finish"
    <3> DEFINE k == [job[d][s] EXCEPT !.call = c, !.step = "user"]
    <3>1. k.step = "user" /\ k.op # "finish"
      BY <1>1 DEF Sound, Job, Joining
    <3> HIDE DEF k
    <3>2. Put(d, s, k)
      BY <2>1 DEF k
    <3> QED BY <3>1, <3>2
  <2>2. ASSUME Goto(d, s, "insert")
        PROVE  \E j : Put(d, s, j) /\ j.step = "insert" /\ j.op # "finish"
    <3> DEFINE k == [job[d][s] EXCEPT !.step = "insert"]
    <3>1. k.step = "insert" /\ k.op # "finish"
      BY <1>1 DEF Sound, Job, Joining
    <3> HIDE DEF k
    <3>2. Put(d, s, k)
      BY <2>2 DEF k, Goto
    <3> QED BY <3>1, <3>2
  <2>3. ASSUME Put(d, s, Idle)
        PROVE  \E j : Put(d, s, j) /\ j.step = "idle" /\ j.op # "finish"
    <3>1. Idle.step = "idle" /\ Idle.op # "finish"
      BY DEF Idle, New
    <3> QED BY <2>3, <3>1
  <2> QED BY <2>1, <2>2, <2>3 DEF Reserve
<1>3. ~Free(d, s) /\ ~Counting(job[d][s]) /\ job[d][s].op # "finish"
  BY <1>1 DEF Free, Idle, New, Counting, Sound, Joining
<1>4. UNCHANGED <<row, roster, announced, revived, lapsed, tangled>>
  BY DEF Reserve, history, past
<1>5. Ordered'
  BY <1>2, <1>3, <1>4, ServeOrdered DEF RInv, Tidy
<1>6. \A c \in Calls : SomeoneCounts(c) => SomeoneCounts(c)'
  BY <1>2, <1>3, <1>4, CountsOn DEF RInv, Live, Empty, Listed
<1> QED BY <1>1, <1>2, <1>4, <1>5, <1>6, QuietServe DEF Between, Followed

\* A new call is live and empty, with its creator about to be listed.
LEMMA StoryInsert ==
    ASSUME RInv, NEW d \in Devices, NEW s \in Slots, Insert(d, s) PROVE Ordered' /\ Stories'
<1>1. Sound(job[d][s], row) /\ job[d][s].step = "insert"
  BY Before DEF RInv, Insert, At
<1>2. PICK b \in Calls : /\ row[b] = "none" /\ row' = [row EXCEPT ![b] = "ringing"]
                         /\ Put(d, s, [job[d][s] EXCEPT !.call = b, !.step = "user", !.kill = TRUE])
  BY DEF Insert
<1>3. PICK j : Put(d, s, j) /\ j.call = b /\ j.step = "user" /\ j.op # "finish"
  <2> DEFINE k == [job[d][s] EXCEPT !.call = b, !.step = "user", !.kill = TRUE]
  <2>1. k.call = b /\ k.step = "user" /\ k.op # "finish"
    BY <1>1 DEF Sound, Job, Joining
  <2> HIDE DEF k
  <2>2. Put(d, s, k)
    BY <1>2 DEF k
  <2> QED BY <2>1, <2>2
<1>4. ~Free(d, s) /\ ~Counting(job[d][s]) /\ job[d][s].op # "finish"
  BY <1>1 DEF Free, Idle, New, Counting, Sound, Joining
<1>5. UNCHANGED <<roster, announced, revived, lapsed, tangled>>
  BY DEF Insert, history, past
<1>6. \A c \in Calls \ {b} : row'[c] = row[c]
  BY <1>2, Before DEF RInv, Data
<1>7. Ordered'
  BY <1>2, <1>3, <1>4, <1>5, <1>6, ServeOrdered DEF RInv, Tidy
<1>8. \A c \in Calls : SomeoneCounts(c) => SomeoneCounts(c)'
  <2>1. SomeoneCounts(b)'
    BY <1>3, Counts DEF RInv, Counting
  <2>2. ASSUME NEW c \in Calls \ {b}, SomeoneCounts(c) PROVE SomeoneCounts(c)'
    BY <1>3, <1>4, <1>5, <1>6, <2>2, CountsOn DEF RInv, Live, Empty, Listed
  <2> QED BY <2>1, <2>2
<1>9. \A c \in Calls : Followed(c)' => Followed(c)
  BY <1>2, <1>5, <1>6 DEF Followed
<1> QED BY <1>1, <1>3, <1>5, <1>7, <1>8, <1>9, QuietServe DEF Between

\* A join or a leave begins with nothing noted.
LEMMA StoryCheck ==
    ASSUME RInv, NEW d \in Devices, NEW s \in Slots, Check(d, s) PROVE Ordered' /\ Stories'
<1>1. Sound(job[d][s], row) /\ job[d][s].step = "check" /\ Tidy(job[d][s])
  BY Before DEF RInv, Check, At, Ordered, Orderly
<1>2. PICK j : /\ Put(d, s, j) /\ j.step \in {"user", "unlist", "check", "idle", "load"} /\ Tidy(j)
  <2> DEFINE ok(j) == j.step \in {"user", "unlist", "check", "idle", "load"} /\ Tidy(j)
  <2>1. ASSUME Live(job[d][s].call) PROVE \E j : Put(d, s, j) /\ ok(j)
    <3> DEFINE k == [job[d][s] EXCEPT
                       !.step = IF job[d][s].op = "join" THEN "user" ELSE "unlist",
                       !.seen = IF job[d][s].op = "close" THEN "active" ELSE row[job[d][s].call]]
    <3>1. ok(k)
      BY <1>1 DEF Sound, Job, Tidy
    <3> HIDE DEF k, ok
    <3>2. Put(d, s, k)
      BY <2>1 DEF k, Check
    <3> QED BY <3>1, <3>2
  <2>2. ok(Idle)
    BY DEF Idle, New, Tidy
  <2>3. \A c : ok(New("join", c, "check"))
    BY DEF New, Tidy
  <2>4. \A c : ok(Finish(c))
    BY DEF Finish, New, Tidy
  <2>5. ok(After(job[d][s]))
    BY <2>2, <2>4 DEF After
  <2>6. ASSUME ~Live(job[d][s].call) PROVE \E j : Put(d, s, j) /\ ok(j)
    <3> HIDE DEF ok
    <3>1. \/ Put(d, s, Idle)
          \/ \E c : Put(d, s, New("join", c, "check"))
          \/ Put(d, s, Finish(job[d][s].call)) \/ Put(d, s, After(job[d][s]))
      BY <2>6 DEF Check
    <3> QED BY <2>2, <2>3, <2>4, <2>5, <3>1
  <2> QED BY <2>1, <2>6
<1>3. ~Free(d, s) /\ ~Counting(job[d][s]) /\ job[d][s].op # "finish"
  BY <1>1 DEF Free, Idle, New, Counting, Tidy
<1>4. UNCHANGED <<row, roster, announced, revived, lapsed, tangled>>
  BY DEF Check, history, past, db
<1>5. Ordered'
  BY <1>2, <1>3, <1>4, ServeOrdered DEF RInv
<1>6. \A c \in Calls : SomeoneCounts(c) => SomeoneCounts(c)'
  BY <1>2, <1>3, <1>4, CountsOn DEF RInv, Live, Empty, Listed
<1> QED BY <1>1, <1>2, <1>4, <1>5, <1>6, QuietServe DEF Between, Followed

\* What a job is replaced by has touched no roster.
LEMMA AfterTidy ==
    ASSUME NEW j
    PROVE  LET k == After(j)
           IN  Tidy(k) /\ k.step \in {"idle", "load"} /\ (k = Idle \/ k.op = "finish")
BY DEF After, Finish, Idle, New, Tidy

LEMMA LeaveTidy ==
    ASSUME NEW c, NEW kill
    PROVE  LET k == Leave(c, kill) IN Tidy(k) /\ k.step = "check" /\ k.op = "leave"
BY DEF Leave, New, Tidy

\* Who finds the roster empty goes on to end the call.
LEMMA StoryCount ==
    ASSUME RInv, NEW d \in Devices, NEW s \in Slots, Count(d, s) PROVE Ordered' /\ Stories'
<1>1. Sound(job[d][s], row) /\ job[d][s].step = "count" /\ Tidy(job[d][s])
  BY Before DEF RInv, Count, At, Ordered, Orderly
<1>2. PICK j : /\ Put(d, s, j) /\ j.step \in {"end", "idle", "load"} /\ Tidy(j)
               /\ Empty(Call(d, s)) => j.call = Call(d, s) /\ j.step = "end"
  <2>1. CASE Empty(Call(d, s))
    <3> DEFINE k == [job[d][s] EXCEPT !.step = "end"]
    <3>1. k.step = "end" /\ k.call = Call(d, s) /\ k.op = job[d][s].op
      BY <1>1 DEF Sound, Job, Call
    <3>2. Tidy(k)
      BY <1>1, <3>1 DEF Tidy
    <3> HIDE DEF k
    <3>3. Put(d, s, k)
      BY <2>1 DEF k, Count, Goto, Empty
    <3> QED BY <3>1, <3>2, <3>3
  <2>2. CASE ~Empty(Call(d, s))
    BY <2>2, AfterTidy DEF Count, Empty
  <2> QED BY <2>1, <2>2
<1>3. ~Free(d, s) /\ job[d][s].op # "finish"
  BY <1>1 DEF Free, Idle, New, Tidy
<1>4. UNCHANGED <<row, roster, announced, revived, lapsed, tangled>>
  BY DEF Count, history, past, db
<1>5. Ordered'
  BY <1>2, <1>3, <1>4, ServeOrdered DEF RInv
<1>6. \A c \in Calls : SomeoneCounts(c) => SomeoneCounts(c)'
  BY <1>2, <1>4, CountsOn DEF RInv, Live, Empty, Listed, Counting
<1> QED BY <1>1, <1>2, <1>4, <1>5, <1>6, QuietServe DEF Between, Followed

\* The call ends before its roster is cleared.
LEMMA StoryEndIfLive ==
    ASSUME RInv, NEW d \in Devices, NEW s \in Slots, EndIfLive(d, s) PROVE Ordered' /\ Stories'
<1>1. PICK b \in Calls : /\ Sound(job[d][s], row) /\ job[d][s].step = "end"
                         /\ Tidy(job[d][s]) /\ b = job[d][s].call
  BY Before DEF RInv, EndIfLive, At, Ordered, Orderly, Sound, HasRow
<1>2. PICK j : /\ Put(d, s, j) /\ j.step \in {"clear", "idle", "load"} /\ Tidy(j)
               /\ j.step = "clear" => j.call = b /\ Live(b)
  <2>1. CASE Live(b)
    <3> DEFINE k == [job[d][s] EXCEPT !.step = "clear"]
    <3>1. k.step = "clear" /\ k.call = b /\ k.op = job[d][s].op
      BY <1>1 DEF Sound, Job
    <3>2. Tidy(k)
      BY <1>1, <3>1 DEF Tidy
    <3> HIDE DEF k
    <3>3. Put(d, s, k)
      BY <1>1, <2>1 DEF k, EndIfLive, Goto
    <3> QED BY <2>1, <3>1, <3>2, <3>3
  <2>2. CASE ~Live(b)
    <3>1. Put(d, s, After(job[d][s]))
      BY <1>1, <2>2 DEF EndIfLive
    <3>2. After(job[d][s]).step # "clear"
      BY AfterTidy
    <3> QED BY <3>1, <3>2, AfterTidy
  <2> QED BY <2>1, <2>2
<1>3. ~Free(d, s) /\ job[d][s].op # "finish"
  BY <1>1 DEF Free, Idle, New, Tidy
<1>4. UNCHANGED <<roster, announced, revived, lapsed, tangled>>
  BY DEF EndIfLive, history, past, db
<1>5. /\ Live(b) => row'[b] = "ended"
      /\ \A c \in Calls : row'[c] = row[c] \/ row'[c] = "ended"
      /\ ~Live(b) => row' = row
      /\ \A c \in Calls \ {b} : row'[c] = row[c]
  BY <1>1, Before DEF RInv, Data, EndIfLive
<1>6. Ordered'
  BY <1>2, <1>3, <1>4, <1>5, ServeOrdered DEF RInv
<1>7. \A c \in Calls : SomeoneCounts(c) => SomeoneCounts(c)'
  <2>1. ~Live(b)'
    BY <1>5 DEF Live
  <2>2. SomeoneCounts(b)'
    BY <1>1, <1>2, <2>1, Counts DEF RInv
  <2>3. ASSUME NEW c \in Calls \ {b}, SomeoneCounts(c) PROVE SomeoneCounts(c)'
    BY <1>1, <1>2, <1>4, <1>5, <2>3, CountsOn DEF RInv, Live, Empty, Listed, Call
  <2> QED BY <2>2, <2>3
<1>8. \A c \in Calls : Followed(c)' => Followed(c)
  BY <1>4, <1>5 DEF Followed
<1> QED BY <1>1, <1>2, <1>4, <1>6, <1>7, <1>8, QuietServe DEF Between

\* PUT "ended" loads the status, whatever it is,
LEMMA StoryLoad ==
    ASSUME RInv, NEW d \in Devices, NEW s \in Slots, Load(d, s) PROVE Ordered' /\ Stories'
<1>1. Sound(job[d][s], row) /\ job[d][s].step = "load" /\ Tidy(job[d][s])
  BY Before DEF RInv, Load, At, Ordered, Orderly
<1> DEFINE k == [job[d][s] EXCEPT !.seen = row[Call(d, s)], !.step = "mark"]
<1>2. k.step = "mark" /\ k.op = job[d][s].op
  BY <1>1 DEF Sound, Job
<1>3. Tidy(k)
  BY <1>1, <1>2 DEF Tidy
<1>4. Put(d, s, k)
  BY DEF Load
<1> HIDE DEF k
<1>5. ~Free(d, s) /\ ~Counting(job[d][s])
  BY <1>1 DEF Free, Idle, New, Counting
<1>6. UNCHANGED <<row, roster, announced, revived, lapsed, tangled>>
  BY DEF Load, history, past, db
<1>7. Ordered'
  BY <1>2, <1>3, <1>4, <1>5, <1>6, ServeOrdered DEF RInv
<1>8. \A c \in Calls : SomeoneCounts(c) => SomeoneCounts(c)'
  BY <1>2, <1>4, <1>5, <1>6, CountsOn DEF RInv, Live, Empty, Listed
<1> QED BY <1>1, <1>2, <1>4, <1>6, <1>7, <1>8, QuietServe DEF Between, Followed

\* and ends the call before its roster is cleared.
LEMMA StoryMarkEnded ==
    ASSUME RInv, NEW d \in Devices, NEW s \in Slots, MarkEnded(d, s) PROVE Ordered' /\ Stories'
<1> DEFINE b == job[d][s].call
<1>1. /\ Sound(job[d][s], row) /\ job[d][s].step = "mark" /\ job[d][s].op = "finish"
      /\ b \in Calls
  BY Before DEF RInv, MarkEnded, At, Sound, HasRow
<1>2. PICK j : /\ Put(d, s, j) /\ j.step \in {"clear", "idle"} /\ Tidy(j)
               /\ j.step = "clear" => j.call = b
               /\ j = Idle \/ j.op = "finish"
  <2>1. CASE job[d][s].seen # "ended"
    <3> DEFINE k == [job[d][s] EXCEPT !.step = "clear"]
    <3>1. k.step = "clear" /\ k.call = b /\ k.op = "finish"
      BY <1>1 DEF Sound, Job
    <3>2. Tidy(k)
      BY <3>1 DEF Tidy
    <3> HIDE DEF k
    <3>3. Put(d, s, k)
      BY <2>1 DEF k, MarkEnded, Goto
    <3> QED BY <3>1, <3>2, <3>3
  <2>2. CASE job[d][s].seen = "ended"
    <3>1. Put(d, s, Idle)
      BY <2>2 DEF MarkEnded
    <3>2. Idle.step = "idle" /\ Tidy(Idle)
      BY DEF Idle, New, Tidy
    <3> QED BY <3>1, <3>2
  <2> QED BY <2>1, <2>2
<1>3. ~Free(d, s) /\ ~Counting(job[d][s])
  BY <1>1 DEF Free, Idle, New, Counting
<1>4. UNCHANGED <<roster, announced, revived, lapsed, tangled>>
  BY DEF MarkEnded, history, past, db
<1>5. /\ row'[b] = "ended"
      /\ \A c \in Calls \ {b} : row'[c] = row[c]
  BY <1>1, Before DEF RInv, Data, MarkEnded
<1>6. Ordered'
  BY <1>2, <1>3, <1>4, <1>5, ServeOrdered DEF RInv
<1>7. \A c \in Calls : SomeoneCounts(c) => SomeoneCounts(c)'
  BY <1>2, <1>3, <1>4, <1>5, CountsOn DEF RInv, Live, Empty, Listed
<1>8. \A c \in Calls : Followed(c)' => Followed(c)
  BY <1>4, <1>5 DEF Followed
<1> QED BY <1>1, <1>2, <1>4, <1>6, <1>7, <1>8, QuietServe DEF Between

\* The roster that is cleared is one of a call that has ended or was revived.
LEMMA StoryClear ==
    ASSUME RInv, NEW d \in Devices, NEW s \in Slots, Clear(d, s) PROVE Ordered' /\ Stories'
<1> DEFINE b == job[d][s].call
<1>1. /\ Sound(job[d][s], row) /\ job[d][s].step = "clear" /\ Tidy(job[d][s])
      /\ b \in Calls /\ (row[b] = "ended" \/ b \in revived)
  BY Before DEF RInv, Clear, At, Ordered, Orderly, Cleared, Call, Sound, HasRow
<1> DEFINE k == [job[d][s] EXCEPT !.step = "tell"]
<1>2. k.step = "tell" /\ k.call = b /\ k.op = job[d][s].op
  BY <1>1 DEF Sound, Job
<1>3. Tidy(k)
  BY <1>1, <1>2 DEF Tidy
<1>4. Put(d, s, k)
  BY DEF Clear, Goto
<1> HIDE DEF k
<1>5. ~Free(d, s) /\ ~Counting(job[d][s])
  BY <1>1 DEF Free, Idle, New, Counting
<1>6. UNCHANGED <<row, announced, revived, lapsed, tangled>>
  BY DEF Clear, history, past, db
<1>7. \A c \in Calls : Followed(c) => roster'[c] = roster[c]
  <2>1. roster' = [roster EXCEPT ![b] = NoRoster]
    BY DEF Clear, Call
  <2>2. ~Followed(b)
    BY <1>1 DEF Followed
  <2>3. roster \in [Calls -> Rosters]
    BY Before DEF RInv, Data
  <2> QED BY <2>1, <2>2, <2>3
<1>8. Ordered'
  BY <1>1, <1>2, <1>3, <1>4, <1>5, <1>6, ServeOrdered DEF RInv
<1>9. \A c \in Calls : Followed(c) /\ SomeoneCounts(c) => SomeoneCounts(c)'
  BY <1>2, <1>4, <1>5, <1>6, <1>7, CountsOn DEF RInv, Live, Empty, Listed
<1>10. \A c \in Calls : Followed(c)' => Followed(c)
  BY <1>6 DEF Followed
<1> QED BY <1>1, <1>2, <1>4, <1>6, <1>7, <1>8, <1>9, <1>10, QuietServe DEF Between

\* The event leaves the rosters alone.
LEMMA StoryTell ==
    ASSUME RInv, NEW d \in Devices, NEW s \in Slots, Tell(d, s) PROVE Ordered' /\ Stories'
<1>1. job[d][s].step = "tell"
  BY DEF Tell, At
<1> DEFINE k == After(job[d][s])
<1>2. Tidy(k) /\ k.step \in {"idle", "load"} /\ (k = Idle \/ k.op = "finish")
  BY AfterTidy
<1>3. Put(d, s, k)
  BY DEF Tell
<1> HIDE DEF k
<1>4. ~Free(d, s) /\ ~Counting(job[d][s])
  BY <1>1 DEF Free, Idle, New, Counting
<1>5. UNCHANGED <<row, roster, announced, revived, lapsed, tangled>>
  BY DEF Tell, past, db
<1>6. Ordered'
  BY <1>2, <1>3, <1>4, <1>5, ServeOrdered DEF RInv
<1>7. \A c \in Calls : SomeoneCounts(c) => SomeoneCounts(c)'
  BY <1>3, <1>4, <1>5, CountsOn DEF RInv, Live, Empty, Listed
<1> QED BY <1>1, <1>2, <1>3, <1>5, <1>6, <1>7, QuietServe DEF Between, Followed

\* PUT "active" makes no call live but by reviving it.
LEMMA StoryActivate ==
    ASSUME RInv, NEW d \in Devices, NEW s \in Slots, Activate(d, s) PROVE Ordered' /\ Stories'
<1>1. PICK b \in Calls :
        /\ Sound(job[d][s], row) /\ job[d][s].step = "mark" /\ job[d][s].op = "activate"
        /\ b = job[d][s].call /\ row[b] # "none"
  BY Before DEF RInv, Activate, At, Sound, HasRow
<1>2. PICK j : Put(d, s, j) /\ j.step \in {"idle", "check"} /\ Tidy(j)
  <2>1. Idle.step = "idle" /\ Tidy(Idle)
    BY DEF Idle, New, Tidy
  <2>2. Put(d, s, Idle) \/ Put(d, s, Leave(b, job[d][s].kill))
    BY <1>1 DEF Activate
  <2> QED BY <2>1, <2>2, LeaveTidy
<1>3. ~Free(d, s) /\ ~Counting(job[d][s])
  BY <1>1 DEF Free, Idle, New, Counting
<1>4. UNCHANGED <<roster, announced, lapsed, tangled>> /\ revived \subseteq revived'
  BY DEF Activate
<1>5. /\ row[b] = "ended" => b \in revived'
      /\ row'[b] = "active" /\ \A c \in Calls \ {b} : row'[c] = row[c]
  BY <1>1, Before DEF RInv, Data, Activate
<1>6. Ordered'
  BY <1>1, <1>2, <1>3, <1>4, <1>5, ServeOrdered DEF RInv
<1>7. \A c \in Calls : Followed(c)' => Followed(c)
  BY <1>4, <1>5 DEF Followed
<1>8. \A c \in Calls : Followed(c)' => (Live(c)' => Live(c))
  <2>1. Followed(b)' => Live(b)
    <3>1. row[b] \in Status
      BY <1>1, Before DEF RInv, Data
    <3> QED BY <1>1, <1>5, <3>1 DEF Followed, Live, Status
  <2> QED BY <1>5, <2>1 DEF Live
<1>9. \A c \in Calls : Followed(c)' /\ SomeoneCounts(c) => SomeoneCounts(c)'
  <2> SUFFICES ASSUME NEW c \in Calls, Followed(c)', SomeoneCounts(c) PROVE SomeoneCounts(c)'
    OBVIOUS
  <2>1. (Live(c) /\ Empty(c))' => Live(c) /\ Empty(c)
    BY <1>4, <1>8 DEF Empty, Listed
  <2> QED BY <1>2, <1>3, <2>1, CountsOn DEF RInv
<1> QED BY <1>1, <1>2, <1>4, <1>6, <1>7, <1>9, QuietServe DEF Between

-----------------------------------------------------------------------------
(* The commands of a join and of a leave, one by one.                       *)

\* One command on the roster of a call changes that key alone.
LEMMA RosterEdited ==
    ASSUME NEW r \in [Calls -> Rosters], NEW c \in Calls, NEW us, NEW ds
    PROVE  /\ LET q == [r EXCEPT ![c].users = us]
              IN  /\ q[c].users = us /\ q[c].devices = r[c].devices
                  /\ q[c].mapped = r[c].mapped /\ \A b \in Calls \ {c} : q[b] = r[b]
           /\ LET q == [r EXCEPT ![c].devices = ds]
              IN  /\ q[c].users = r[c].users /\ q[c].devices = ds
                  /\ q[c].mapped = r[c].mapped /\ \A b \in Calls \ {c} : q[b] = r[b]
           /\ LET q == [r EXCEPT ![c].mapped = ds]
              IN  /\ q[c].users = r[c].users /\ q[c].devices = r[c].devices
                  /\ q[c].mapped = ds /\ \A b \in Calls \ {c} : q[b] = r[b]
<1>1. r[c] \in Rosters
  OBVIOUS
<1>2. /\ [r[c] EXCEPT !.users = us].users = us
      /\ [r[c] EXCEPT !.users = us].devices = r[c].devices
      /\ [r[c] EXCEPT !.users = us].mapped = r[c].mapped
  BY <1>1 DEF Rosters
<1>3. /\ [r[c] EXCEPT !.devices = ds].users = r[c].users
      /\ [r[c] EXCEPT !.devices = ds].devices = ds
      /\ [r[c] EXCEPT !.devices = ds].mapped = r[c].mapped
  BY <1>1 DEF Rosters
<1>4. /\ [r[c] EXCEPT !.mapped = ds].users = r[c].users
      /\ [r[c] EXCEPT !.mapped = ds].devices = r[c].devices
      /\ [r[c] EXCEPT !.mapped = ds].mapped = ds
  BY <1>1 DEF Rosters
<1> QED BY <1>2, <1>3, <1>4

\* What is known of a job at work on a roster.
LEMMA AtWork ==
    ASSUME RInv, NEW d \in Devices, NEW s \in Slots,
           job[d][s].step \in {"user", "device", "map", "joined", "unlist", "unmap", "look",
                               "unuser", "left", "count"}
    PROVE  /\ \E c \in Calls : Call(d, s) = c
           /\ job[d][s] \in Job /\ Tidy(job[d][s])
           /\ ~Free(d, s) /\ job[d][s].op # "finish"
           /\ Owner[d] \in Users /\ roster \in [Calls -> Rosters]
<1>1. Sound(job[d][s], row) /\ Data
  BY Before DEF RInv
<1>2. Tidy(job[d][s])
  BY DEF RInv, Ordered, Orderly
<1>3. ~Free(d, s)
  BY DEF Free, Idle, New
<1>4. Owner[d] \in Users
  BY GroupCallAssumption DEF GroupCallAssumption
<1> QED BY <1>1, <1>2, <1>3, <1>4 DEF Sound, HasRow, Tidy, Call, Data

\* SADD of the user: it is listed for a device still to come.
LEMMA StoryAddUser ==
    ASSUME RInv, NEW d \in Devices, NEW s \in Slots, AddUser(d, s) PROVE Ordered' /\ Stories'
<1>1. job[d][s].step = "user"
  BY DEF AddUser, At
<1>2. PICK c \in Calls : Call(d, s) = c
  BY <1>1, AtWork
<1>3. /\ job[d][s] \in Job /\ Tidy(job[d][s]) /\ ~Free(d, s) /\ job[d][s].op # "finish"
      /\ Owner[d] \in Users /\ roster \in [Calls -> Rosters]
  BY <1>1, AtWork
<1>4. PICK j : /\ Put(d, s, j) /\ j.step = "device" /\ j.call = c /\ j.op # "finish"
               /\ j.user = (Owner[d] \notin roster[c].users)
  <2> DEFINE k == [job[d][s] EXCEPT !.step = "device",
                                    !.user = Owner[d] \notin roster[c].users]
  <2>1. /\ k.step = "device" /\ k.call = c /\ k.op # "finish"
        /\ k.user = (Owner[d] \notin roster[c].users)
    BY <1>2, <1>3 DEF Job, Call
  <2>2. Put(d, s, k)
    BY <1>2 DEF AddUser
  <2> HIDE DEF k
  <2> QED BY <2>1, <2>2
<1>5. UNCHANGED <<row, announced, revived, lapsed, tangled>>
  BY DEF AddUser, history, past, db
<1>6. /\ roster'[c].users = roster[c].users \cup {Owner[d]}
      /\ roster'[c].devices = roster[c].devices /\ roster'[c].mapped = roster[c].mapped
      /\ \A b \in Calls \ {c} : roster'[b] = roster[b]
  BY <1>2, <1>3, RosterEdited DEF AddUser
<1>7. Ordered'
  BY <1>3, <1>4, <1>5, ServeOrdered DEF RInv, Tidy
<1>8. Here(d, c, job[d][s]) =>
         Fitting(d, j, d \in roster'[c].devices, d \in roster'[c].mapped,
                 Owner[d] \in roster'[c].users, Owner[d] \in announced'[c])
  BY <1>1, <1>4, <1>5, <1>6 DEF Here, Fitting, DeviceBetween, UserBetween, Between
<1>9. (UsersForCause(c) => UsersForCause(c)')
  BY <1>4, <1>6, Causes DEF RInv, Keeping
<1>10. SomeoneCounts(c)'
  BY <1>4, Counts DEF RInv, Counting
<1>11. Followed(c) /\ tangled = {} => (UsersForCause(c) /\ SomeoneCounts(c))'
  BY <1>9, <1>10 DEF RInv, Stories
<1> QED BY <1>2, <1>3, <1>4, <1>5, <1>6, <1>7, <1>8, <1>11, StepStory

\* SADD of the device, not mapped yet.
LEMMA StoryAddDevice ==
    ASSUME RInv, NEW d \in Devices, NEW s \in Slots, AddDevice(d, s) PROVE Ordered' /\ Stories'
<1>1. job[d][s].step = "device"
  BY DEF AddDevice, At
<1>2. PICK c \in Calls : Call(d, s) = c
  BY <1>1, AtWork
<1>3. /\ job[d][s] \in Job /\ Tidy(job[d][s]) /\ ~Free(d, s) /\ job[d][s].op # "finish"
      /\ Owner[d] \in Users /\ roster \in [Calls -> Rosters]
  BY <1>1, AtWork
<1>4. PICK j : /\ Put(d, s, j) /\ j.step = "map" /\ j.call = c /\ j.op # "finish"
               /\ j.user = job[d][s].user /\ j.device = job[d][s].device
  <2> DEFINE k == [job[d][s] EXCEPT !.step = "map"]
  <2>1. /\ k.step = "map" /\ k.call = c /\ k.op # "finish"
        /\ k.user = job[d][s].user /\ k.device = job[d][s].device
    BY <1>2, <1>3 DEF Job, Call
  <2>2. Put(d, s, k)
    BY DEF AddDevice, Goto
  <2> HIDE DEF k
  <2> QED BY <2>1, <2>2
<1>5. UNCHANGED <<row, announced, revived, lapsed, tangled>>
  BY DEF AddDevice, history, past, db
<1>6. /\ roster'[c].devices = roster[c].devices \cup {d}
      /\ roster'[c].users = roster[c].users /\ roster'[c].mapped = roster[c].mapped
      /\ \A b \in Calls \ {c} : roster'[b] = roster[b]
  BY <1>2, <1>3, RosterEdited DEF AddDevice
<1>7. Ordered'
  BY <1>1, <1>3, <1>4, <1>5, ServeOrdered DEF RInv, Tidy
<1>8. Here(d, c, job[d][s]) =>
         Fitting(d, j, d \in roster'[c].devices, d \in roster'[c].mapped,
                 Owner[d] \in roster'[c].users, Owner[d] \in announced'[c])
  BY <1>1, <1>3, <1>4, <1>5, <1>6 DEF Here, Fitting, DeviceBetween, UserBetween, Between, Tidy
<1>9. UsersForCause(c) => UsersForCause(c)'
  BY <1>4, <1>6, Causes DEF RInv, Keeping
<1>10. SomeoneCounts(c)'
  BY <1>4, Counts DEF RInv, Counting
<1>11. Followed(c) /\ tangled = {} => (UsersForCause(c) /\ SomeoneCounts(c))'
  BY <1>9, <1>10 DEF RInv, Stories
<1> QED BY <1>2, <1>3, <1>4, <1>5, <1>6, <1>7, <1>8, <1>11, StepStory

\* HSET of the device: from now on it is the cause of its user.
LEMMA StoryMapDevice ==
    ASSUME RInv, NEW d \in Devices, NEW s \in Slots, MapDevice(d, s) PROVE Ordered' /\ Stories'
<1>1. job[d][s].step = "map"
  BY DEF MapDevice, At
<1>2. PICK c \in Calls : Call(d, s) = c
  BY <1>1, AtWork
<1>3. /\ job[d][s] \in Job /\ Tidy(job[d][s]) /\ ~Free(d, s) /\ job[d][s].op # "finish"
      /\ Owner[d] \in Users /\ roster \in [Calls -> Rosters]
  BY <1>1, AtWork
<1>4. PICK j : /\ Put(d, s, j) /\ j.step = "joined" /\ j.call = c /\ j.op # "finish"
               /\ j.user = job[d][s].user /\ j.device = job[d][s].device
  <2> DEFINE k == [job[d][s] EXCEPT !.step = "joined"]
  <2>1. /\ k.step = "joined" /\ k.call = c /\ k.op # "finish"
        /\ k.user = job[d][s].user /\ k.device = job[d][s].device
    BY <1>2, <1>3 DEF Job, Call
  <2>2. Put(d, s, k)
    BY DEF MapDevice, Goto
  <2> HIDE DEF k
  <2> QED BY <2>1, <2>2
<1>5. UNCHANGED <<row, announced, revived, lapsed, tangled>>
  BY DEF MapDevice, history, past, db
<1>6. /\ roster'[c].mapped = roster[c].mapped \cup {d}
      /\ roster'[c].users = roster[c].users /\ roster'[c].devices = roster[c].devices
      /\ \A b \in Calls \ {c} : roster'[b] = roster[b]
  BY <1>2, <1>3, RosterEdited DEF MapDevice
<1>7. Ordered'
  BY <1>1, <1>3, <1>4, <1>5, ServeOrdered DEF RInv, Tidy
<1>8. Here(d, c, job[d][s]) =>
         Fitting(d, j, d \in roster'[c].devices, d \in roster'[c].mapped,
                 Owner[d] \in roster'[c].users, Owner[d] \in announced'[c])
  BY <1>1, <1>3, <1>4, <1>5, <1>6 DEF Here, Fitting, DeviceBetween, UserBetween, Between, Tidy
<1>9. UsersForCause(c) => UsersForCause(c)'
  BY <1>4, <1>6, Causes DEF RInv
<1>10. SomeoneCounts(c)'
  BY <1>6 DEF SomeoneCounts, Empty, Listed, UsersOf
<1>11. Followed(c) /\ tangled = {} => (UsersForCause(c) /\ SomeoneCounts(c))'
  BY <1>9, <1>10 DEF RInv, Stories
<1> QED BY <1>2, <1>3, <1>4, <1>5, <1>6, <1>7, <1>8, <1>11, StepStory

\* HDEL: a device that was mapped is one that was on the roster, and will be counted.
LEMMA StoryUnmap ==
    ASSUME RInv, NEW d \in Devices, NEW s \in Slots, Unmap(d, s) PROVE Ordered' /\ Stories'
<1>1. job[d][s].step = "unmap"
  BY DEF Unmap, At
<1>2. PICK c \in Calls : Call(d, s) = c
  BY <1>1, AtWork
<1>3. /\ job[d][s] \in Job /\ Tidy(job[d][s]) /\ ~Free(d, s) /\ job[d][s].op # "finish"
      /\ Owner[d] \in Users /\ roster \in [Calls -> Rosters]
  BY <1>1, AtWork
<1>4. PICK j : /\ Put(d, s, j) /\ j.step = "look" /\ j.call = c /\ j.op # "finish"
               /\ j.user = job[d][s].user /\ j.device = job[d][s].device
  <2> DEFINE k == [job[d][s] EXCEPT !.step = "look"]
  <2>1. /\ k.step = "look" /\ k.call = c /\ k.op # "finish"
        /\ k.user = job[d][s].user /\ k.device = job[d][s].device
    BY <1>2, <1>3 DEF Job, Call
  <2>2. Put(d, s, k)
    BY DEF Unmap, Goto
  <2> HIDE DEF k
  <2> QED BY <2>1, <2>2
<1>5. UNCHANGED <<row, announced, revived, lapsed, tangled>>
  BY DEF Unmap, history, past, db
<1>6. /\ roster'[c].mapped = roster[c].mapped \ {d}
      /\ roster'[c].users = roster[c].users /\ roster'[c].devices = roster[c].devices
      /\ \A b \in Calls \ {c} : roster'[b] = roster[b]
  BY <1>2, <1>3, RosterEdited DEF Unmap
<1>7. Ordered'
  BY <1>1, <1>3, <1>4, <1>5, ServeOrdered DEF RInv, Tidy
<1>8. Here(d, c, job[d][s]) =>
         Fitting(d, j, d \in roster'[c].devices, d \in roster'[c].mapped,
                 Owner[d] \in roster'[c].users, Owner[d] \in announced'[c])
  BY <1>1, <1>3, <1>4, <1>5, <1>6 DEF Here, Fitting, DeviceBetween, UserBetween, Between, Tidy
<1>11. Followed(c) /\ tangled = {} => (UsersForCause(c) /\ SomeoneCounts(c))'
  <2> SUFFICES ASSUME Followed(c), tangled = {} PROVE (UsersForCause(c) /\ SomeoneCounts(c))'
    OBVIOUS
  <2>1. UsersForCause(c) /\ SomeoneCounts(c) /\ (d \in roster[c].mapped <=> job[d][s].device)
    BY <1>1, <1>2 DEF RInv, Stories, DeviceStory, DeviceBetween
  <2>2. UsersForCause(c)'
    BY <1>1, <1>4, <1>6, <2>1, Causes DEF RInv, Keeping
  <2>3. SomeoneCounts(c)'
    <3>1. CASE job[d][s].device
      BY <1>4, <3>1, Counts DEF RInv, Counting
    <3>2. CASE ~job[d][s].device
      <4>1. roster'[c].mapped = roster[c].mapped
        BY <1>6, <2>1, <3>2
      <4>2. ~Counting(job[d][s])
        BY <1>1 DEF Counting
      <4>3. (Live(c) /\ Empty(c))' => Live(c) /\ Empty(c)
        BY <1>5, <1>6, <4>1 DEF Live, Empty, Listed
      <4> QED BY <1>4, <2>1, <4>2, <4>3, CountsOn DEF RInv
    <3> QED BY <3>1, <3>2
  <2> QED BY <2>2, <2>3
<1> QED BY <1>2, <1>3, <1>4, <1>5, <1>6, <1>7, <1>8, <1>11, StepStory

\* SREM of the device; the job notes whether it was there.
LEMMA StoryUnlist ==
    ASSUME RInv, NEW d \in Devices, NEW s \in Slots, Unlist(d, s) PROVE Ordered' /\ Stories'
<1>1. job[d][s].step = "unlist"
  BY DEF Unlist, At
<1>2. PICK c \in Calls : Call(d, s) = c
  BY <1>1, AtWork
<1>3. /\ job[d][s] \in Job /\ Tidy(job[d][s]) /\ ~Free(d, s) /\ job[d][s].op # "finish"
      /\ Owner[d] \in Users /\ roster \in [Calls -> Rosters]
  BY <1>1, AtWork
<1>4. PICK j : /\ Put(d, s, j) /\ j.step = "unmap" /\ j.call = c /\ j.op # "finish"
               /\ j.user = job[d][s].user /\ j.device = (d \in roster[c].devices)
  <2> DEFINE k == [job[d][s] EXCEPT !.step = "unmap", !.device = d \in roster[c].devices]
  <2>1. /\ k.step = "unmap" /\ k.call = c /\ k.op # "finish"
        /\ k.user = job[d][s].user /\ k.device = (d \in roster[c].devices)
    BY <1>2, <1>3 DEF Job, Call
  <2>2. Put(d, s, k)
    BY <1>2 DEF Unlist
  <2> HIDE DEF k
  <2> QED BY <2>1, <2>2
<1>5. UNCHANGED <<row, announced, revived, lapsed, tangled>>
  BY DEF Unlist, history, past, db
<1>6. /\ roster'[c].devices = roster[c].devices \ {d}
      /\ roster'[c].users = roster[c].users /\ roster'[c].mapped = roster[c].mapped
      /\ \A b \in Calls \ {c} : roster'[b] = roster[b]
  BY <1>2, <1>3, RosterEdited DEF Unlist
<1>7. Ordered'
  BY <1>1, <1>3, <1>4, <1>5, ServeOrdered DEF RInv, Tidy
<1>8. Here(d, c, job[d][s]) =>
         Fitting(d, j, d \in roster'[c].devices, d \in roster'[c].mapped,
                 Owner[d] \in roster'[c].users, Owner[d] \in announced'[c])
  BY <1>1, <1>4, <1>5, <1>6 DEF Here, Fitting, DeviceBetween, UserBetween, Between
<1>9. UsersForCause(c) => UsersForCause(c)'
  <2>1. roster'[c].mapped = roster[c].mapped /\ ~Keeping(job[d][s])
    BY <1>1, <1>6 DEF Keeping
  <2>2. d \in roster[c].mapped => \E e \in roster'[c].mapped : e \in Devices /\ Owner[e] = Owner[d]
    BY <2>1
  <2> QED BY <1>4, <1>6, <2>1, <2>2, Causes DEF RInv
<1>10. SomeoneCounts(c) => SomeoneCounts(c)'
  <2>1. ~Counting(job[d][s])
    BY <1>1 DEF Counting
  <2>2. (Live(c) /\ Empty(c))' => Live(c) /\ Empty(c)
    BY <1>5, <1>6 DEF Live, Empty, Listed
  <2> QED BY <1>4, <2>1, <2>2, CountsOn DEF RInv
<1>11. Followed(c) /\ tangled = {} => (UsersForCause(c) /\ SomeoneCounts(c))'
  BY <1>9, <1>10 DEF RInv, Stories
<1> QED BY <1>2, <1>3, <1>4, <1>5, <1>6, <1>7, <1>8, <1>11, StepStory

\* HVALS: a user without another device is taken off next.
LEMMA StoryLook ==
    ASSUME RInv, NEW d \in Devices, NEW s \in Slots, Look(d, s) PROVE Ordered' /\ Stories'
<1>1. job[d][s].step = "look"
  BY DEF Look, At
<1>2. PICK c \in Calls : Call(d, s) = c
  BY <1>1, AtWork
<1>3. /\ job[d][s] \in Job /\ Tidy(job[d][s]) /\ ~Free(d, s) /\ job[d][s].op # "finish"
      /\ Owner[d] \in Users /\ roster \in [Calls -> Rosters]
  BY <1>1, AtWork
<1> DEFINE present == UsersOf(roster[c].mapped)
           stays == IF job[d][s].device THEN Owner[d] \in present ELSE present # {}
<1>4. PICK j : /\ Put(d, s, j) /\ j.step = (IF stays THEN "left" ELSE "unuser")
               /\ j.call = c /\ j.op # "finish"
               /\ j.user = job[d][s].user /\ j.device = job[d][s].device
  <2> DEFINE k == [job[d][s] EXCEPT !.step = IF stays THEN "left" ELSE "unuser"]
  <2>1. Put(d, s, k)
    BY <1>2 DEF Look, Goto, Call
  <2> HIDE DEF stays
  <2>2. /\ k.step = (IF stays THEN "left" ELSE "unuser") /\ k.call = c /\ k.op # "finish"
        /\ k.user = job[d][s].user /\ k.device = job[d][s].device
    BY <1>2, <1>3 DEF Job, Call
  <2> HIDE DEF k
  <2> QED BY <2>1, <2>2
<1>5. UNCHANGED <<row, roster, announced, revived, lapsed, tangled>>
  BY DEF Look, history, past, db
<1>6. roster[c].mapped \in SUBSET Devices
  BY <1>3, RosterEdit
<1>7. Ordered'
  <2>1. Tidy(j)
    BY <1>1, <1>3, <1>4 DEF Tidy
  <2>2. j.step \notin {"clear", "tell"}
    BY <1>4
  <2> HIDE DEF stays
  <2> QED BY <1>3, <1>4, <1>5, <2>1, <2>2, ServeOrdered DEF RInv
<1>8. ~job[d][s].user
  BY <1>1, <1>3 DEF Tidy
<1>9. Here(d, c, job[d][s]) => Fitting(d, j, d \in roster[c].devices, d \in roster[c].mapped,
                                       Owner[d] \in roster[c].users, Owner[d] \in announced[c])
  <2> SUFFICES ASSUME Here(d, c, job[d][s])
               PROVE  Fitting(d, j, d \in roster[c].devices, d \in roster[c].mapped,
                              Owner[d] \in roster[c].users, Owner[d] \in announced[c])
    OBVIOUS
  <2>1. d \notin roster[c].devices /\ d \notin roster[c].mapped
    BY <1>1 DEF Here, Fitting, DeviceBetween
  <2>2. j.step \in {"left", "unuser"}
    BY <1>4
  <2>3. ASSUME Alone(d)
        PROVE  UserBetween(j, d \in roster[c].devices, Owner[d] \in roster[c].users,
                           Owner[d] \in announced[c])
    <3>1. /\ Owner[d] \in roster[c].users <=> job[d][s].device
          /\ Owner[d] \in announced[c] <=> job[d][s].device
      BY <1>1, <2>3 DEF Here, Fitting, UserBetween
    <3>2. Owner[d] \notin present
      BY <1>6, <2>1, <2>3 DEF UsersOf, Alone
    <3>3. j.step = "left" => ~job[d][s].device
      BY <1>4, <3>2
    <3> QED BY <1>4, <1>8, <2>2, <3>1, <3>3 DEF UserBetween
  <2> QED BY <2>1, <2>2, <2>3 DEF Fitting, DeviceBetween, Between
<1>10. UsersForCause(c) => UsersForCause(c)'
  <2>1. CASE j.step = "unuser" /\ job[d][s].device
    BY <1>4, <1>5, <2>1, Causes DEF RInv, Keeping
  <2>2. CASE ~job[d][s].device
    <3>1. d \in roster[c].mapped =>
             \E e \in roster'[c].mapped : e \in Devices /\ Owner[e] = Owner[d]
      BY <1>5
    <3>2. ~Keeping(job[d][s])
      BY <1>1, <2>2 DEF Keeping
    <3> QED BY <1>4, <1>5, <3>1, <3>2, Causes DEF RInv
  <2>3. CASE j.step # "unuser" /\ job[d][s].device
    <3>1. Owner[d] \in present
      BY <1>4, <2>3
    <3>2. \E e \in roster'[c].mapped : e \in Devices /\ Owner[e] = Owner[d]
      BY <1>5, <1>6, <3>1 DEF UsersOf
    <3> QED BY <1>4, <1>5, <3>2, Causes DEF RInv
  <2> QED BY <2>1, <2>2, <2>3
<1>11. SomeoneCounts(c) => SomeoneCounts(c)'
  <2>1. Counting(job[d][s]) => Counting(j)
    BY <1>1, <1>4 DEF Counting
  <2>2. (Live(c) /\ Empty(c))' => Live(c) /\ Empty(c)
    BY <1>5 DEF Live, Empty, Listed
  <2> QED BY <1>4, <2>1, <2>2, CountsOn DEF RInv
<1>12. Followed(c) /\ tangled = {} => (UsersForCause(c) /\ SomeoneCounts(c))'
  BY <1>10, <1>11 DEF RInv, Stories
<1> HIDE DEF stays, present
<1> QED BY <1>2, <1>3, <1>4, <1>5, <1>7, <1>9, <1>12, StepStory

\* SREM of the user: another job of the user, if any, is yet to count.
LEMMA StoryRemoveUser ==
    ASSUME RInv, NEW d \in Devices, NEW s \in Slots, RemoveUser(d, s) PROVE Ordered' /\ Stories'
<1>1. job[d][s].step = "unuser"
  BY DEF RemoveUser, At
<1>2. PICK c \in Calls : Call(d, s) = c
  BY <1>1, AtWork
<1>3. /\ job[d][s] \in Job /\ Tidy(job[d][s]) /\ ~Free(d, s) /\ job[d][s].op # "finish"
      /\ Owner[d] \in Users /\ roster \in [Calls -> Rosters]
  BY <1>1, AtWork
<1>4. PICK j : /\ Put(d, s, j) /\ j.step = "left" /\ j.call = c /\ j.op # "finish"
               /\ j.user = (Owner[d] \in roster[c].users) /\ j.device = job[d][s].device
  <2> DEFINE k == [job[d][s] EXCEPT !.step = "left", !.user = Owner[d] \in roster[c].users]
  <2>1. /\ k.step = "left" /\ k.call = c /\ k.op # "finish"
        /\ k.user = (Owner[d] \in roster[c].users) /\ k.device = job[d][s].device
    BY <1>2, <1>3 DEF Job, Call
  <2>2. Put(d, s, k)
    BY <1>2 DEF RemoveUser
  <2> HIDE DEF k
  <2> QED BY <2>1, <2>2
<1>5. UNCHANGED <<row, announced, revived, lapsed, tangled>>
  BY DEF RemoveUser, history, past, db
<1>6. /\ roster'[c].users = roster[c].users \ {Owner[d]}
      /\ roster'[c].devices = roster[c].devices /\ roster'[c].mapped = roster[c].mapped
      /\ \A b \in Calls \ {c} : roster'[b] = roster[b]
  BY <1>2, <1>3, RosterEdited DEF RemoveUser
<1>7. Ordered'
  BY <1>1, <1>3, <1>4, <1>5, ServeOrdered DEF RInv, Tidy
<1>8. Here(d, c, job[d][s]) =>
         Fitting(d, j, d \in roster'[c].devices, d \in roster'[c].mapped,
                 Owner[d] \in roster'[c].users, Owner[d] \in announced'[c])
  BY <1>1, <1>4, <1>5, <1>6 DEF Here, Fitting, DeviceBetween, UserBetween, Between
<1>9. UsersForCause(c) => UsersForCause(c)'
  BY <1>4, <1>6, Causes DEF RInv
<1>10. UsersForCause(c) /\ SomeoneCounts(c) => SomeoneCounts(c)'
  <2> SUFFICES ASSUME UsersForCause(c), SomeoneCounts(c), (Live(c) /\ Empty(c))'
               PROVE  \/ j.call = c /\ Counting(j)
                      \/ \E e \in Devices, t \in Slots :
                            (e # d \/ t # s) /\ Call(e, t) = c /\ Counting(job[e][t])
    BY <1>4, Counts DEF RInv
  <2>1. CASE job[d][s].device
    BY <1>4, <2>1 DEF Counting
  <2>2. CASE ~job[d][s].device /\ Empty(c)
    <3>1. PICK e \in Devices, t \in Slots : Call(e, t) = c /\ Counting(job[e][t])
      BY <1>5, <2>2 DEF SomeoneCounts, Live
    <3>2. ~Counting(job[d][s])
      BY <1>1, <2>2 DEF Counting
    <3> QED BY <3>1, <3>2
  <2>3. CASE ~job[d][s].device /\ ~Empty(c)
    <3>1. roster[c].mapped = {} /\ Owner[d] \in roster[c].users
      BY <1>6, <2>3 DEF Empty, Listed
    <3>2. PICK e \in Devices, t \in Slots : Call(e, t) = c /\ Keeping(job[e][t])
      BY <3>1 DEF UsersForCause
    <3>3. Counting(job[e][t])
      BY <3>2 DEF Keeping, Counting
    <3>4. ~Counting(job[d][s])
      BY <1>1, <2>3 DEF Counting
    <3> QED BY <3>2, <3>3, <3>4
  <2> QED BY <2>1, <2>2, <2>3
<1>11. Followed(c) /\ tangled = {} => (UsersForCause(c) /\ SomeoneCounts(c))'
  BY <1>9, <1>10 DEF RInv, Stories
<1> QED BY <1>2, <1>3, <1>4, <1>5, <1>6, <1>7, <1>8, <1>11, StepStory

\* The leave is told just when the user was taken off.
LEMMA StoryAnnounceLeft ==
    ASSUME RInv, NEW d \in Devices, NEW s \in Slots, AnnounceLeft(d, s) PROVE Ordered' /\ Stories'
<1>1. job[d][s].step = "left"
  BY DEF AnnounceLeft, At
<1>2. PICK c \in Calls : Call(d, s) = c
  BY <1>1, AtWork
<1>3. /\ job[d][s] \in Job /\ Tidy(job[d][s]) /\ ~Free(d, s) /\ job[d][s].op # "finish"
      /\ Owner[d] \in Users /\ roster \in [Calls -> Rosters]
  BY <1>1, AtWork
<1> DEFINE stop == job[d][s].op = "close" /\ ~job[d][s].device
<1>4. PICK j : /\ Put(d, s, j) /\ Tidy(j) /\ (j = Idle \/ j.op # "finish")
               /\ IF stop THEN j.step = "idle" ELSE j.step = "count" /\ j.call = c
  <2>1. CASE stop
    <3>1. Idle.step = "idle" /\ Tidy(Idle)
      BY DEF Idle, New, Tidy
    <3> QED BY <2>1, <3>1 DEF AnnounceLeft
  <2>2. CASE ~stop
    <3> DEFINE k == [job[d][s] EXCEPT !.step = "count", !.device = FALSE, !.user = FALSE]
    <3>1. k.step = "count" /\ k.call = c /\ k.op # "finish"
      BY <1>2, <1>3 DEF Job, Call
    <3>2. Tidy(k)
      BY <3>1 DEF Tidy
    <3>3. Put(d, s, k)
      BY <2>2 DEF AnnounceLeft
    <3> HIDE DEF k
    <3> QED BY <2>2, <3>1, <3>2, <3>3
  <2> QED BY <2>1, <2>2
<1>5. UNCHANGED <<row, roster, revived, lapsed, tangled>>
  BY DEF AnnounceLeft, db
<1>6. /\ job[d][s].user /\ ~stop => announced'[c] = announced[c] \ {Owner[d]}
      /\ ~(job[d][s].user /\ ~stop) => announced'[c] = announced[c]
      /\ \A b \in Calls \ {c} : announced'[b] = announced[b]
  <2>1. announced \in [Calls -> SUBSET Users]
    BY Before DEF RInv, Data
  <2>2. announced' = IF job[d][s].user /\ ~stop
                     THEN [announced EXCEPT ![c] = @ \ {Owner[d]}] ELSE announced
    BY <1>2 DEF AnnounceLeft, Call
  <2> QED BY <2>1, <2>2
<1>7. Ordered'
  BY <1>3, <1>4, <1>5, ServeOrdered DEF RInv
<1>8. Here(d, c, job[d][s]) =>
         Fitting(d, j, d \in roster'[c].devices, d \in roster'[c].mapped,
                 Owner[d] \in roster'[c].users, Owner[d] \in announced'[c])
  BY <1>1, <1>4, <1>5, <1>6 DEF Here, Fitting, DeviceBetween, UserBetween, Between
<1>9. UsersForCause(c) => UsersForCause(c)'
  <2>1. ~Keeping(job[d][s])
    BY <1>1 DEF Keeping
  <2>2. d \in roster[c].mapped => \E e \in roster'[c].mapped : e \in Devices /\ Owner[e] = Owner[d]
    BY <1>5
  <2> QED BY <1>4, <1>5, <2>1, <2>2, Causes DEF RInv
<1>10. SomeoneCounts(c) => SomeoneCounts(c)'
  <2>1. Counting(job[d][s]) => Counting(j) /\ j.call = c
    BY <1>1, <1>4 DEF Counting
  <2>2. (Live(c) /\ Empty(c))' => Live(c) /\ Empty(c)
    BY <1>5 DEF Live, Empty, Listed
  <2> QED BY <1>4, <2>1, <2>2, CountsOn DEF RInv
<1>11. Followed(c) /\ tangled = {} => (UsersForCause(c) /\ SomeoneCounts(c))'
  BY <1>9, <1>10 DEF RInv, Stories
<1>12. j.step \notin Between
  BY <1>4 DEF Between
<1> QED BY <1>2, <1>3, <1>4, <1>5, <1>6, <1>7, <1>8, <1>11, <1>12, StepStory

\* The join is told just when the user was added.
LEMMA StoryAnswerJoin ==
    ASSUME RInv, NEW d \in Devices, NEW s \in Slots, AnswerJoin(d, s) PROVE Ordered' /\ Stories'
<1>1. job[d][s].step = "joined"
  BY DEF AnswerJoin, At
<1>2. PICK c \in Calls : Call(d, s) = c
  BY <1>1, AtWork
<1>3. /\ job[d][s] \in Job /\ Tidy(job[d][s]) /\ ~Free(d, s) /\ job[d][s].op # "finish"
      /\ Owner[d] \in Users /\ roster \in [Calls -> Rosters]
  BY <1>1, AtWork
<1>4. PICK j : Put(d, s, j) /\ Tidy(j) /\ j.step \in {"idle", "mark", "check", "load"}
  <2>1. Idle.step = "idle" /\ Tidy(Idle)
    BY DEF Idle, New, Tidy
  <2>2. \A b : New("activate", b, "mark").step = "mark" /\ Tidy(New("activate", b, "mark"))
    BY DEF New, Tidy
  <2>3. \/ Put(d, s, Idle) \/ \E b : Put(d, s, New("activate", b, "mark"))
        \/ \E b, kill : Put(d, s, Leave(b, kill))
        \/ Put(d, s, After(job[d][s]))
    BY DEF AnswerJoin
  <2> QED BY <2>1, <2>2, <2>3, LeaveTidy, AfterTidy
<1>5. UNCHANGED <<row, roster, revived, lapsed, tangled>>
  BY DEF AnswerJoin, db
<1>6. /\ job[d][s].user => announced'[c] = announced[c] \cup {Owner[d]}
      /\ ~job[d][s].user => announced'[c] = announced[c]
      /\ \A b \in Calls \ {c} : announced'[b] = announced[b]
  <2>1. announced \in [Calls -> SUBSET Users]
    BY Before DEF RInv, Data
  <2>2. announced' = IF job[d][s].user
                     THEN [announced EXCEPT ![c] = @ \cup {Owner[d]}] ELSE announced
    BY <1>2 DEF AnswerJoin, Call
  <2> QED BY <2>1, <2>2
<1>7. Ordered'
  BY <1>3, <1>4, <1>5, ServeOrdered DEF RInv
<1>8. Here(d, c, job[d][s]) =>
         Fitting(d, j, d \in roster'[c].devices, d \in roster'[c].mapped,
                 Owner[d] \in roster'[c].users, Owner[d] \in announced'[c])
  BY <1>1, <1>4, <1>5, <1>6 DEF Here, Fitting, DeviceBetween, UserBetween, Between
<1>9. UsersForCause(c) => UsersForCause(c)'
  <2>1. ~Keeping(job[d][s])
    BY <1>1 DEF Keeping
  <2>2. d \in roster[c].mapped => \E e \in roster'[c].mapped : e \in Devices /\ Owner[e] = Owner[d]
    BY <1>5
  <2> QED BY <1>4, <1>5, <2>1, <2>2, Causes DEF RInv
<1>10. SomeoneCounts(c) => SomeoneCounts(c)'
  <2>1. ~Counting(job[d][s])
    BY <1>1 DEF Counting
  <2>2. (Live(c) /\ Empty(c))' => Live(c) /\ Empty(c)
    BY <1>5 DEF Live, Empty, Listed
  <2> QED BY <1>4, <2>1, <2>2, CountsOn DEF RInv
<1>11. Followed(c) /\ tangled = {} => (UsersForCause(c) /\ SomeoneCounts(c))'
  BY <1>9, <1>10 DEF RInv, Stories
<1>12. j.step \notin Between
  BY <1>4 DEF Between
<1> QED BY <1>2, <1>3, <1>4, <1>5, <1>6, <1>7, <1>8, <1>11, <1>12, StepStory

LEMMA StoryServe ==
    ASSUME RInv, NEW d \in Devices, NEW s \in Slots, Serve(d, s) PROVE Ordered' /\ Stories'
BY StoryReserve, StoryInsert, StoryCheck, StoryAddUser, StoryAddDevice, StoryMapDevice,
   StoryAnswerJoin, StoryActivate, StoryUnlist, StoryUnmap, StoryLook, StoryRemoveUser,
   StoryAnnounceLeft, StoryCount, StoryEndIfLive, StoryLoad, StoryMarkEnded, StoryClear, StoryTell
   DEF Serve

-----------------------------------------------------------------------------
(* The panels and the sockets.                                              *)

Fresh(j) == Tidy(j) /\ j.step \notin Between \cup {"clear", "tell"}

\* The jobs a panel or a socket begins.
LEMMA FreshJobs ==
    /\ Fresh(Idle)
    /\ \A c : Fresh(Finish(c))
    /\ \A c, kill : Fresh(Leave(c, kill))
    /\ \A op, c, step : op # "finish" /\ step \in {"lock", "check"} => Fresh(New(op, c, step))
BY DEF Fresh, Tidy, Idle, Finish, Leave, New, Between

LEMMA AskedAnew ==
    ASSUME NEW j \in Job, NEW quit, NEW kill
    PROVE  SameJob(j, [j EXCEPT !.quit = quit, !.kill = kill])
BY DEF SameJob, Job

\* A panel or a socket begins jobs of its device and moves them to other slots.
LEMMA PanelStory ==
    ASSUME RInv, NEW d \in Devices, UNCHANGED <<row, roster, announced, revived, lapsed>>,
           \A e \in Devices \ {d} : job'[e] = job[e],
           tangled' = tangled \/ tangled' = tangled \cup {d},
           \A s \in Slots : Fresh(job'[d][s]) \/ \E t \in Slots : SameJob(job[d][t], job'[d][s]),
           \A s \in Slots : ~Free(d, s) => \E t \in Slots : SameJob(job[d][s], job'[d][t]),
           d \notin tangled' =>
              \A s, t \in Slots : ~Free(d, s)' /\ ~Free(d, t)' /\ s # t =>
                 {s, t} = {"request", "late"} /\ job'[d]["request"].op = "finish"
    PROVE  Ordered' /\ Stories'
<1>1. \A c : Followed(c)' <=> Followed(c)
  BY DEF Followed
<1>2. \A e \in Devices, s \in Slots :
         Fresh(job'[e][s]) \/ \E t \in Slots : SameJob(job[e][t], job'[e][s])
  BY DEF SameJob
<1>3. \A e \in Devices, s \in Slots :
         ~Free(e, s) => \E t \in Slots : SameJob(job[e][s], job'[e][t])
  BY DEF SameJob
<1>4. OneJob'
  <2> SUFFICES ASSUME NEW e \in Devices, e \notin tangled', NEW s \in Slots, NEW t \in Slots,
                      ~Free(e, s)', ~Free(e, t)', s # t
               PROVE  {s, t} = {"request", "late"} /\ job'[e]["request"].op = "finish"
    BY DEF OneJob
  <2>1. CASE e = d
    BY <2>1
  <2>2. CASE e # d
    <3>1. job'[e] = job[e] /\ e \notin tangled
      BY <2>2
    <3>2. ~Free(e, s) /\ ~Free(e, t)
      BY <3>1 DEF Free
    <3>3. {s, t} = {"request", "late"} /\ job[e]["request"].op = "finish"
      BY <3>1, <3>2 DEF RInv, Ordered, OneJob
    <3> QED BY <3>1, <3>3
  <2> QED BY <2>1, <2>2
<1>5. Orderly'
  <2> SUFFICES ASSUME NEW e \in Devices, NEW s \in Slots PROVE Tidy(job'[e][s])
    BY DEF Orderly
  <2>1. CASE Fresh(job'[e][s])
    BY <2>1 DEF Fresh
  <2>2. CASE ~Fresh(job'[e][s])
    <3>1. PICK t \in Slots : SameJob(job[e][t], job'[e][s])
      BY <1>2, <2>2
    <3>2. Tidy(job[e][t])
      BY DEF RInv, Ordered, Orderly
    <3> QED BY <3>1, <3>2 DEF SameJob, Tidy
  <2> QED BY <2>1, <2>2
<1>6. Cleared'
  <2> SUFFICES ASSUME NEW e \in Devices, NEW s \in Slots, job'[e][s].step \in {"clear", "tell"}
               PROVE  row[job'[e][s].call] = "ended" \/ job'[e][s].call \in revived
    BY DEF Cleared, Call
  <2>1. PICK t \in Slots : SameJob(job[e][t], job'[e][s])
    BY <1>2 DEF Fresh
  <2> QED BY <2>1 DEF RInv, Ordered, Cleared, Call, SameJob
<1>7. \A e \in Devices, s \in Slots : job'[e][s].step \in Between =>
         \E t \in Slots : SameJob(job[e][t], job'[e][s])
  BY <1>2 DEF Fresh
<1>8. \A c \in Calls, e \in Devices, s \in Slots :
         Followed(c)' /\ Call(e, s) = c /\ job[e][s].step \in Between =>
            \E t \in Slots : SameJob(job[e][s], job'[e][t])
  BY <1>3 DEF Between, Free, Idle, New
<1>9. ASSUME NEW c \in Calls, SomeoneCounts(c) PROVE SomeoneCounts(c)'
  <2> SUFFICES ASSUME (Live(c) /\ Empty(c))'
               PROVE  \E e \in Devices, s \in Slots : job'[e][s].call = c /\ Counting(job'[e][s])
    BY DEF SomeoneCounts, Call
  <2>1. Live(c) /\ Empty(c)
    BY DEF Live, Empty, Listed
  <2>2. PICK e \in Devices, s \in Slots : Call(e, s) = c /\ Counting(job[e][s])
    BY <1>9, <2>1 DEF SomeoneCounts
  <2>3. ~Free(e, s)
    BY <2>2 DEF Free, Idle, New, Counting
  <2>4. PICK t \in Slots : SameJob(job[e][s], job'[e][t])
    BY <1>3, <2>3
  <2> QED BY <2>2, <2>4 DEF SameJob, Call, Counting
<1>10. tangled \subseteq tangled'
  OBVIOUS
<1>11. Stories'
  BY <1>1, <1>7, <1>8, <1>9, <1>10, QuietStories DEF RInv
<1> QED BY <1>4, <1>5, <1>6, <1>11 DEF Ordered

\* A request begins in its slot.
LEMMA StoryBegin ==
    ASSUME RInv, NEW d \in Devices, NEW j, Begin(d, j), Fresh(j),
           UNCHANGED <<row, roster, announced, revived, lapsed>>
    PROVE  Ordered' /\ Stories'
<1>1. /\ job'[d]["request"] = j
      /\ \A t \in Slots \ {"request"} : job'[d][t] = job[d][t]
      /\ \A e \in Devices \ {d} : job'[e] = job[e]
  BY TypeParts, RequestSlot DEF RInv, IInv, Begin, Put, Jobs
<1>2. \A t \in Slots : ~Free(d, t) => t # "request"
  BY DEF Begin
<1>3. /\ tangled' = tangled \/ tangled' = tangled \cup {d}
      /\ d \notin tangled' => \A t \in Slots \ {"request"} : Free(d, t)
  BY DEF Begin, Tangle
<1>4. d \notin tangled' => \A t \in Slots \ {"request"} : Free(d, t)'
  BY <1>1, <1>3 DEF Free
<1> QED BY <1>1, <1>2, <1>3, <1>4, PanelStory DEF SameJob

\* No job begins and no roster changes.
LEMMA StoryStill ==
    ASSUME RInv, UNCHANGED <<row, roster, announced, revived, lapsed, job, tangled>>
    PROVE  Ordered' /\ Stories'
<1>1. Ordered'
  BY DEF RInv, Ordered, OneJob, Orderly, Cleared, Free, Call
<1>2. \A c : Followed(c)' <=> Followed(c)
  BY DEF Followed
<1>3. \A c \in Calls : SomeoneCounts(c) => SomeoneCounts(c)'
  BY DEF SomeoneCounts, Live, Empty, Listed, Call
<1>4. Stories'
  BY <1>2, <1>3, QuietStories DEF RInv, SameJob
<1> QED BY <1>1, <1>4

\* A panel closes: what it still waits for goes on as late.
LEMMA StoryWithdraw ==
    ASSUME RInv, NEW d \in Devices, NEW heard \in BOOLEAN, Withdraw(d, heard),
           UNCHANGED <<row, roster, announced, revived, lapsed>>
    PROVE  Ordered' /\ Stories'
<1> DEFINE r == job[d]["request"]
           next == IF ~heard /\ (Joined(d) \/ r.op = "activate") THEN Leave(client[d].call, FALSE)
                   ELSE IF client[d].phase = "known" /\ r = Idle /\ client[d].mine
                     THEN Finish(client[d].call) ELSE Idle
<1>1. PICK n : n = next
  OBVIOUS
<1>2. Fresh(n)
  BY <1>1, FreshJobs
<1>3. job \in Jobs
  BY TypeParts DEF RInv, IInv
<1>4. CASE r = Idle
  <2>1. Put(d, "request", n) /\ (IF n = Idle THEN UNCHANGED tangled ELSE Tangle(d, "request"))
    BY <1>1, <1>4 DEF Withdraw
  <2>2. CASE n = Idle
    <3>1. job' = job /\ tangled' = tangled
      BY <1>3, <1>4, <2>1, <2>2, RequestSlot DEF Put, Jobs
    <3> QED BY <3>1, StoryStill
  <2>3. CASE n # Idle
    BY <1>2, <1>4, <2>1, <2>3, StoryBegin DEF Begin, Free
  <2> QED BY <2>2, <2>3
<1>5. CASE r # Idle
  <2> DEFINE q == [r EXCEPT !.quit = ~Joined(d), !.kill = @ \/ client[d].mine]
  <2>1. r \in Job
    BY <1>3, RequestSlot DEF Jobs
  <2>2. PICK k : k = q /\ SameJob(r, k)
    BY <2>1, AskedAnew
  <2>3. /\ Free(d, "late") /\ job' = [job EXCEPT ![d]["request"] = n, ![d]["late"] = k]
        /\ tangled' = IF n = Idle THEN tangled ELSE tangled \cup {d}
    BY <1>1, <1>5, <2>2 DEF Withdraw
  <2>4. /\ job'[d]["request"] = n /\ job'[d]["late"] = k /\ job'[d]["close"] = job[d]["close"]
        /\ \A e \in Devices \ {d} : job'[e] = job[e]
    BY <1>3, <2>3, RequestSlot DEF Jobs
  <2>5. \A s \in Slots : s \in {"request", "late", "close"}
    BY DEF Slots
  <2>6. d \notin tangled' => Free(d, "close")
    <3>1. d \notin tangled' => d \notin tangled
      BY <2>3
    <3> QED BY <1>5, <3>1, RequestSlot DEF RInv, Ordered, OneJob, Free
  <2>7. \A s \in Slots : ~Free(d, s) => \E t \in Slots : SameJob(job[d][s], job'[d][t])
    <3>1. SameJob(job[d]["request"], job'[d]["late"])
      BY <2>2, <2>4
    <3>2. SameJob(job[d]["close"], job'[d]["close"])
      BY <2>4 DEF SameJob
    <3> QED BY <2>3, <2>5, <3>1, <3>2, RequestSlot
  <2>8. \A s \in Slots : Fresh(job'[d][s]) \/ \E t \in Slots : SameJob(job[d][t], job'[d][s])
    <3>1. SameJob(job[d]["request"], job'[d]["late"])
      BY <2>2, <2>4
    <3>2. SameJob(job[d]["close"], job'[d]["close"])
      BY <2>4 DEF SameJob
    <3>3. Fresh(job'[d]["request"])
      BY <1>2, <2>4
    <3> QED BY <2>5, <3>1, <3>2, <3>3, RequestSlot
  <2>9. d \notin tangled' => Free(d, "request")' /\ Free(d, "close")'
    BY <2>3, <2>4, <2>6 DEF Free
  <2>10. d \notin tangled' => \A s, t \in Slots : ~Free(d, s)' /\ ~Free(d, t)' => s = t
    BY <2>5, <2>9
  <2>11. tangled' = tangled \/ tangled' = tangled \cup {d}
    BY <2>3
  <2> HIDE DEF r, next
  <2> QED BY <2>4, <2>7, <2>8, <2>10, <2>11, PanelStory
<1> QED BY <1>4, <1>5

\* A request timed out goes on as late, next to the end of the call at most.
LEMMA StoryGiveUp ==
    ASSUME RInv, NEW d \in Devices, GiveUp(d) PROVE Ordered' /\ Stories'
<1>1. job \in Jobs /\ job[d]["request"].op \in {"create", "join"}
  BY TypeParts DEF RInv, IInv, GiveUp
<1>2. PICK n : (n = Idle \/ n.op = "finish") /\ Fresh(n)
               /\ job' = [job EXCEPT ![d]["late"] = job[d]["request"], ![d]["request"] = n]
  <2>1. \A c : Finish(c).op = "finish"
    BY DEF Finish, New
  <2> QED BY <2>1, FreshJobs DEF GiveUp
<1>3. UNCHANGED <<row, roster, announced, revived, lapsed, tangled>> /\ Free(d, "late")
  BY DEF GiveUp, history, past, db
<1>4. /\ job'[d]["request"] = n /\ job'[d]["late"] = job[d]["request"]
      /\ job'[d]["close"] = job[d]["close"]
      /\ \A e \in Devices \ {d} : job'[e] = job[e]
  BY <1>1, <1>2, RequestSlot DEF Jobs
<1>5. \A s \in Slots : s \in {"request", "late", "close"}
  BY DEF Slots
<1>6. SameJob(job[d]["request"], job'[d]["late"]) /\ SameJob(job[d]["close"], job'[d]["close"])
  BY <1>4 DEF SameJob
<1>7. \A s \in Slots : ~Free(d, s) => \E t \in Slots : SameJob(job[d][s], job'[d][t])
  BY <1>3, <1>5, <1>6, RequestSlot
<1>8. \A s \in Slots : Fresh(job'[d][s]) \/ \E t \in Slots : SameJob(job[d][t], job'[d][s])
  <2>1. Fresh(job'[d]["request"])
    BY <1>2, <1>4
  <2> QED BY <1>5, <1>6, <2>1, RequestSlot
<1>9. ASSUME d \notin tangled, NEW s \in Slots, NEW t \in Slots, ~Free(d, s)', ~Free(d, t)', s # t
      PROVE  {s, t} = {"request", "late"} /\ job'[d]["request"].op = "finish"
  <2>1. ~Free(d, "request")
    BY <1>1 DEF Free, Idle, New
  <2>2. Free(d, "close")
    BY <1>9, <2>1, RequestSlot DEF RInv, Ordered, OneJob
  <2>3. Free(d, "close")'
    BY <1>4, <2>2 DEF Free
  <2>4. {s, t} = {"request", "late"}
    BY <1>5, <1>9, <2>3
  <2>5. ~Free(d, "request")'
    BY <1>9, <2>4
  <2> QED BY <1>2, <1>4, <2>4, <2>5 DEF Free
<1> QED BY <1>3, <1>4, <1>7, <1>8, <1>9, PanelStory

\* A socket closes: its leave begins, in a slot of its own.
LEMMA StoryDrop ==
    ASSUME RInv, NEW d \in Devices, NEW alive \in BOOLEAN, Drop(d, alive) PROVE Ordered' /\ Stories'
<1> DEFINE r == job[d]["request"]
           none == client[d].room = NoCall
<1>1. job \in Jobs /\ r \in Job
  BY TypeParts, RequestSlot DEF RInv, IInv, Jobs
<1>2. /\ UNCHANGED <<row, roster, announced, revived, lapsed>> /\ Free(d, "close")
      /\ ~alive /\ r # Idle => Free(d, "late")
  BY DEF Drop, past, db
<1>3. PICK n : /\ n = IF none THEN Idle ELSE New("close", client[d].room, "check")
               /\ Fresh(n)
  BY FreshJobs
<1>4. PICK k : k = [r EXCEPT !.quit = FALSE, !.kill = FALSE] /\ SameJob(r, k)
  BY <1>1, AskedAnew
<1>5. job' = [job EXCEPT ![d]["close"] = n, ![d]["request"] = IF alive THEN @ ELSE Idle,
                         ![d]["late"] = IF alive \/ r = Idle THEN @ ELSE k]
  BY <1>3, <1>4 DEF Drop
<1>6. tangled' = IF ~none /\ (r # Idle \/ ~Free(d, "late")) THEN tangled \cup {d} ELSE tangled
  BY DEF Drop
<1>7. /\ job'[d]["close"] = n
      /\ job'[d]["request"] = IF alive THEN job[d]["request"] ELSE Idle
      /\ job'[d]["late"] = IF alive \/ r = Idle THEN job[d]["late"] ELSE k
      /\ \A e \in Devices \ {d} : job'[e] = job[e]
  BY <1>1, <1>5, RequestSlot DEF Jobs
<1>8. \A s \in Slots : s \in {"request", "late", "close"}
  BY DEF Slots
<1>9. \A j : SameJob(j, j)
  BY DEF SameJob
<1>10. \A s \in Slots : ~Free(d, s) => \E t \in Slots : SameJob(job[d][s], job'[d][t])
  <2>1. ~Free(d, "request") => \E t \in Slots : SameJob(job[d]["request"], job'[d][t])
    BY <1>4, <1>7, <1>9, RequestSlot DEF Free
  <2>2. ~Free(d, "late") => SameJob(job[d]["late"], job'[d]["late"])
    BY <1>2, <1>7, <1>9
  <2> QED BY <1>2, <1>8, <2>1, <2>2, RequestSlot
<1>11. \A s \in Slots : Fresh(job'[d][s]) \/ \E t \in Slots : SameJob(job[d][t], job'[d][s])
  <2>1. Fresh(job'[d]["close"])
    BY <1>3, <1>7
  <2>2. Fresh(job'[d]["request"]) \/ SameJob(job[d]["request"], job'[d]["request"])
    BY <1>7, <1>9, FreshJobs
  <2>3. SameJob(job[d]["late"], job'[d]["late"]) \/ SameJob(job[d]["request"], job'[d]["late"])
    BY <1>4, <1>7, <1>9
  <2> QED BY <1>8, <2>1, <2>2, <2>3, RequestSlot
<1>12. ASSUME d \notin tangled', NEW s \in Slots, NEW t \in Slots, ~Free(d, s)', ~Free(d, t)', s # t
       PROVE  {s, t} = {"request", "late"} /\ job'[d]["request"].op = "finish"
  <2>1. d \notin tangled
    BY <1>6, <1>12
  <2>2. CASE none
    <3>1. Free(d, "close")'
      BY <1>3, <1>7, <2>2 DEF Free
    <3>2. {s, t} = {"request", "late"} /\ ~Free(d, "request")'
      BY <1>8, <1>12, <3>1
    <3>3. alive
      BY <1>7, <3>2 DEF Free
    <3>4. job'[d]["request"] = job[d]["request"] /\ job'[d]["late"] = job[d]["late"]
      BY <1>7, <3>3
    <3>5. ~Free(d, "request") /\ ~Free(d, "late")
      BY <1>12, <3>2, <3>4 DEF Free
    <3> QED BY <2>1, <3>2, <3>4, <3>5, RequestSlot DEF RInv, Ordered, OneJob
  <2>3. CASE ~none
    <3>1. r = Idle /\ Free(d, "late")
      BY <1>6, <1>12, <2>3
    <3>2. Free(d, "request")' /\ Free(d, "late")'
      BY <1>7, <3>1 DEF Free
    <3> QED BY <1>8, <1>12, <3>2
  <2> QED BY <2>2, <2>3
<1>13. tangled' = tangled \/ tangled' = tangled \cup {d}
  BY <1>6
<1> HIDE DEF r, none
<1> QED BY <1>2, <1>7, <1>10, <1>11, <1>12, <1>13, PanelStory

-----------------------------------------------------------------------------
(* The invariant, and the two properties.                                   *)

\* A roster that ran out is followed no more.
LEMMA StoryLapse ==
    ASSUME RInv, NEW b \in Calls, Lapse(b) PROVE Ordered' /\ Stories'
<1>1. UNCHANGED <<row, announced, revived, job, tangled>> /\ lapsed' = lapsed \cup {b}
  BY DEF Lapse, db
<1>2. \A c \in Calls : c # b => roster'[c] = roster[c]
  BY Before DEF RInv, IInv, TypeOK, Lapse
<1>3. Ordered'
  BY <1>1 DEF RInv, Ordered, OneJob, Orderly, Cleared, Free, Call
<1>4. \A c \in Calls : Followed(c)' => Followed(c) /\ roster'[c] = roster[c]
  BY <1>1, <1>2 DEF Followed
<1>5. \A c \in Calls : Followed(c)' /\ SomeoneCounts(c) => SomeoneCounts(c)'
  BY <1>1, <1>4 DEF SomeoneCounts, Live, Empty, Listed, Call
<1>6. Stories'
  BY <1>1, <1>4, <1>5, QuietStories DEF RInv, SameJob
<1> QED BY <1>3, <1>6

\* Nothing runs and no roster is there at first.
LEMMA StoryInit == Init => Ordered /\ Stories
<1> SUFFICES ASSUME Init PROVE Ordered /\ Stories
  OBVIOUS
<1>1. \A d \in Devices, s \in Slots : Free(d, s)
  BY DEF Init, Free
<1>2. \A d \in Devices, s \in Slots : Tidy(job[d][s]) /\ job[d][s].step = "idle"
  BY <1>1 DEF Free, Idle, New, Tidy
<1>3. Ordered
  BY <1>1, <1>2 DEF Ordered, OneJob, Orderly, Cleared
<1>4. \A c \in Calls : /\ roster[c].users = {} /\ roster[c].devices = {} /\ roster[c].mapped = {}
                       /\ announced[c] = {} /\ ~Live(c)
  BY DEF Init, NoRoster, Live
<1>5. \A d \in Devices, s \in Slots :
         /\ \A in, on : DeviceBetween(job[d][s], in, on)
         /\ \A in, listed, told : UserBetween(job[d][s], in, listed, told)
  BY <1>2 DEF DeviceBetween, UserBetween
<1>6. Stories
  BY <1>4, <1>5 DEF Stories, DeviceStory, UserStory, UsersForCause, SomeoneCounts
<1> QED BY <1>3, <1>6

\* Every step of the server, of a panel and of the network keeps it.
LEMMA StoryNext ==
    ASSUME RInv, [Next]_vars PROVE Ordered' /\ Stories'
<1>1. ASSUME NEW d \in Devices, NEW s \in Slots, Serve(d, s) PROVE Ordered' /\ Stories'
  BY <1>1, StoryServe
<1>2. ASSUME NEW d \in Devices, Panel(d) PROVE Ordered' /\ Stories'
  <2>1. CASE Open(d) \/ Join(d) \/ Rejoin(d) \/ EndForEveryone(d)
    <3>1. UNCHANGED <<row, roster, announced, revived, lapsed>>
      BY <2>1 DEF Open, Join, Rejoin, EndForEveryone, db, past
    <3>2. PICK j : Begin(d, j) /\ Fresh(j)
      BY <2>1, FreshJobs DEF Open, Join, Rejoin, EndForEveryone
    <3> QED BY <3>1, <3>2, StoryBegin
  <2>2. CASE Find(d) \/ Attach(d)
    <3>1. UNCHANGED <<row, roster, announced, revived, lapsed, job, tangled>>
      BY <2>2 DEF Find, Attach, db, history, past
    <3> QED BY <3>1, StoryStill
  <2>3. CASE Close(d)
    <3>1. UNCHANGED <<row, roster, announced, revived, lapsed>> /\ Withdraw(d, FALSE)
      BY <2>3 DEF Close, db, past
    <3> QED BY <3>1, StoryWithdraw
  <2> QED BY <1>2, <2>1, <2>2, <2>3 DEF Panel
<1>3. ASSUME NEW d \in Devices, Hear(d) PROVE Ordered' /\ Stories'
  <2>1. UNCHANGED <<row, roster, announced, revived, lapsed>>
    BY <1>3 DEF Hear, db, past
  <2>2. Withdraw(d, TRUE) \/ UNCHANGED <<job, tangled>>
    BY <1>3 DEF Hear
  <2> QED BY <2>1, <2>2, StoryWithdraw, StoryStill
<1>4. ASSUME UNCHANGED vars PROVE Ordered' /\ Stories'
  <2>1. UNCHANGED <<row, roster, announced, revived, lapsed, job, tangled>>
    BY <1>4 DEF vars, db, history, past
  <2> QED BY <2>1, StoryStill
<1> QED BY <1>1, <1>2, <1>3, <1>4, StoryGiveUp, StoryDrop, StoryLapse DEF Next

\* For any devices, users and calls, whatever is lost, given up or tangled: what each job
\* has made of its device and user is what its step says it has, as long as the call
\* is neither revived nor lapsed.
THEOREM RosterInvariant == Spec => []RInv
<1>1. Init => RInv
  BY InvInit, StoryInit DEF RInv
<1>2. RInv /\ [Next]_vars => RInv'
  <2>1. RInv /\ [Next]_vars => IInv'
    BY InvStep DEF RInv
  <2> QED BY <2>1, StoryNext DEF RInv
<1> QED BY <1>1, <1>2, PTL DEF Spec

\* Any number of members leaving at once: one of them sees the roster empty and ends the
\* call.  A user is on the roster for a device that is or is about to be, or about to
\* take the user off, so whoever empties it has its count still to come.
THEOREM LastOutEnds == Spec => []LastOneOutEnds
<1>1. RInv => LastOneOutEnds
  <2> SUFFICES ASSUME RInv, NEW c \in Calls, Live(c), Quiet(c), Empty(c),
                      c \notin revived \cup lapsed, tangled = {}
               PROVE  FALSE
    BY DEF LastOneOutEnds
  <2>1. Followed(c)
    BY DEF Followed, Live
  <2> QED BY <2>1 DEF RInv, Stories, SomeoneCounts, Quiet
<1> QED BY <1>1, RosterInvariant, PTL

\* For any members, joins, leaves and closings: the three keys and the events agree on a
\* user with one device whenever no job works on the call and no two jobs of the device
\* ran at a time.
THEOREM WholeRoster == Spec => []RosterIsWhole
<1>1. RInv => RosterIsWhole
  <2> SUFFICES ASSUME RInv, NEW c \in LiveCalls \ (revived \cup lapsed),
                      NEW d \in Devices \ tangled, Quiet(c), Alone(d)
               PROVE  LET in == d \in roster[c].devices
                      IN  /\ in <=> d \in roster[c].mapped
                          /\ in <=> Owner[d] \in roster[c].users
                          /\ in <=> Owner[d] \in announced[c]
    BY DEF RosterIsWhole, Alone
  <2>1. c \in Calls /\ Followed(c)
    BY DEF Followed, Live, LiveCalls
  <2>2. DeviceStory(d, c) /\ UserStory(d, c)
    BY <2>1 DEF RInv, Stories
  <2> QED BY <2>2 DEF DeviceStory, UserStory, Quiet
<1> QED BY <1>1, RosterInvariant, PTL

=============================================================================
