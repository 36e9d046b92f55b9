------------------------------ MODULE GroupCall ------------------------------
(***************************************************************************)
(* The calls of one group on the server: the rows of call_sessions, the    *)
(* roster of a call (three Redis keys that only a heartbeat keeps alive),  *)
(* the requests and socket closings that work on both one command at a     *)
(* time, and the devices that open, join, leave, end and lose a call.      *)
(***************************************************************************)
EXTENDS Naturals, FiniteSets

CONSTANTS
    Devices, Users,
    Owner,          \* the user of each device; all are members of the group
    Calls,          \* bound: the rows that can be inserted
    NoCall, NoUser,
    MaxOpenings,    \* bound: times a panel is opened
    MaxRejoins,     \* bound: SFU transports lost
    MaxLosses       \* bound: sockets lost, clients crashed,
                    \* requests timed out or no longer waited for

ASSUME GroupCallAssumption ==
    /\ Owner \in [Devices -> Users]
    /\ NoCall \notin Calls /\ NoUser \notin Users
    /\ MaxOpenings \in Nat /\ MaxRejoins \in Nat /\ MaxLosses \in Nat

VARIABLES
    row,        \* call_sessions.status of a call; "none" before the insert
    caller,     \* call_sessions.caller_user_id
    roster,     \* its keys: the users, the devices, the devices with a known user
    lock,       \* the group's advisory lock is held
    job,        \* what runs on the server for a device
    client,     \* the device's call panel and its current socket
    inbox,      \* group.call.ended events on their way to a panel of that call
    openings, rejoins, losses,
    announced,  \* history: users by the last participant_joined or _left
    revived,    \* history: calls set active after they had ended
    lapsed,     \* history: calls whose roster ran out
    tangled     \* history: devices with two requests or closings at a time

db      == <<row, caller, lock>>
budget  == <<openings, rejoins, losses>>
past    == <<announced, revived, lapsed>>
history == <<past, tangled>>
vars == <<db, roster, job, client, inbox, budget, history>>

Status == {"none", "ringing", "active", "ended"}
Slots == {"request", "late", "close"}

Ops == {"none", "create", "join", "activate", "leave", "finish", "close"}
Steps == {"idle", "lock", "insert", "check", "user", "device", "map", "joined", "mark",
          "unlist", "unmap", "look", "unuser", "left", "count", "end", "load",
          "clear", "tell"}
Job ==
    [op : Ops, call : Calls \cup {NoCall}, step : Steps,
     seen : Status,      \* the status the handler loaded
     device : BOOLEAN,   \* deviceRemoved
     user : BOOLEAN,     \* userAdded, userRemoved
     quit : BOOLEAN,     \* the panel is closed: leave once the answer is there
     kill : BOOLEAN]     \* this panel created the call: end it once left

New(op, c, step) ==
    [op |-> op, call |-> c, step |-> step, seen |-> "none", device |-> FALSE,
     user |-> FALSE, quit |-> FALSE, kill |-> FALSE]
Idle == New("none", NoCall, "idle")
Away == [phase |-> "out", call |-> NoCall, mine |-> FALSE, room |-> NoCall]
NoRoster == [users |-> {}, devices |-> {}, mapped |-> {}]

TypeOK ==
    /\ row \in [Calls -> Status]
    /\ caller \in [Calls -> Users \cup {NoUser}]
    /\ \A c \in Calls : caller[c] = NoUser <=> row[c] = "none"
    /\ roster \in [Calls -> [users : SUBSET Users, devices : SUBSET Devices,
                             mapped : SUBSET Devices]]
    /\ lock \in BOOLEAN
    /\ job \in [Devices -> [Slots -> Job]]
    /\ client \in [Devices -> [phase : {"out", "opening", "known", "ready", "in"},
                               call : Calls \cup {NoCall}, mine : BOOLEAN,
                               room : Calls \cup {NoCall}]]
    /\ inbox \in [Devices -> SUBSET Calls]
    /\ openings \in Nat /\ rejoins \in Nat /\ losses \in Nat
    /\ announced \in [Calls -> SUBSET Users]
    /\ revived \subseteq Calls /\ lapsed \subseteq Calls
    /\ tangled \subseteq Devices

Init ==
    /\ row = [c \in Calls |-> "none"]
    /\ caller = [c \in Calls |-> NoUser]
    /\ roster = [c \in Calls |-> NoRoster]
    /\ lock = FALSE
    /\ job = [d \in Devices |-> [s \in Slots |-> Idle]]
    /\ client = [d \in Devices |-> Away]
    /\ inbox = [d \in Devices |-> {}]
    /\ openings = 0 /\ rejoins = 0 /\ losses = 0
    /\ announced = [c \in Calls |-> {}]
    /\ revived = {} /\ lapsed = {} /\ tangled = {}

Live(c) == row[c] \in {"ringing", "active"}
LiveCalls == {c \in Calls : Live(c)}
\* ORDER BY of the two queries for the group's call: an active one first
Foremost ==
    LET active == {c \in LiveCalls : row[c] = "active"}
    IN  IF active # {} THEN active ELSE LiveCalls

Joined(d) == client[d].phase \in {"ready", "in"}
Free(d, s) == job[d][s] = Idle
Call(d, s) == job[d][s].call
At(d, s, step) == job[d][s].step = step
Put(d, s, j) == job' = [job EXCEPT ![d][s] = j]
Show(d, p) == client' = [client EXCEPT ![d] = p]
Goto(d, s, step) == Put(d, s, [job[d][s] EXCEPT !.step = step])

UsersOf(D) == {Owner[d] : d \in D}
\* listGroupCallParticipants: the users of the mapped devices, else the user set
Listed(c) ==
    IF roster[c].mapped # {} THEN UsersOf(roster[c].mapped) ELSE roster[c].users

Finish(c) == New("finish", c, "load")
Leave(c, kill) == [New("leave", c, "check") EXCEPT !.kill = kill]
\* what the panel does once its call is left
After(j) == IF j.kill THEN Finish(j.call) ELSE Idle

\* A job begins in slot s: two at a time tangle the device.
Tangle(d, s) ==
    tangled' = IF \A t \in Slots \ {s} : Free(d, t) THEN tangled ELSE tangled \cup {d}

-----------------------------------------------------------------------------
(* The panel: runGroupCallBootstrap, runSfuRejoinAttempt, leaving, ending.  *)

Start == openings < MaxOpenings /\ openings' = openings + 1
Lose == losses < MaxLosses /\ losses' = losses + 1

Begin(d, j) == Free(d, "request") /\ Put(d, "request", j) /\ Tangle(d, "request")

\* No active call was found: POST /calls
Open(d) ==
    /\ client[d].phase = "out" /\ LiveCalls = {} /\ Start
    /\ Begin(d, New("create", NoCall, "lock"))
    /\ Show(d, [client[d] EXCEPT !.phase = "opening"])
    /\ UNCHANGED <<db, roster, inbox, rejoins, losses, past>>

\* getActiveGroupCall has found one
Find(d) ==
    /\ client[d].phase = "out" /\ Free(d, "request") /\ Start
    /\ \E c \in Foremost :
         Show(d, [client[d] EXCEPT !.phase = "known", !.call = c])
    /\ UNCHANGED <<db, roster, job, inbox, rejoins, losses, history>>

\* POST /calls/:callId/participants, after the microphone was granted
Join(d) ==
    /\ client[d].phase = "known"
    /\ Begin(d, New("join", client[d].call, "check"))
    /\ UNCHANGED <<db, roster, client, inbox, budget, past>>

\* The SFU client is up and has sent room.join
Attach(d) ==
    /\ client[d].phase = "ready"
    /\ Show(d, [client[d] EXCEPT !.phase = "in",
                                 !.room = IF Live(client[d].call) THEN client[d].call
                                          ELSE @])
    /\ UNCHANGED <<db, roster, job, inbox, budget, history>>

\* An SFU transport failed: room.leave, then the call is joined again
Rejoin(d) ==
    /\ client[d].phase = "in"
    /\ rejoins < MaxRejoins /\ rejoins' = rejoins + 1
    /\ Begin(d, New("join", client[d].call, "check"))
    /\ Show(d, [client[d] EXCEPT !.room = NoCall])
    /\ UNCHANGED <<db, roster, inbox, openings, losses, past>>

\* The panel closes: by its user, or because the call's end was heard.  A run
\* that is still starting goes on until its answer and undoes itself then.
Withdraw(d, heard) ==
    LET r == job[d]["request"]
        c == client[d].call
        next == IF ~heard /\ (Joined(d) \/ r.op = "activate") THEN Leave(c, FALSE)
                ELSE IF client[d].phase = "known" /\ r = Idle /\ client[d].mine
                  THEN Finish(c) ELSE Idle
    IN  /\ r.op \in {"none", "create", "join", "activate"}
        /\ Show(d, Away)
        /\ \/ /\ r = Idle
              /\ Put(d, "request", next)
              /\ IF next = Idle THEN UNCHANGED tangled ELSE Tangle(d, "request")
           \/ /\ r # Idle /\ Free(d, "late")
              /\ job' = [job EXCEPT ![d]["request"] = next,
                           ![d]["late"] = [r EXCEPT !.quit = ~Joined(d),
                                                    !.kill = @ \/ client[d].mine]]
              /\ tangled' = IF next = Idle THEN tangled ELSE tangled \cup {d}

Close(d) ==
    /\ client[d].phase # "out"
    /\ Withdraw(d, FALSE)
    /\ IF Free(d, "request") THEN UNCHANGED losses ELSE Lose
    /\ UNCHANGED <<db, roster, inbox, openings, rejoins, past>>

\* group.call.ended
Hear(d) ==
    \E c \in inbox[d] :
      /\ inbox' = [inbox EXCEPT ![d] = @ \ {c}]
      /\ IF client[d].call = c THEN Withdraw(d, TRUE)
         ELSE UNCHANGED <<job, client, tangled>>
      /\ UNCHANGED <<db, roster, budget, past>>

\* The host ends the call for everyone
EndForEveryone(d) ==
    /\ Joined(d) /\ caller[client[d].call] = Owner[d]
    /\ Begin(d, Finish(client[d].call))
    /\ Show(d, Away)
    /\ UNCHANGED <<db, roster, inbox, budget, past>>

-----------------------------------------------------------------------------
(* What the network and the devices do to it, within MaxLosses.             *)

\* GROUP_CALL_SETUP_TIMEOUTS.apiCallMs: the panel tries anew, the request goes on
GiveUp(d) ==
    LET r == job[d]["request"]
    IN  /\ Lose /\ r.op \in {"create", "join"} /\ Free(d, "late")
        /\ job' = [job EXCEPT ![d]["late"] = r,
                     ![d]["request"] = IF ~Joined(d) /\ client[d].mine
                                       THEN Finish(client[d].call) ELSE Idle]
        /\ Show(d, IF Joined(d) THEN client[d] ELSE Away)
        /\ UNCHANGED <<db, roster, inbox, openings, rejoins, history>>

\* The socket closes, with or without the client behind it.  The socket that
\* takes its place has joined no room; what was sent meanwhile is lost.
Drop(d, alive) ==
    LET r == job[d]["request"]
    IN  /\ Lose /\ client[d].phase # "out" /\ Free(d, "close")
        /\ ~alive /\ r # Idle => Free(d, "late")
        /\ job' = [job EXCEPT
              ![d]["close"] = IF client[d].room = NoCall THEN Idle
                              ELSE New("close", client[d].room, "check"),
              ![d]["request"] = IF alive THEN @ ELSE Idle,
              ![d]["late"] = IF alive \/ r = Idle THEN @
                             ELSE [r EXCEPT !.quit = FALSE, !.kill = FALSE]]
        /\ tangled' = IF client[d].room # NoCall /\ (r # Idle \/ ~Free(d, "late"))
                      THEN tangled \cup {d} ELSE tangled
        /\ Show(d, IF alive THEN [client[d] EXCEPT !.room = NoCall] ELSE Away)
        /\ inbox' = [inbox EXCEPT ![d] = {}]
        /\ UNCHANGED <<db, roster, openings, rejoins, past>>

\* A heartbeat every 15 seconds keeps all keys of the call for 60 more
Kept(c) == Live(c) /\ \E d \in roster[c].devices : client[d].call = c

\* 60 seconds passed without one; no request takes that long
Lapse(c) ==
    /\ roster[c] # NoRoster /\ ~Kept(c)
    /\ \A d \in Devices, s \in Slots : Call(d, s) # c
    /\ roster' = [roster EXCEPT ![c] = NoRoster]
    /\ lapsed' = lapsed \cup {c}
    /\ UNCHANGED <<db, job, client, inbox, budget, announced, revived, tangled>>

-----------------------------------------------------------------------------
(* reserveGroupCall, in a transaction that holds the advisory lock          *)

\* Mutation: the look at the group's call is not under the advisory lock.
ReserveUnlocked(d, s) ==
    /\ At(d, s, "lock")
    /\ \/ \E c \in Foremost :
            /\ Put(d, s, [job[d][s] EXCEPT !.call = c, !.step = "user"])
            /\ UNCHANGED <<lock, client>>
       \/ /\ LiveCalls = {} /\ \E c \in Calls : row[c] = "none"
          /\ lock' = TRUE /\ Goto(d, s, "insert") /\ UNCHANGED client
    /\ UNCHANGED <<row, caller, roster, inbox, budget, history>>

Reserve(d, s) ==
    /\ At(d, s, "lock") /\ ~lock
    /\ \/ \E c \in Foremost :
            /\ Put(d, s, [job[d][s] EXCEPT !.call = c, !.step = "user"])
            /\ UNCHANGED <<lock, client>>
       \/ /\ LiveCalls = {} /\ \E c \in Calls : row[c] = "none"
          /\ lock' = TRUE /\ Goto(d, s, "insert") /\ UNCHANGED client
       \/ /\ LiveCalls = {} /\ \A c \in Calls : row[c] # "none"  \* the bound is reached
          /\ Put(d, s, Idle)
          /\ Show(d, IF s = "request" THEN Away ELSE client[d])
          /\ UNCHANGED lock
    /\ UNCHANGED <<row, caller, roster, inbox, budget, history>>

\* Mutation: the row is inserted without its caller.
InsertAnonymous(d, s) ==
    /\ At(d, s, "insert")
    /\ \E c \in Calls :
         /\ row[c] = "none"
         /\ row' = [row EXCEPT ![c] = "ringing"]
         /\ Put(d, s, [job[d][s] EXCEPT !.call = c, !.step = "user", !.kill = TRUE])
    /\ lock' = FALSE
    /\ UNCHANGED <<caller, roster, client, inbox, budget, history>>

Insert(d, s) ==
    /\ At(d, s, "insert")
    /\ \E c \in Calls :
         /\ row[c] = "none"
         /\ row' = [row EXCEPT ![c] = "ringing"]
         /\ caller' = [caller EXCEPT ![c] = Owner[d]]
         /\ Put(d, s, [job[d][s] EXCEPT !.call = c, !.step = "user", !.kill = TRUE])
    /\ lock' = FALSE
    /\ UNCHANGED <<roster, client, inbox, budget, history>>

\* getActiveCallSession, getActiveRoomSession: 404 when the call is not live.
\* A rejoining panel then looks for the group's call of that moment.
Check(d, s) ==
    LET j == job[d][s]
        bootstrap == j.op = "join" /\ s = "request" /\ ~Joined(d)
    IN  /\ At(d, s, "check")
        /\ \/ /\ Live(j.call)
              /\ Put(d, s, [j EXCEPT !.step = IF j.op = "join" THEN "user" ELSE "unlist",
                                  !.seen = IF j.op = "close" THEN "active"
                                           ELSE row[j.call]])
              /\ UNCHANGED client
           \/ /\ ~Live(j.call)
              /\ IF j.op = "join" /\ s = "request" /\ Joined(d)
                   THEN \/ Foremost = {} /\ Put(d, s, Idle)
                        \/ \E c \in Foremost : Put(d, s, New("join", c, "check"))
                   ELSE Put(d, s, IF bootstrap /\ client[d].mine THEN Finish(j.call)
                                  ELSE After(j))
              /\ Show(d, IF bootstrap THEN Away ELSE client[d])
        /\ UNCHANGED <<db, roster, inbox, budget, history>>

-----------------------------------------------------------------------------
(* addGroupCallParticipant, one command at a time                           *)

AddUser(d, s) ==
    LET c == Call(d, s)
    IN  /\ At(d, s, "user")
        /\ Put(d, s, [job[d][s] EXCEPT !.step = "device",
                                       !.user = Owner[d] \notin roster[c].users])
        /\ roster' = [roster EXCEPT ![c].users = @ \cup {Owner[d]}]
        /\ UNCHANGED <<db, client, inbox, budget, history>>

AddDevice(d, s) ==
    /\ At(d, s, "device") /\ Goto(d, s, "map")
    /\ roster' = [roster EXCEPT ![Call(d, s)].devices = @ \cup {d}]
    /\ UNCHANGED <<db, client, inbox, budget, history>>

MapDevice(d, s) ==
    LET c == Call(d, s)
    IN  /\ At(d, s, "map") /\ Goto(d, s, "joined")
        /\ roster' = [roster EXCEPT ![c].mapped = @ \cup {d}]
        /\ UNCHANGED <<db, client, inbox, budget, history>>

\* The events, and the answer: a panel that has been closed undoes its join
AnswerJoin(d, s) ==
    LET j == job[d][s]
    IN  /\ At(d, s, "joined")
        /\ announced' = IF j.user THEN [announced EXCEPT ![j.call] = @ \cup {Owner[d]}]
                        ELSE announced
        /\ IF s = "request"
             THEN IF j.op = "create"
                  THEN /\ Show(d, [client[d] EXCEPT !.phase = "known", !.call = j.call,
                                                  !.mine = j.kill])
                       /\ Put(d, s, Idle)
                  ELSE IF Joined(d)
                  THEN /\ Show(d, [client[d] EXCEPT !.phase = "ready", !.call = j.call])
                       /\ Put(d, s, Idle)
                  ELSE /\ Put(d, s, New("activate", j.call, "mark"))
                       /\ UNCHANGED client
             ELSE /\ Put(d, s, IF ~j.quit THEN Idle
                               ELSE IF j.op = "join" THEN Leave(j.call, j.kill)
                               ELSE After(j))
                  /\ UNCHANGED client
        /\ UNCHANGED <<db, roster, inbox, budget, revived, lapsed, tangled>>

\* PUT /calls/:callId/status "active", which asks for no status
Activate(d, s) ==
    LET j == job[d][s]
    IN  /\ At(d, s, "mark") /\ j.op = "activate"
        /\ row' = [row EXCEPT ![j.call] = "active"]
        /\ revived' = IF row[j.call] = "ended" THEN revived \cup {j.call} ELSE revived
        /\ IF s = "request"
             THEN /\ Show(d, [client[d] EXCEPT !.phase = "ready", !.mine = FALSE])
                  /\ Put(d, s, Idle)
             ELSE /\ Put(d, s, IF j.quit THEN Leave(j.call, j.kill) ELSE Idle)
                  /\ UNCHANGED client
        /\ UNCHANGED <<caller, lock, roster, inbox, budget, announced, lapsed,
                       tangled>>

-----------------------------------------------------------------------------
(* removeGroupCallParticipant, one command at a time                        *)

Unlist(d, s) ==
    LET c == Call(d, s)
    IN  /\ At(d, s, "unlist")
        /\ Put(d, s, [job[d][s] EXCEPT !.step = "unmap",
                                       !.device = d \in roster[c].devices])
        /\ roster' = [roster EXCEPT ![c].devices = @ \ {d}]
        /\ UNCHANGED <<db, client, inbox, budget, history>>

Unmap(d, s) ==
    /\ At(d, s, "unmap") /\ Goto(d, s, "look")
    /\ roster' = [roster EXCEPT ![Call(d, s)].mapped = @ \ {d}]
    /\ UNCHANGED <<db, client, inbox, budget, history>>

\* Mutation: the user stays as long as any device does.
LookAtAny(d, s) ==
    LET stays == roster[Call(d, s)].mapped # {}
    IN  /\ At(d, s, "look")
        /\ Goto(d, s, IF stays THEN "left" ELSE "unuser")
        /\ UNCHANGED <<db, roster, client, inbox, budget, history>>

\* HVALS: does the user stay, by another device or by any at all
Look(d, s) ==
    LET j == job[d][s]
        present == UsersOf(roster[j.call].mapped)
        stays == IF j.device THEN Owner[d] \in present ELSE present # {}
    IN  /\ At(d, s, "look")
        /\ Goto(d, s, IF stays THEN "left" ELSE "unuser")
        /\ UNCHANGED <<db, roster, client, inbox, budget, history>>

RemoveUser(d, s) ==
    LET c == Call(d, s)
    IN  /\ At(d, s, "unuser")
        /\ Put(d, s, [job[d][s] EXCEPT !.step = "left",
                                       !.user = Owner[d] \in roster[c].users])
        /\ roster' = [roster EXCEPT ![c].users = @ \ {Owner[d]}]
        /\ UNCHANGED <<db, client, inbox, budget, history>>

\* Mutation: whoever has not taken its user off the roster does not count.
AnnounceAndCountUsers(d, s) ==
    LET j == job[d][s]
    IN  /\ At(d, s, "left")
        /\ announced' = IF j.user THEN [announced EXCEPT ![j.call] = @ \ {Owner[d]}]
                        ELSE announced
        /\ Put(d, s, IF ~j.user THEN After(j)
                     ELSE [j EXCEPT !.step = "count", !.device = FALSE, !.user = FALSE])
        /\ UNCHANGED <<db, roster, client, inbox, budget, revived, lapsed, tangled>>

\* The events; leaveJoinedRoom stops here when the device was not on the roster
AnnounceLeft(d, s) ==
    LET j == job[d][s]
        stop == j.op = "close" /\ ~j.device
    IN  /\ At(d, s, "left")
        /\ announced' = IF j.user /\ ~stop THEN [announced EXCEPT ![j.call] = @ \ {Owner[d]}]
                        ELSE announced
        /\ Put(d, s, IF stop THEN Idle
                     ELSE [j EXCEPT !.step = "count", !.device = FALSE, !.user = FALSE])
        /\ UNCHANGED <<db, roster, client, inbox, budget, revived, lapsed, tangled>>

-----------------------------------------------------------------------------
(* endGroupCallIfRosterEmpty, and PUT /calls/:callId/status "ended"         *)

Count(d, s) ==
    /\ At(d, s, "count")
    /\ IF Listed(Call(d, s)) = {} THEN Goto(d, s, "end") ELSE Put(d, s, After(job[d][s]))
    /\ UNCHANGED <<db, roster, client, inbox, budget, history>>

EndIfLive(d, s) ==
    LET j == job[d][s]
    IN  /\ At(d, s, "end")
        /\ IF Live(j.call)
             THEN row' = [row EXCEPT ![j.call] = "ended"] /\ Goto(d, s, "clear")
             ELSE Put(d, s, After(j)) /\ UNCHANGED row
        /\ UNCHANGED <<caller, lock, roster, client, inbox, budget, history>>

Load(d, s) ==
    /\ At(d, s, "load")
    /\ Put(d, s, [job[d][s] EXCEPT !.seen = row[Call(d, s)], !.step = "mark"])
    /\ UNCHANGED <<db, roster, client, inbox, budget, history>>

\* updateCallStatus; no event when the call had ended before it was loaded
MarkEnded(d, s) ==
    LET j == job[d][s]
    IN  /\ At(d, s, "mark") /\ j.op = "finish"
        /\ row' = [row EXCEPT ![j.call] = "ended"]
        /\ IF j.seen = "ended" THEN Put(d, s, Idle) ELSE Goto(d, s, "clear")
        /\ UNCHANGED <<caller, lock, roster, client, inbox, budget, history>>

Clear(d, s) ==
    /\ At(d, s, "clear") /\ Goto(d, s, "tell")
    /\ roster' = [roster EXCEPT ![Call(d, s)] = NoRoster]
    /\ UNCHANGED <<db, client, inbox, budget, history>>

\* Mutation: the event goes to the roster, which has been cleared by then.
TellRoster(d, s) ==
    LET j == job[d][s]
    IN  /\ At(d, s, "tell") /\ Put(d, s, After(j))
        /\ inbox' = [e \in Devices |->
                       IF e \in roster[j.call].devices THEN inbox[e] \cup {j.call} ELSE inbox[e]]
        /\ UNCHANGED <<db, roster, client, budget, past, tangled>>

\* group.call.ended to every device of the group; only a panel of the call cares
Tell(d, s) ==
    LET j == job[d][s]
    IN  /\ At(d, s, "tell") /\ Put(d, s, After(j))
        /\ inbox' = [e \in Devices |->
                       IF client[e].call = j.call THEN inbox[e] \cup {j.call} ELSE inbox[e]]
        /\ UNCHANGED <<db, roster, client, budget, past, tangled>>

-----------------------------------------------------------------------------
Serve(d, s) ==
    \/ Reserve(d, s) \/ Insert(d, s) \/ Check(d, s)
    \/ AddUser(d, s) \/ AddDevice(d, s) \/ MapDevice(d, s) \/ AnswerJoin(d, s)
    \/ Activate(d, s)
    \/ Unlist(d, s) \/ Unmap(d, s) \/ Look(d, s) \/ RemoveUser(d, s) \/ AnnounceLeft(d, s)
    \/ Count(d, s) \/ EndIfLive(d, s)
    \/ Load(d, s) \/ MarkEnded(d, s) \/ Clear(d, s) \/ Tell(d, s)

Panel(d) ==
    \/ Open(d) \/ Find(d) \/ Join(d) \/ Attach(d) \/ Rejoin(d)
    \/ Close(d) \/ EndForEveryone(d)

Next ==
    \/ \E d \in Devices, s \in Slots : Serve(d, s)
    \/ \E d \in Devices : Panel(d) \/ Hear(d) \/ GiveUp(d) \/ \E alive \in BOOLEAN : Drop(d, alive)
    \/ \E c \in Calls : Lapse(c)

Spec == Init /\ [][Next]_vars

-----------------------------------------------------------------------------
Quiet(c) == \A d \in Devices, s \in Slots : Call(d, s) # c
Empty(c) == Listed(c) = {}

\* The group has one call at a time, however many members open one at once,
\* until a late PUT "active" brings an ended one back: the advisory lock covers
\* the look and the insert, and nothing but the insert makes a call live anew.
OneLiveCall ==
    \A c1, c2 \in LiveCalls \ revived : c1 = c2

\* Whoever leaves last ends the call, in whatever order the commands of joins,
\* leaves and closings interleave: a live call with an empty roster that no
\* handler works on is one that was brought back, or whose roster ran out.
LastOneOutEnds ==
    \A c \in Calls :
      Live(c) /\ Quiet(c) /\ Empty(c) =>
        c \in revived \cup lapsed \/ tangled # {}

\* The three keys and the events tell the same story of a user with one device,
\* once no handler works on the call, unless two of its jobs ran into each other:
\* it is in the user set and was announced just when its device is in both others.
RosterIsWhole ==
    \A c \in LiveCalls \ (revived \cup lapsed), d \in Devices \ tangled :
      Quiet(c) /\ (\A e \in Devices : Owner[e] = Owner[d] => e = d) =>
        LET in == d \in roster[c].devices
        IN  /\ in <=> d \in roster[c].mapped
            /\ in <=> Owner[d] \in roster[c].users
            /\ in <=> Owner[d] \in announced[c]

\* Nobody sits in a call that has ended: the event is on its way to the panel or
\* about to be sent, unless the call was brought back, a socket was lost with the
\* event, or a rejoin took the panel to a call whose event came before it.
NobodySitsInADeadCall ==
    \A d \in Devices :
      LET c == client[d].call
      IN  Joined(d) /\ row[c] = "ended" =>
            \/ c \in inbox[d] \cup revived \/ losses + rejoins > 0
            \/ \E e \in Devices, s \in Slots :
                  Call(e, s) = c /\ job[e][s].step \in {"clear", "tell"}

=============================================================================
