--------------------------- MODULE CallLifecycle ---------------------------
(***************************************************************************)
(* What the direct-call service promises about one call, whatever its      *)
(* handlers, session stores and sockets do: the authority row goes through *)
(* its life once, one device at most answers, and devices are told of it   *)
(* only what has been committed.                                           *)
(***************************************************************************)
CONSTANTS CallerDevs, CalleeDevs, NoDev

VARIABLES
    status,      \* the status of the call
    answeredBy,  \* the device that answered it
    endedBy,     \* the device that ended it
    heard,       \* the caller has been told of the answer
    told         \* the devices that have been told the call is over

vars == <<status, answeredBy, endedBy, heard, told>>

Devices == CallerDevs \cup CalleeDevs
Over    == status \in {"ended", "missed", "rejected"}

Init ==
    /\ status = "ringing"
    /\ answeredBy = NoDev /\ endedBy = NoDev
    /\ heard = FALSE /\ told = {}

\* One of the called user's devices takes the call.
Answer(d) ==
    /\ status = "ringing"
    /\ status' = "active" /\ answeredBy' = d
    /\ UNCHANGED <<endedBy, heard, told>>

\* An unanswered call is rejected by the called user and missed otherwise; the
\* called user may also hang it up.  An answered call ends.
Outcomes(d) ==
    IF status = "active" THEN {"ended"}
    ELSE IF d \in CallerDevs THEN {"missed"}
    ELSE {"rejected", "ended", "missed"}

End(d) ==
    /\ ~Over
    /\ status' \in Outcomes(d) /\ endedBy' = d
    /\ UNCHANGED <<answeredBy, heard, told>>

\* Nobody took it.
Lapse ==
    /\ status = "ringing" /\ status' = "missed"
    /\ UNCHANGED <<answeredBy, endedBy, heard, told>>

\* What the devices are told: the answer, once there is one, and the end, to
\* everyone when the call is over and to the other called devices when one of
\* them has answered.
Tell ==
    /\ UNCHANGED <<status, answeredBy, endedBy>>
    /\ heard' \in {heard, answeredBy # NoDev}
    /\ heard => heard'
    /\ \E ds \in SUBSET Devices :
          /\ Over \/ (status = "active" /\ ds \subseteq CalleeDevs \ {answeredBy})
          /\ told' = told \cup ds

Next ==
    \/ \E d \in CalleeDevs : Answer(d)
    \/ \E d \in Devices : End(d)
    \/ Lapse
    \/ Tell

Spec == Init /\ [][Next]_vars
=============================================================================
