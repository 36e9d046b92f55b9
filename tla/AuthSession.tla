----------------------------- MODULE AuthSession -----------------------------
(***************************************************************************)
(* The session of one browser: the row of auth_sessions with the refresh   *)
(* token it accepts and the one before, the cookie the tabs of the browser *)
(* share, and their requests to /auth/session, /auth/refresh and           *)
(* /auth/logout, whose answers come in any order or not at all.  Beside it *)
(* the cache that tells whether an access token still has a session.       *)
(***************************************************************************)
EXTENDS Integers, FiniteSets

CONSTANTS
    Tabs,
    NoToken,
    MaxRotations,   \* bound: rotations of the token
    MaxLosses       \* bound: requests that are lost, or whose answer is

ASSUME AuthAssumption ==
    /\ IsFiniteSet(Tabs) /\ NoToken \notin Nat
    /\ MaxRotations \in Nat /\ MaxLosses \in Nat

VARIABLES
    live,       \* the row is there and has not expired
    current,    \* refresh_token_hash, as the number of its secret
    previous,   \* previous_refresh_token_hash
    grace,      \* the last rotation is at most REFRESH_REUSE_GRACE_SECONDS ago
    cookie,     \* the browser's refresh_token cookie
    tab,        \* where each tab is
    requests,   \* under way, at most one of a tab
    cache,      \* auth:session-active
    checks,     \* tabs whose API request has read the row as active
    revoking,   \* a sibling device has deleted this one, the cache not yet cleared
    losses,
    lost,       \* history: an answer that carried a new cookie was lost
    late,       \* history: a token came when it was superseded for too long
    previewed,  \* history: /auth/session came with a superseded token
    overtaken,  \* history: /auth/logout came with a superseded token, or was lost
    left        \* history: a tab has been told that it is logged out

row     == <<live, current, previous, grace>>
access  == <<cache, checks, revoking>>
history == <<lost, late, previewed, overtaken, left>>
vars == <<row, cookie, tab, requests, access, losses, history>>

Tokens == Nat \cup {NoToken}

Requests ==
    [tab : Tabs, kind : {"session", "refresh", "logout"}, token : Tokens,
     at : {"sent", "valid", "deleted", "set", "clear", "keep", "none"}, new : Tokens]

TypeOK ==
    /\ live \in BOOLEAN /\ grace \in BOOLEAN /\ cache \in BOOLEAN /\ revoking \in BOOLEAN
    /\ lost \in BOOLEAN /\ late \in BOOLEAN /\ previewed \in BOOLEAN
    /\ overtaken \in BOOLEAN /\ left \in BOOLEAN
    /\ current \in Nat /\ previous \in Tokens /\ cookie \in Tokens
    /\ previous # NoToken => previous < current
    /\ tab \in [Tabs -> {"away", "preview", "in", "leaving", "out"}]
    /\ checks \subseteq Tabs /\ losses \in Nat
    /\ requests \subseteq Requests
    /\ \A r, q \in requests : r.tab = q.tab => r = q

Init ==
    /\ live = TRUE /\ current = 0 /\ previous = NoToken /\ grace = FALSE
    /\ cookie = 0 /\ tab = [t \in Tabs |-> "away"] /\ requests = {}
    /\ cache = FALSE /\ checks = {} /\ revoking = FALSE /\ losses = 0
    /\ lost = FALSE /\ late = FALSE /\ previewed = FALSE
    /\ overtaken = FALSE /\ left = FALSE

-----------------------------------------------------------------------------
(* The tabs                                                                *)

Waits(t) == \E r \in requests : r.tab = t

Sends(t, kind) ==
    /\ ~Waits(t)
    /\ requests' = requests \cup
         {[tab |-> t, kind |-> kind, token |-> cookie, at |-> "sent", new |-> NoToken]}
    /\ UNCHANGED <<row, cookie, access, losses, history>>

\* resolveRestoredSession begins with a preview.
Restore(t) ==
    /\ tab[t] = "away" /\ Sends(t, "session")
    /\ tab' = [tab EXCEPT ![t] = "preview"]

\* After the preview, on a 401, a closed socket or the tab's return to the foreground.
Refresh(t) == tab[t] \in {"preview", "in"} /\ Sends(t, "refresh") /\ UNCHANGED tab

\* revokeServerSession
Logout(t) ==
    /\ tab[t] = "in" /\ Sends(t, "logout")
    /\ tab' = [tab EXCEPT ![t] = "leaving"]

Close(t) ==
    /\ tab[t] = "in" /\ ~Waits(t)
    /\ tab' = [tab EXCEPT ![t] = "away"]
    /\ UNCHANGED <<row, cookie, requests, access, losses, history>>

-----------------------------------------------------------------------------
(* The server                                                              *)

Replace(r, s) == requests' = (requests \ {r}) \cup {s}
GoesTo(r, a) == [r EXCEPT !.at = a]
NewCookie(r) == [GoesTo(r, "set") EXCEPT !.new = current + 1]
Arrived(r, kind) == r \in requests /\ r.kind = kind /\ r.at = "sent"

Superseded(r) == r.token # NoToken /\ r.token # current

\* resolveRefreshSession takes the current token only.
Preview(r) ==
    /\ Arrived(r, "session")
    /\ Replace(r, GoesTo(r, IF r.token = NoToken THEN "none"
                            ELSE IF live /\ r.token = current THEN "keep" ELSE "clear"))
    /\ previewed' = (previewed \/ (live /\ Superseded(r)))
    /\ UNCHANGED <<row, cookie, tab, access, losses, lost, late, overtaken, left>>

\* Mutation: the token before the current one is rotated as well.
RotatesInGrace(r) == live /\ (r.token = current \/ (r.token = previous /\ grace))

Rotates(r) == live /\ r.token = current

\* Mutation: a superseded token is refused at once.
NoGrace(r) == FALSE

\* The token that has just been superseded: an access token and no cookie.
InGrace(r) == live /\ r.token # current /\ r.token = previous /\ grace

\* Mutation: the new hash is stored as the previous one too.
RotateForgetful(r) ==
    /\ Arrived(r, "refresh") /\ r.token # NoToken /\ Rotates(r)
    /\ current < MaxRotations
    /\ current' = current + 1 /\ previous' = current + 1 /\ grace' = TRUE
    /\ Replace(r, NewCookie(r))
    /\ UNCHANGED <<live, cookie, tab, access, losses, history>>

\* rotateRefreshTokenInLock, current token: the row is locked until the commit.
Rotate(r) ==
    /\ Arrived(r, "refresh") /\ r.token # NoToken /\ Rotates(r)
    /\ current < MaxRotations
    /\ current' = current + 1 /\ previous' = current /\ grace' = TRUE
    /\ Replace(r, NewCookie(r))
    /\ UNCHANGED <<live, cookie, tab, access, losses, history>>

\* Any other token.
Decline(r) ==
    /\ Arrived(r, "refresh") /\ ~Rotates(r)
    /\ Replace(r, GoesTo(r, IF r.token = NoToken THEN "none"
                            ELSE IF InGrace(r) THEN "keep" ELSE "clear"))
    /\ late' = (late \/ (live /\ Superseded(r) /\ ~(r.token = previous /\ grace)))
    /\ UNCHANGED <<row, cookie, tab, access, losses, lost, previewed, overtaken, left>>

\* /auth/logout: the token is verified.
CheckLogout(r) ==
    /\ Arrived(r, "logout")
    /\ Replace(r, GoesTo(r, IF live /\ r.token = current THEN "valid" ELSE "clear"))
    /\ overtaken' = (overtaken \/ (live /\ r.token # current))
    /\ UNCHANGED <<row, cookie, tab, access, losses, lost, late, previewed, left>>

\* Mutation: only while the token that was verified is still the current one.
DeleteVerified(r) ==
    /\ r \in requests /\ r.at = "valid"
    /\ live' = (live /\ r.token # current)
    /\ Replace(r, GoesTo(r, "deleted"))
    /\ UNCHANGED <<current, previous, grace, cookie, tab, access, losses, history>>

\* The row is deleted by its id.
DeleteSession(r) ==
    /\ r \in requests /\ r.at = "valid"
    /\ live' = FALSE
    /\ Replace(r, GoesTo(r, "deleted"))
    /\ UNCHANGED <<current, previous, grace, cookie, tab, access, losses, history>>

\* invalidateAuthSessionCache, then the answer.
Forget(r) ==
    /\ r \in requests /\ r.at = "deleted"
    /\ cache' = FALSE
    /\ Replace(r, GoesTo(r, "clear"))
    /\ UNCHANGED <<row, cookie, tab, checks, revoking, losses, history>>

GraceEnds == grace /\ grace' = FALSE
    /\ UNCHANGED <<live, current, previous, cookie, tab, requests, access, losses, history>>

Expire == live /\ live' = FALSE
    /\ UNCHANGED <<current, previous, grace, cookie, tab, requests, access, losses, history>>

\* DELETE /devices/:id by another device: the row goes with it, then the cache.
Revoke == live /\ live' = FALSE /\ revoking' = TRUE
    /\ UNCHANGED <<current, previous, grace, cookie, tab, requests, cache, checks,
                   losses, history>>

FinishRevoke == revoking /\ revoking' = FALSE /\ cache' = FALSE
    /\ UNCHANGED <<row, cookie, tab, requests, checks, losses, history>>

-----------------------------------------------------------------------------
(* The answers                                                             *)

Answered(r) == r \in requests /\ r.at \in {"set", "clear", "keep", "none"}

After(r) ==
    CASE r.kind = "logout" -> "out"
      [] r.at \in {"clear", "none"} -> "out"
      [] r.kind = "session" -> "preview"
      [] OTHER -> "in"

\* The browser stores or drops the cookie, the tab goes on.
Answer(r) ==
    /\ Answered(r)
    /\ requests' = requests \ {r}
    /\ cookie' = CASE r.at = "set" -> r.new [] r.at = "clear" -> NoToken
                   [] OTHER -> cookie
    /\ tab' = [tab EXCEPT ![r.tab] = After(r)]
    /\ left' = (left \/ r.kind = "logout")
    /\ UNCHANGED <<row, access, losses, lost, late, previewed, overtaken>>

\* A network error: nobody is signed out for it, a logout is taken as done.
Lose(r) ==
    /\ r \in requests /\ r.at \in {"sent", "set", "clear", "keep", "none"}
    /\ losses < MaxLosses /\ losses' = losses + 1
    /\ requests' = requests \ {r}
    /\ lost' = (lost \/ r.at = "set")
    /\ overtaken' = (overtaken \/ r.kind = "logout")
    /\ left' = (left \/ r.kind = "logout")
    /\ tab' = [tab EXCEPT ![r.tab] = CASE r.kind = "session" -> "away"
                                       [] r.kind = "logout" -> "out"
                                       [] OTHER -> @]
    /\ UNCHANGED <<row, cookie, access, late, previewed>>

-----------------------------------------------------------------------------
(* isAuthSessionActive                                                     *)

\* Mutation: the row is cached whatever was found.
ReadAnyRow(t) ==
    /\ tab[t] = "in" /\ ~cache /\ t \notin checks
    /\ checks' = checks \cup {t}
    /\ UNCHANGED <<row, cookie, tab, requests, cache, revoking, losses, history>>

\* Not in the cache: the row is read, and found active.
ReadRow(t) ==
    /\ tab[t] = "in" /\ ~cache /\ live /\ t \notin checks
    /\ checks' = checks \cup {t}
    /\ UNCHANGED <<row, cookie, tab, requests, cache, revoking, losses, history>>

\* It is written to the cache.
StoreActive(t) ==
    /\ t \in checks /\ checks' = checks \ {t} /\ cache' = TRUE
    /\ UNCHANGED <<row, cookie, tab, requests, revoking, losses, history>>

CacheExpires == cache /\ cache' = FALSE
    /\ UNCHANGED <<row, cookie, tab, requests, checks, revoking, losses, history>>

-----------------------------------------------------------------------------

Serve(r) ==
    Preview(r) \/ Rotate(r) \/ Decline(r) \/ CheckLogout(r) \/ DeleteSession(r) \/ Forget(r)

Next ==
    \/ \E t \in Tabs : \/ Restore(t) \/ Refresh(t) \/ Logout(t) \/ Close(t)
                       \/ ReadRow(t) \/ StoreActive(t)
    \/ \E r \in requests : Serve(r) \/ Answer(r) \/ Lose(r)
    \/ GraceEnds \/ Expire \/ Revoke \/ FinishRevoke \/ CacheExpires

Spec == Init /\ [][Next]_vars

\* A started check is carried out, and redis drops what has outlived its TTL.
FairSpec ==
    /\ Spec
    /\ \A t \in Tabs : WF_vars(StoreActive(t))
    /\ WF_vars(CacheExpires)

-----------------------------------------------------------------------------
(* Properties.                                                             *)

\* Tabs that refresh at once leave the browser with the token the server takes, in
\* whatever order their answers come: with no request under way the cookie is the current
\* token, unless the answer with it was lost, a request was late by the grace time, or
\* /auth/session or /auth/logout crossed a rotation.
CookieIsCurrent ==
    live /\ requests = {} => cookie = current \/ lost \/ late \/ previewed \/ overtaken

\* For the same causes only is a tab signed out of a session that lives.
SignedOutForCause ==
    \A t \in Tabs : tab[t] = "out" =>
        ~live \/ late \/ previewed \/ overtaken

\* A browser that has logged out has ended its session, even if another tab rotated the
\* token in between, unless the rotation came before the token was verified.
LogoutEndsSession == left => ~live \/ overtaken

\* An ended session stops being taken for an active one, also when a check that had read
\* the row stores its finding after the cache was cleared.
AccessEnds == ~live ~> [](~cache)
=============================================================================
