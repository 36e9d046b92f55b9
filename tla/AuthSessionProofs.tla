-------------------------- MODULE AuthSessionProofs --------------------------
(***************************************************************************)
(* Theorems about AuthSession, for any number of tabs, rotations, losses.  *)
(***************************************************************************)
EXTENDS AuthSession, TLAPS

-----------------------------------------------------------------------------
(* The inductive invariant.                                                *)

\* Nobody holds a token that has not been issued.
TokensIssued ==
    /\ cookie # NoToken => cookie <= current
    /\ \A r \in requests : r.token # NoToken => r.token <= current

\* An answer that carries a new cookie carries the current token, and is on its way to
\* a browser all of whose other tokens are superseded.
SetIsNewest ==
    \A r \in requests : r.at = "set" =>
        /\ r.kind = "refresh" /\ r.new = current
        /\ cookie # NoToken => cookie < current
        /\ \A q \in requests : q.token # NoToken => q.token < current

\* Hence there is at most one such answer.
OneSet == \A r, q \in requests : r.at = "set" /\ q.at = "set" => r = q

\* The causes for which a browser may have to sign in again.
Excused == late \/ previewed \/ overtaken

\* The current token is in the browser or on its way to it.
CurrentIsHeld ==
    live /\ ~Excused /\ ~lost => cookie = current \/ \E r \in requests : r.at = "set"

\* Nothing takes the cookie of a live session away, or signs a tab out of it.
NothingTaken ==
    live /\ ~Excused =>
        /\ cookie # NoToken
        /\ \A r \in requests : r.token # NoToken /\ r.at \notin {"clear", "none"}
        /\ \A t \in Tabs : tab[t] # "out"

\* What the steps of a logout know.
LogoutSteps ==
    \A r \in requests :
        /\ r.kind = "logout" => r.at \in {"sent", "valid", "deleted", "clear"}
        /\ r.at \in {"valid", "deleted"} => r.kind = "logout"
        /\ r.at = "deleted" => ~live
        /\ r.kind = "logout" /\ r.at = "clear" => ~live \/ overtaken

IInv == /\ TypeOK /\ TokensIssued /\ SetIsNewest /\ OneSet
        /\ CurrentIsHeld /\ NothingTaken /\ LogoutSteps /\ LogoutEndsSession

-----------------------------------------------------------------------------
(* The steps of the tabs.                                                  *)

\* A request that has just been sent carries the cookie and nothing else.
LEMMA SendsSound ==
    ASSUME IInv, NEW t \in Tabs, NEW kind \in {"session", "refresh", "logout"},
           Sends(t, kind), tab' \in [Tabs -> {"away", "preview", "in", "leaving", "out"}],
           \A u \in Tabs : tab'[u] = "out" => tab[u] = "out"
    PROVE  IInv'
<1> DEFINE q == [tab |-> t, kind |-> kind, token |-> cookie, at |-> "sent", new |-> NoToken]
<1> USE DEF IInv
<1>1. /\ requests' = requests \cup {q} /\ ~Waits(t)
      /\ UNCHANGED <<live, current, previous, grace, cookie, cache, checks, revoking, losses,
                     lost, late, previewed, overtaken, left>>
  BY DEF Sends, row, access, history
<1>2. q \in Requests /\ q.at = "sent" /\ q.token = cookie /\ q.kind = kind /\ q.tab = t
  BY DEF TypeOK, Requests, Tokens
<1> HIDE DEF q
<1>3. TypeOK'
  BY <1>1, <1>2 DEF TypeOK, Waits
<1>4. TokensIssued' /\ SetIsNewest' /\ OneSet'
  BY <1>1, <1>2 DEF TokensIssued, SetIsNewest, OneSet
<1>5. CurrentIsHeld'
  BY <1>1 DEF CurrentIsHeld, Excused
<1>6. NothingTaken'
  BY <1>1, <1>2 DEF NothingTaken, Excused
<1>7. LogoutSteps' /\ LogoutEndsSession'
  BY <1>1, <1>2 DEF LogoutSteps, LogoutEndsSession
<1> QED BY <1>3, <1>4, <1>5, <1>6, <1>7
LEMMA TabSteps ==
    ASSUME IInv, NEW t \in Tabs,
           Restore(t) \/ Refresh(t) \/ Logout(t) \/ Close(t) \/ ReadRow(t) \/ StoreActive(t)
    PROVE  IInv'
<1>1. CASE Restore(t) \/ Refresh(t) \/ Logout(t)
  <2>1. tab' \in [Tabs -> {"away", "preview", "in", "leaving", "out"}]
    BY <1>1 DEF IInv, TypeOK, Restore, Refresh, Logout
  <2>2. \A u \in Tabs : tab'[u] = "out" => tab[u] = "out"
    BY <1>1 DEF IInv, TypeOK, Restore, Refresh, Logout
  <2>3. PICK kind \in {"session", "refresh", "logout"} : Sends(t, kind)
    BY <1>1 DEF Restore, Refresh, Logout
  <2> QED BY <2>1, <2>2, <2>3, SendsSound
<1>2. CASE Close(t)
  <2>1. /\ tab' = [tab EXCEPT ![t] = "away"]
        /\ UNCHANGED <<live, current, previous, grace, cookie, requests, cache, checks,
                       revoking, losses, lost, late, previewed, overtaken, left>>
    BY <1>2 DEF Close, row, access, history
  <2>2. TypeOK'
    BY <2>1 DEF IInv, TypeOK
  <2>3. NothingTaken'
    BY <2>1 DEF IInv, TypeOK, NothingTaken, Excused
  <2> QED
    BY <2>1, <2>2, <2>3 DEF IInv, TokensIssued, SetIsNewest, OneSet, CurrentIsHeld, Excused,
                            LogoutSteps, LogoutEndsSession
<1>3. CASE ReadRow(t) \/ StoreActive(t)
  <2>1. /\ checks' \subseteq Tabs /\ cache' \in BOOLEAN
        /\ UNCHANGED <<live, current, previous, grace, cookie, tab, requests,
                       revoking, losses, lost, late, previewed, overtaken, left>>
    BY <1>3 DEF ReadRow, StoreActive, row, history, IInv, TypeOK
  <2>2. TypeOK'
    BY <2>1 DEF IInv, TypeOK
  <2> QED
    BY <2>1, <2>2 DEF IInv, TokensIssued, SetIsNewest, OneSet, CurrentIsHeld, NothingTaken,
                      Excused, LogoutSteps, LogoutEndsSession
<1> QED BY <1>1, <1>2, <1>3

-----------------------------------------------------------------------------
(* The steps of the server.                                                *)

\* A request that goes on keeps its tab, its kind and its token.
LEMMA GoesToType ==
    ASSUME NEW r \in Requests,
           NEW a \in {"sent", "valid", "deleted", "set", "clear", "keep", "none"}
    PROVE  /\ GoesTo(r, a) \in Requests /\ GoesTo(r, a).at = a
           /\ GoesTo(r, a).tab = r.tab /\ GoesTo(r, a).kind = r.kind
           /\ GoesTo(r, a).token = r.token
BY DEF Requests, GoesTo

LEMMA NewCookieType ==
    ASSUME NEW r \in Requests, current \in Nat
    PROVE  /\ NewCookie(r) \in Requests
           /\ NewCookie(r).at = "set" /\ NewCookie(r).new = current + 1
           /\ NewCookie(r).tab = r.tab /\ NewCookie(r).kind = r.kind
           /\ NewCookie(r).token = r.token
BY GoesToType DEF Requests, NewCookie, Tokens

LEMMA ReplaceType ==
    ASSUME TypeOK, NEW r \in requests, NEW s \in Requests, s.tab = r.tab, Replace(r, s)
    PROVE  /\ requests' \subseteq Requests
           /\ \A p, q \in requests' : p.tab = q.tab => p = q
BY DEF TypeOK, Replace

\* A request is answered or goes on without a new cookie; the row may be gone after.
LEMMA PlainStep ==
    ASSUME IInv, NEW r \in requests,
           NEW a \in {"valid", "deleted", "clear", "keep", "none"},
           Replace(r, GoesTo(r, a)),
           r.at # "set", r.at = "deleted" => a = "clear",
           live' \in BOOLEAN, cache' \in BOOLEAN, live' => live,
           late' \in BOOLEAN, previewed' \in BOOLEAN, overtaken' \in BOOLEAN,
           Excused => Excused', overtaken => overtaken',
           UNCHANGED <<current, previous, grace, cookie, tab, checks, revoking, losses,
                       lost, left>>,
           a \in {"clear", "none"} => ~live' \/ Excused',
           r.kind = "logout" => a \in {"valid", "deleted", "clear"},
           a \in {"valid", "deleted"} => r.kind = "logout",
           a = "deleted" => ~live',
           r.kind = "logout" /\ a = "clear" => ~live' \/ overtaken'
    PROVE  IInv'
<1> DEFINE s == GoesTo(r, a)
<1> USE DEF IInv
<1>1. s \in Requests /\ s.at = a /\ s.tab = r.tab /\ s.kind = r.kind /\ s.token = r.token
  BY GoesToType DEF TypeOK
<1>2. requests' = (requests \ {r}) \cup {s}
  BY DEF Replace
<1>3. Replace(r, s)
  OBVIOUS
<1> HIDE DEF s
<1>4. TypeOK'
  BY <1>1, <1>3, ReplaceType DEF TypeOK
<1>5. TokensIssued' /\ SetIsNewest' /\ OneSet'
  BY <1>1, <1>2 DEF TokensIssued, SetIsNewest, OneSet
<1>6. CurrentIsHeld'
  BY <1>2 DEF CurrentIsHeld
<1>7. NothingTaken'
  BY <1>1, <1>2 DEF NothingTaken
<1>8. LogoutSteps' /\ LogoutEndsSession'
  BY <1>1, <1>2 DEF LogoutSteps, LogoutEndsSession
<1> QED BY <1>4, <1>5, <1>6, <1>7, <1>8

LEMMA PlainSteps ==
    ASSUME IInv, NEW r \in requests,
           Preview(r) \/ Decline(r) \/ CheckLogout(r) \/ DeleteSession(r) \/ Forget(r)
    PROVE  IInv'
<1> USE DEF Arrived, row, access, history, Excused
<1>0. TypeOK /\ LogoutSteps /\ r \in Requests
  BY DEF IInv, TypeOK
<1>1. CASE Preview(r)
  <2> DEFINE a == IF r.token = NoToken THEN "none"
                  ELSE IF live /\ r.token = current THEN "keep" ELSE "clear"
  <2>1. Replace(r, GoesTo(r, a)) /\ a \in {"none", "keep", "clear"}
    BY <1>1 DEF Preview
  <2>2. a \in {"clear", "none"} => ~live \/ previewed' \/ Excused
    BY <1>1 DEF Preview, Superseded, IInv, NothingTaken
  <2> HIDE DEF a
  <2> QED BY <1>0, <1>1, <2>1, <2>2, PlainStep DEF Preview, TypeOK
<1>2. CASE Decline(r)
  <2> DEFINE a == IF r.token = NoToken THEN "none"
                  ELSE IF InGrace(r) THEN "keep" ELSE "clear"
  <2>1. Replace(r, GoesTo(r, a)) /\ a \in {"none", "keep", "clear"}
    BY <1>2 DEF Decline
  <2>2. a \in {"clear", "none"} => ~live \/ late' \/ Excused
    BY <1>2 DEF Decline, Superseded, InGrace, Rotates, IInv, NothingTaken
  <2> HIDE DEF a
  <2> QED BY <1>0, <1>2, <2>1, <2>2, PlainStep DEF Decline, TypeOK
<1>3. CASE CheckLogout(r)
  <2> DEFINE a == IF live /\ r.token = current THEN "valid" ELSE "clear"
  <2>1. Replace(r, GoesTo(r, a)) /\ a \in {"valid", "clear"}
    BY <1>3 DEF CheckLogout
  <2>2. a = "clear" => ~live \/ overtaken'
    BY <1>3 DEF CheckLogout
  <2> HIDE DEF a
  <2> QED BY <1>0, <1>3, <2>1, <2>2, PlainStep DEF CheckLogout, TypeOK
<1>4. CASE DeleteSession(r)
  BY <1>0, <1>4, PlainStep DEF DeleteSession, TypeOK, LogoutSteps
<1>5. CASE Forget(r)
  BY <1>0, <1>5, PlainStep DEF Forget, TypeOK, LogoutSteps
<1> QED BY <1>1, <1>2, <1>3, <1>4, <1>5

\* The token that came was the current one, so no other answer with a cookie is under
\* way, and every other token is now superseded.
LEMMA RotateSound ==
    ASSUME IInv, NEW r \in requests, Rotate(r)
    PROVE  IInv'
<1> DEFINE s == NewCookie(r)
<1> USE DEF IInv
<1>1. /\ s \in Requests /\ s.at = "set" /\ s.new = current + 1
      /\ s.tab = r.tab /\ s.kind = r.kind /\ s.token = r.token
  BY NewCookieType DEF TypeOK
<1>2. /\ r.kind = "refresh" /\ r.token = current /\ r.token # NoToken
      /\ requests' = (requests \ {r}) \cup {s} /\ Replace(r, s)
      /\ current' = current + 1 /\ previous' = current /\ grace' = TRUE
      /\ UNCHANGED <<live, cookie, tab, cache, checks, revoking, losses,
                     lost, late, previewed, overtaken, left>>
  BY DEF Rotate, Arrived, Rotates, Replace, access, history
<1> HIDE DEF s
<1>3. current \in Nat /\ NoToken \notin Nat /\ cookie \in Tokens
  BY AuthAssumption DEF TypeOK
<1>3a. \A q \in requests : q.token \in Tokens
  BY DEF TypeOK, Requests
<1>4. TypeOK'
  <2>1. requests' \subseteq Requests /\ \A p, q \in requests' : p.tab = q.tab => p = q
    BY <1>1, <1>2, ReplaceType
  <2> QED BY <1>2, <1>3, <2>1 DEF TypeOK, Tokens
<1>5. \A q \in requests : q.at # "set"
  BY <1>2, <1>3 DEF SetIsNewest
<1>6. TokensIssued'
  BY <1>1, <1>2, <1>3, <1>3a DEF TokensIssued, Tokens
<1>7. SetIsNewest'
  BY <1>1, <1>2, <1>3, <1>3a, <1>5 DEF SetIsNewest, TokensIssued, Tokens
<1>8. OneSet'
  BY <1>1, <1>2, <1>5 DEF OneSet
<1>9. CurrentIsHeld'
  BY <1>1, <1>2 DEF CurrentIsHeld, Excused
<1>10. NothingTaken'
  BY <1>1, <1>2 DEF NothingTaken, Excused
<1>11. LogoutSteps' /\ LogoutEndsSession'
  BY <1>1, <1>2 DEF LogoutSteps, LogoutEndsSession
<1> QED BY <1>4, <1>6, <1>7, <1>8, <1>9, <1>10, <1>11

LEMMA TimeSteps ==
    ASSUME IInv, GraceEnds \/ Expire \/ Revoke \/ FinishRevoke \/ CacheExpires
    PROVE  IInv'
<1>0. /\ live \in BOOLEAN /\ grace \in BOOLEAN /\ cache \in BOOLEAN
      /\ revoking \in BOOLEAN
  BY DEF IInv, TypeOK
<1>1. /\ live' \in BOOLEAN /\ (live' => live)
      /\ UNCHANGED <<current, previous, cookie, tab, requests, checks, losses,
                     lost, late, previewed, overtaken, left>>
      /\ grace' \in BOOLEAN /\ cache' \in BOOLEAN /\ revoking' \in BOOLEAN
  <2>1. CASE GraceEnds
    BY <1>0, <2>1 DEF GraceEnds, access, history
  <2>2. CASE Expire
    BY <1>0, <2>2 DEF Expire, access, history
  <2>3. CASE Revoke
    BY <1>0, <2>3 DEF Revoke, history
  <2>4. CASE FinishRevoke
    BY <1>0, <2>4 DEF FinishRevoke, row, history
  <2>5. CASE CacheExpires
    BY <1>0, <2>5 DEF CacheExpires, row, history
  <2> QED BY <2>1, <2>2, <2>3, <2>4, <2>5
<1>2. TypeOK'
  BY <1>1 DEF IInv, TypeOK
<1>3. TokensIssued' /\ SetIsNewest' /\ OneSet'
  BY <1>1 DEF IInv, TokensIssued, SetIsNewest, OneSet
<1>4. CurrentIsHeld' /\ NothingTaken'
  BY <1>1 DEF IInv, CurrentIsHeld, NothingTaken, Excused
<1>5. LogoutSteps' /\ LogoutEndsSession'
  BY <1>1 DEF IInv, LogoutSteps, LogoutEndsSession
<1> QED BY <1>2, <1>3, <1>4, <1>5 DEF IInv

-----------------------------------------------------------------------------
(* The answers.                                                            *)

LEMMA AnswerSound ==
    ASSUME IInv, NEW r \in requests, Answer(r)
    PROVE  IInv'
<1> USE DEF IInv
<1>1. /\ r.at \in {"set", "clear", "keep", "none"} /\ requests' = requests \ {r}
      /\ cookie' = CASE r.at = "set" -> r.new [] r.at = "clear" -> NoToken [] OTHER -> cookie
      /\ tab' = [tab EXCEPT ![r.tab] = After(r)]
      /\ left' = (left \/ r.kind = "logout")
      /\ UNCHANGED <<live, current, previous, grace, cache, checks, revoking, losses,
                     lost, late, previewed, overtaken>>
  BY DEF Answer, Answered, row, access
<1>2. r \in Requests /\ current \in Nat /\ NoToken \notin Nat
  BY AuthAssumption DEF TypeOK
<1>3. TypeOK'
  <2>1. After(r) \in {"preview", "in", "out"}
    BY DEF After
  <2>2. cookie' \in Tokens
    BY <1>1, <1>2 DEF TypeOK, Requests, Tokens
  <2>3. tab' \in [Tabs -> {"away", "preview", "in", "leaving", "out"}]
    BY <1>1, <2>1 DEF TypeOK
  <2> QED BY <1>1, <2>2, <2>3 DEF TypeOK
<1>4. r.at = "set" => r.new = current /\ \A q \in requests' : q.at # "set"
  BY <1>1 DEF SetIsNewest, OneSet
<1>5. TokensIssued'
  BY <1>1, <1>2, <1>4 DEF TokensIssued
<1>6. SetIsNewest' /\ OneSet'
  BY <1>1, <1>4 DEF SetIsNewest, OneSet
<1>7. live /\ ~Excused => r.at \in {"set", "keep"} /\ r.kind # "logout"
  BY <1>1 DEF NothingTaken, LogoutSteps
<1>8. CurrentIsHeld'
  BY <1>1, <1>4, <1>7 DEF CurrentIsHeld, Excused
<1>9. NothingTaken'
  <2> SUFFICES ASSUME live, ~Excused
               PROVE  /\ cookie' # NoToken
                      /\ \A q \in requests' : q.token # NoToken /\ q.at \notin {"clear", "none"}
                      /\ \A t \in Tabs : tab'[t] # "out"
    BY <1>1 DEF NothingTaken, Excused
  <2>1. After(r) # "out"
    BY <1>7 DEF After
  <2>2. \A t \in Tabs : tab'[t] = tab[t] \/ tab'[t] = After(r)
    BY <1>1 DEF TypeOK
  <2> QED BY <1>1, <1>2, <1>4, <1>7, <2>1, <2>2 DEF NothingTaken
<1>10. LogoutSteps'
  BY <1>1 DEF LogoutSteps
<1>11. LogoutEndsSession'
  BY <1>1 DEF LogoutSteps, LogoutEndsSession
<1> QED BY <1>3, <1>5, <1>6, <1>8, <1>9, <1>10, <1>11

LEMMA LoseSound ==
    ASSUME IInv, NEW r \in requests, Lose(r)
    PROVE  IInv'
<1> USE DEF IInv
<1> DEFINE new == CASE r.kind = "session" -> "away"
                    [] r.kind = "logout" -> "out" [] OTHER -> tab[r.tab]
<1>1. /\ requests' = requests \ {r} /\ tab' = [tab EXCEPT ![r.tab] = new]
      /\ lost' = (lost \/ r.at = "set") /\ losses' = losses + 1
      /\ overtaken' = (overtaken \/ r.kind = "logout")
      /\ left' = (left \/ r.kind = "logout")
      /\ UNCHANGED <<live, current, previous, grace, cookie, cache, checks, revoking,
                     late, previewed>>
  BY DEF Lose, row, access
<1>2. r.tab \in Tabs
  BY DEF TypeOK, Requests
<1>3. /\ new \in {"away", "preview", "in", "leaving", "out"}
      /\ new = "out" => r.kind = "logout" \/ tab[r.tab] = "out"
  BY <1>2 DEF TypeOK
<1> HIDE DEF new
<1>4. TypeOK'
  <2>1. lost' \in BOOLEAN /\ overtaken' \in BOOLEAN /\ left' \in BOOLEAN
    BY <1>1
  <2>2. tab' \in [Tabs -> {"away", "preview", "in", "leaving", "out"}]
    BY <1>1, <1>3 DEF TypeOK
  <2>3. requests' \subseteq Requests /\ \A p, q \in requests' : p.tab = q.tab => p = q
    BY <1>1 DEF TypeOK
  <2> QED BY <1>1, <2>1, <2>2, <2>3 DEF TypeOK
<1>5. TokensIssued' /\ SetIsNewest' /\ OneSet'
  BY <1>1 DEF TokensIssued, SetIsNewest, OneSet
<1>6. CurrentIsHeld'
  BY <1>1 DEF CurrentIsHeld, Excused
<1>7. NothingTaken'
  BY <1>1, <1>2, <1>3 DEF NothingTaken, Excused, TypeOK
<1>8. LogoutSteps' /\ LogoutEndsSession'
  BY <1>1 DEF LogoutSteps, LogoutEndsSession
<1> QED BY <1>4, <1>5, <1>6, <1>7, <1>8

-----------------------------------------------------------------------------
(* The theorems.                                                           *)

LEMMA InitSound == Init => IInv
<1> SUFFICES ASSUME Init PROVE IInv
  OBVIOUS
<1>1. TypeOK
  BY AuthAssumption DEF Init, TypeOK, Tokens
<1>2. TokensIssued /\ SetIsNewest /\ OneSet
  BY DEF Init, TokensIssued, SetIsNewest, OneSet
<1>3. CurrentIsHeld /\ NothingTaken
  BY AuthAssumption DEF Init, CurrentIsHeld, NothingTaken
<1>4. LogoutSteps /\ LogoutEndsSession
  BY DEF Init, LogoutSteps, LogoutEndsSession
<1> QED BY <1>1, <1>2, <1>3, <1>4 DEF IInv

LEMMA NextSound == IInv /\ [Next]_vars => IInv'
<1> SUFFICES ASSUME IInv, [Next]_vars PROVE IInv'
  OBVIOUS
<1>1. CASE Next
  BY <1>1, TabSteps, PlainSteps, RotateSound, TimeSteps, AnswerSound, LoseSound
  DEF Next, Serve
<1>2. CASE UNCHANGED vars
  BY <1>2 DEF vars, row, access, history, IInv, TypeOK, TokensIssued, SetIsNewest, OneSet,
              CurrentIsHeld, NothingTaken, Excused, LogoutSteps, LogoutEndsSession
<1> QED BY <1>1, <1>2

LEMMA Invariance == Spec => []IInv
BY InitSound, NextSound, PTL DEF Spec

\* Every state is well typed; in particular a tab has one request under way at most.
THEOREM TypeCorrect == Spec => []TypeOK
<1>1. IInv => TypeOK
  BY DEF IInv
<1> QED BY <1>1, Invariance, PTL

\* Whatever tabs refresh at once and in whatever order their answers come, the browser
\* ends up with the token the server takes, except for the causes that are named.
THEOREM CookieCurrent == Spec => []CookieIsCurrent
<1>1. IInv => CookieIsCurrent
  BY DEF IInv, CurrentIsHeld, Excused, CookieIsCurrent
<1> QED BY <1>1, Invariance, PTL

\* A lost answer alone, or tabs that race, sign nobody out of a session that lives.
THEOREM SignOut == Spec => []SignedOutForCause
<1>1. IInv => SignedOutForCause
  BY DEF IInv, NothingTaken, Excused, SignedOutForCause
<1> QED BY <1>1, Invariance, PTL

\* A tab is told that it is logged out only when the row is gone, or when its token was
\* superseded before it was verified.
THEOREM LogoutEnds == Spec => []LogoutEndsSession
<1>1. IInv => LogoutEndsSession
  BY DEF IInv
<1> QED BY <1>1, Invariance, PTL
=============================================================================
