--------------------------- MODULE PortalSession ---------------------------
(***************************************************************************)
(* The session of a user of the portal: the token and the profile that the *)
(* tabs of his browser share in localStorage, the requests they send under *)
(* the token, and the answers, each of which a tab handles in one turn     *)
(* (platform/portal/src/app: auth.service.ts, auth.interceptor.ts,         *)
(* auth.guard.ts, the header, the login and the profile page).  A request  *)
(* carries the token it found when it was sent; its answer meets the       *)
(* session of its arrival.                                                 *)
(***************************************************************************)
EXTENDS Naturals, FiniteSets

CONSTANTS
    People,    \* who may log in
    Nobody,
    Tabs,      \* tabs of one browser
    MaxCalls,  \* bound: requests in flight
    MaxTokens, \* bound: tokens the API issues
    MaxEvents  \* bound: the application loaded anew, tokens that expire, users deleted and (de)activated

ASSUME SessionAssumption ==
    /\ Nobody \notin People
    /\ MaxTokens \in Nat \ {0} /\ {MaxCalls, MaxEvents} \subseteq Nat

VARIABLES
    token,   \* plat_auth_token
    profile, \* plat_user_profile: whose it is
    page,    \* what each tab shows: the login page, or the application with its header
    calls,   \* the requests in flight
    issued,  \* tokens issued so far
    dead,    \* tokens that have expired
    deleted, \* users who were deleted
    inactive, \* users whose account is inactive
    events,  \* what MaxEvents counts
    clean    \* history: when the token was stored no other request was in flight

sessionVars == <<token, profile, page, calls, issued, dead, deleted, inactive, events, clean>>

Token == [no : 1 .. MaxTokens, of : People]
NoToken == [no |-> 0, of |-> Nobody]

CallKinds == {"login", "me", "poll"}
Call == [tab : Tabs, kind : CallKinds, nth : {1, 2}, token : Token \cup {NoToken},
         answer : {"none", "ok", "refused", "failed"}]

SessionTypeOK ==
    /\ token \in Token \cup {NoToken} /\ profile \in People \cup {Nobody}
    /\ page \in [Tabs -> {"login", "app"}] /\ calls \subseteq Call
    /\ issued \in 0 .. MaxTokens /\ dead \subseteq 1 .. MaxTokens /\ {deleted, inactive} \subseteq SUBSET People
    /\ events \in 0 .. MaxEvents /\ clean \in BOOLEAN

SessionInit ==
    /\ token = NoToken /\ profile = Nobody
    /\ page = [t \in Tabs |-> "login"]
    /\ calls = {}
    /\ issued = 0 /\ dead = {} /\ deleted = {} /\ inactive = {} /\ events = 0 /\ clean = TRUE

NthCall(t, kind, nth, tok) == [tab |-> t, kind |-> kind, nth |-> nth, token |-> tok, answer |-> "none"]
NewCall(t, kind, tok) == NthCall(t, kind, 1, tok)
Waits(t, kind, nth) == \E r \in calls : r.kind = kind /\ r.tab = t /\ r.nth = nth
Bounded == Cardinality(calls') <= MaxCalls

\* expressAuthenticate answers 401 to a token that is not valid or whose user is not found, and 403
\* to one whose user is inactive; only the 401 means something to the portal.
Valid(tok) == tok # NoToken /\ tok.no \notin dead /\ tok.of \notin deleted
Accepted(tok) == Valid(tok) /\ tok.of \notin inactive

Event == events < MaxEvents /\ events' = events + 1

-----------------------------------------------------------------------------
(* localStorage *)

\* The token and the decoded profile, stored in one turn; others are the requests still in flight.
StoreSession(tok, others) ==
    /\ token' = tok /\ profile' = tok.of
    /\ clean' = (others = {})

ClearSession == token' = NoToken /\ profile' = Nobody

OthersOf(t) == {r \in calls : r.tab # t}

\* The page is loaded anew, which cancels the tab's requests; the header, if it is shown, asks who
\* the user is.  isAuthenticated looks at the expiry only, and clears a session that has expired.
Load(t) ==
    /\ IF token # NoToken /\ token.no \notin dead
       THEN /\ calls' = OthersOf(t) \cup {NewCall(t, "me", token)} /\ page' = [page EXCEPT ![t] = "app"]
            /\ Event /\ UNCHANGED <<token, profile>>
       ELSE /\ IF token # NoToken THEN ClearSession ELSE UNCHANGED <<token, profile>>
            /\ page' = [page EXCEPT ![t] = "login"] /\ calls' = OthersOf(t)
            /\ UNCHANGED events
    /\ Bounded
    /\ UNCHANGED <<issued, dead, deleted, inactive, clean>>

\* A login by GitHub or GitLab comes back to the portal with the token in the URL.
LoadWithToken(t, u) ==
    LET tok == [no |-> issued + 1, of |-> u] IN
    /\ issued < MaxTokens /\ u \notin deleted \cup inactive
    /\ issued' = issued + 1
    /\ StoreSession(tok, OthersOf(t))
    /\ calls' = OthersOf(t) \cup {NewCall(t, "me", tok)} /\ page' = [page EXCEPT ![t] = "app"]
    /\ Bounded
    /\ UNCHANGED <<dead, deleted, inactive, events>>

\* The sidebar's logout.
LogsOut(t) ==
    /\ page[t] = "app"
    /\ ClearSession /\ page' = [page EXCEPT ![t] = "login"]
    /\ UNCHANGED <<calls, issued, dead, deleted, inactive, events, clean>>

-----------------------------------------------------------------------------
(* Requests *)

Send(t, kind, nth, tok) ==
    /\ ~Waits(t, kind, nth)
    /\ calls' = calls \cup {NthCall(t, kind, nth, tok)} /\ Bounded
    /\ UNCHANGED <<token, profile, page, issued, dead, deleted, inactive, events, clean>>

\* The button is disabled until the answer has come; the Enter key sends another login (bound: two of
\* a tab).
SendLogin(t) ==
    /\ page[t] = "login"
    /\ \E nth \in {1, 2} : (nth = 2 => Waits(t, "login", 1)) /\ Send(t, "login", nth, NoToken)

\* The header's timer, which asks for the notifications (bound: one such request of a tab).
Poll(t) == page[t] = "app" /\ Send(t, "poll", 1, token)

\* The profile page changes the password with a wrong current one, which the API answers with 401 too
\* (bound: nothing happens between the request and its answer).
WrongCurrentPassword(t) ==
    /\ page[t] = "app" /\ (Valid(token) => Accepted(token))
    /\ ClearSession /\ page' = [page EXCEPT ![t] = "login"]
    /\ UNCHANGED <<calls, issued, dead, deleted, inactive, events, clean>>

Becomes(r, answer) == calls' = (calls \ {r}) \cup {answer}
Ends(r) == calls' = calls \ {r}

\* The API's verdict: a login by any active user is answered with his token or refused; a token that is
\* not valid is refused.  When the database fails, a valid token is answered with 401 as well.  An
\* answer that changes nothing in the browser, as a 403 or a 500, is received at once; so is the
\* failure of the network (bound: for the question who the user is).
Respond(r) ==
    /\ r.answer = "none"
    /\ \/ /\ r.kind = "login" /\ issued < MaxTokens /\ issued' = issued + 1
          /\ \E u \in People \ (deleted \cup inactive) :
                Becomes(r, [r EXCEPT !.answer = "ok", !.token = [no |-> issued + 1, of |-> u]])
       \/ /\ r.kind = "login" \/ ~Valid(r.token)
          /\ Becomes(r, [r EXCEPT !.answer = "refused"]) /\ UNCHANGED issued
       \/ /\ r.kind # "login" /\ Valid(r.token)
          /\ Becomes(r, [r EXCEPT !.answer = "failed"]) /\ UNCHANGED issued
       \/ /\ r.kind = "me" /\ Accepted(r.token)
          /\ Becomes(r, [r EXCEPT !.answer = "ok"]) /\ UNCHANGED issued
       \/ /\ r.kind = "me" \/ (r.kind = "poll" /\ Valid(r.token))
          /\ Ends(r) /\ UNCHANGED issued
    /\ UNCHANGED <<token, profile, page, dead, deleted, inactive, events, clean>>

-----------------------------------------------------------------------------
(* Answers *)

\* AuthService.login: the session is stored and the tab goes to the dashboard; its header asks who
\* the user is.
LoggedIn(r) ==
    /\ r.kind = "login" /\ r.answer = "ok"
    /\ StoreSession(r.token, calls \ {r})
    /\ page' = [page EXCEPT ![r.tab] = "app"]
    /\ Becomes(r, NewCall(r.tab, "me", r.token))
    /\ UNCHANGED <<issued, dead, deleted, inactive, events>>

\* Mutant: the interceptor does not except logins.
UnauthorizedAny(r) ==
    /\ r.answer \in {"refused", "failed"}
    /\ ClearSession /\ page' = [page EXCEPT ![r.tab] = "login"]
    /\ Ends(r)
    /\ UNCHANGED <<issued, dead, deleted, inactive, events, clean>>

\* Mutant: the session is cleared and the tab stays where it is.
UnauthorizedStays(r) ==
    /\ r.answer \in {"refused", "failed"}
    /\ IF r.kind = "login" THEN UNCHANGED <<token, profile>> ELSE ClearSession
    /\ Ends(r)
    /\ UNCHANGED <<page, issued, dead, deleted, inactive, events, clean>>

\* authInterceptor: any 401 but a login's ends the session, whichever it was sent under.
Unauthorized(r) ==
    /\ r.answer \in {"refused", "failed"}
    /\ IF r.kind = "login" THEN UNCHANGED <<token, profile, page>>
       ELSE ClearSession /\ page' = [page EXCEPT ![r.tab] = "login"]
    /\ Ends(r)
    /\ UNCHANGED <<issued, dead, deleted, inactive, events, clean>>

\* setUser puts what GET /users/me says over the profile that is stored by then.
Refreshed(r) ==
    /\ r.kind = "me" /\ r.answer = "ok"
    /\ profile' = r.token.of
    /\ Ends(r)
    /\ UNCHANGED <<token, page, issued, dead, deleted, inactive, events, clean>>

Receive(r) == LoggedIn(r) \/ Unauthorized(r) \/ Refreshed(r)

-----------------------------------------------------------------------------
\* Bound: of a token that is stored or in a request.
Expire ==
    /\ \E tok \in {token} \cup {r.token : r \in calls} :
          tok # NoToken /\ tok.no \notin dead /\ dead' = dead \cup {tok.no}
    /\ Event
    /\ UNCHANGED <<token, profile, page, calls, issued, deleted, inactive, clean>>
DeleteUser ==
    /\ \E u \in People \ deleted : deleted' = deleted \cup {u}
    /\ Event
    /\ UNCHANGED <<token, profile, page, calls, issued, dead, inactive, clean>>
SetActive ==
    /\ \E u \in People \ deleted : inactive' = IF u \in inactive THEN inactive \ {u} ELSE inactive \cup {u}
    /\ Event
    /\ UNCHANGED <<token, profile, page, calls, issued, dead, deleted, clean>>

SessionNext ==
    \/ \E t \in Tabs :
          \/ Load(t) \/ LogsOut(t)
          \/ \E u \in People : LoadWithToken(t, u)
          \/ SendLogin(t) \/ Poll(t) \/ WrongCurrentPassword(t)
    \/ \E r \in calls : Respond(r) \/ Receive(r)
    \/ Expire \/ DeleteUser \/ SetActive

\* The timer fires and requests are answered; the browser has no bound on requests in flight, so
\* that a poll that finds no place for a while must come in the end.
SessionFairness ==
    \A t \in Tabs :
        /\ SF_sessionVars(Poll(t))
        /\ WF_sessionVars(\E r \in calls : r.tab = t /\ (Respond(r) \/ Receive(r)))

-----------------------------------------------------------------------------
(* Properties *)

\* The stored profile is the token's user, whose name the header shows and whose role decides what
\* the portal offers - if no request of an earlier session was in flight when the token was stored.
ProfileIsTokens == clean /\ token # NoToken => profile = token.of

\* A session of a valid token, begun with no other request in flight, is ended by nothing but a
\* logout, the next login, a wrong current password on the profile page, or the 401 with which
\* the API answers while its database fails.
SessionKept ==
    [][clean /\ Valid(token) /\ token' = NoToken =>
          \/ \E t \in Tabs : LogsOut(t) \/ WrongCurrentPassword(t)
          \/ \E r \in calls : r.answer = "failed" /\ Unauthorized(r)]_token

\* Every tab of the application comes to the login page once the session has ended or its token is no
\* longer valid, unless somebody has logged in meanwhile.  The tabs of an inactive user stay.
TabsFollow ==
    \A t \in Tabs : page[t] = "app" /\ ~Valid(token) ~> page[t] = "login" \/ Valid(token)
=============================================================================
