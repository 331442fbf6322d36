----------------------------- MODULE Sessions -------------------------------
(***************************************************************************)
(* Sign-in sessions: rotation of refresh tokens and detection of their     *)
(* reuse on the server (src/auth/service.ts), and the web client that      *)
(* shares one cookie between its tabs and collapses concurrent refreshes   *)
(* of a tab into one (web/src/api/client.ts, web/src/auth/AuthProvider).   *)
(* A token is the session it belongs to and its generation; only its hash  *)
(* is stored, of the current and of the previous generation.               *)
(***************************************************************************)
EXTENDS Naturals

CONSTANTS
  People,       \* users
  Tabs,         \* open tabs of one browser
  Calls,        \* API calls a tab has under way at a time, besides logout
  Nothing,      \* no cookie, no token, nobody
  MaxSessions,  \* sessions opened in a behaviour (a bound)
  MaxRotations, \* generations of refresh tokens of a session (a bound)
  MaxResets,    \* password resets asked for in a behaviour (a bound)
  MaxDrops      \* refreshes whose answer the tab never gets (a bound)

(* Refresh tokens, and requests to refresh or their answers.                *)
Tokens == [s : 1 .. MaxSessions, gen : Nat]
Flights == [at : {"sent", "rotated", "refused"}, token : Tokens \cup {Nothing}]

ASSUME SessionsAssumption ==
  /\ Nothing \notin People \cup Tabs \cup Calls
  /\ Nothing \notin (1 .. MaxSessions) \cup Tokens \cup Flights
  /\ "logout" \notin Calls
  /\ {MaxSessions, MaxRotations, MaxResets, MaxDrops} \subseteq Nat

VARIABLES
  session,   \* sessions rows: user, generation of token_hash, revoked_at
  tally,     \* live sessions a replayed token revoked, resets asked for, drops so far,
             \* whether someone signed in before the last session was signed out of
  resetTokens, \* password_reset rows of each user that are neither consumed nor expired
  cookie,    \* the browser's refresh cookie
  tab,       \* each tab: status, user shown, access token, overlay
  refreshing,\* each tab's refreshInFlight: Nothing, or the request or its answer
  call       \* each call of each tab: where it is, with which access token
sessionsVars == <<session, tally, resetTokens, cookie, tab, refreshing, call>>

Ids == DOMAIN session
NextId == CHOOSE n \in 1 .. MaxSessions : n \notin Ids /\ \A m \in 1 .. MaxSessions : m < n => m \in Ids
Room == \E n \in 1 .. MaxSessions : n \notin Ids
Alive(s) == s \in Ids /\ ~session[s].revoked
AllCalls == Calls \cup {"logout"}
NoCall == [at |-> "none", with |-> Nothing]
FreshTab == [status |-> "loading", shows |-> Nothing, access |-> Nothing, reauth |-> FALSE]

SessionsInit ==
  /\ session = <<>>
  /\ tally = [reuses |-> 0, resets |-> 0, drops |-> 0, crossed |-> FALSE]
  /\ resetTokens = [u \in People |-> 0]
  /\ cookie = Nothing
  /\ tab = [t \in Tabs |-> FreshTab]
  /\ refreshing = [t \in Tabs |-> Nothing]
  /\ call = [t \in Tabs |-> [c \in AllCalls |-> NoCall]]

Set(t, r) == tab' = [tab EXCEPT ![t] = r]
Revoke(S) == session' = [s \in Ids |-> IF s \in S THEN [session[s] EXCEPT !.revoked = TRUE]
                                                 ELSE session[s]]

(* Mutant: every caller starts a refresh of its own.                        *)
StartRefresh(t) == refreshing' = [refreshing EXCEPT ![t] = [at |-> "sent", token |-> cookie]]

(* AuthProvider on load, and every call that was refused: they share the    *)
(* refresh in flight, or start one with the cookie the browser holds now.   *)
JoinRefresh(t) ==
  refreshing' = [refreshing EXCEPT ![t] =
                   IF @ = Nothing THEN [at |-> "sent", token |-> cookie] ELSE @]

Bootstrap(t) ==
  /\ tab[t].status = "loading" /\ refreshing[t] = Nothing
  /\ JoinRefresh(t)
  /\ UNCHANGED <<session, tally, resetTokens, cookie, tab, call>>

(* refresh(): the current token is rotated; the previous one, which should  *)
(* never come back, revokes the session; anything else is refused.          *)
RefreshOnServer(t) ==
  /\ refreshing[t] # Nothing /\ refreshing[t].at = "sent"
  /\ LET k == refreshing[t].token
         Answer(r) == refreshing' = [refreshing EXCEPT ![t] = [at |-> r, token |-> k]]
     IN  \/ /\ k # Nothing /\ Alive(k.s) /\ k.gen = session[k.s].gen
            /\ k.gen < MaxRotations
            /\ session' = [session EXCEPT ![k.s].gen = @ + 1]
            /\ refreshing' = [refreshing EXCEPT ![t] =
                                [at |-> "rotated", token |-> [k EXCEPT !.gen = @ + 1]]]
            /\ UNCHANGED tally
         \/ /\ k # Nothing /\ k.gen + 1 = session[k.s].gen
            /\ Revoke({k.s})
            /\ tally' = [tally EXCEPT !.reuses = IF Alive(k.s) THEN @ + 1 ELSE @]
            /\ Answer("refused")
         \/ /\ IF k = Nothing THEN TRUE
               ELSE /\ ~(Alive(k.s) /\ k.gen = session[k.s].gen)
                    /\ k.gen + 1 # session[k.s].gen
            /\ Answer("refused")
            /\ UNCHANGED <<session, tally>>
  /\ UNCHANGED <<resetTokens, cookie, tab, call>>

(* The answer arrives: the cookie and the access token are replaced, every  *)
(* waiting call is sent again; or all fail and the overlay is raised.       *)
WaitingCalls(t) == {c \in AllCalls : call[t][c].at = "waiting"}
After(t, at, with) ==
  call' = [call EXCEPT ![t] = [c \in AllCalls |->
             IF c \in WaitingCalls(t) THEN [at |-> at, with |-> with] ELSE call[t][c]]]
Overlaid(r, raise) == [r EXCEPT !.reauth = @ \/ (raise /\ r.status = "authed")]

RefreshSucceeds(t) ==
  /\ refreshing[t] # Nothing /\ refreshing[t].at = "rotated"
  /\ LET k == refreshing[t].token IN
       /\ cookie' = k
       /\ Set(t, [tab[t] EXCEPT !.access = k.s,
                    !.status = IF @ = "loading" THEN "authed" ELSE @,
                    !.shows  = IF tab[t].status = "loading" THEN session[k.s].user ELSE @])
       /\ After(t, "again", k.s)
  /\ refreshing' = [refreshing EXCEPT ![t] = Nothing]
  /\ UNCHANGED <<session, tally, resetTokens>>

(* dropped: fetch() itself failed, and the access token stays as it was.    *)
RefreshFails(t, dropped) ==
  /\ refreshing[t] # Nothing
  /\ dropped \/ refreshing[t].at = "refused"
  /\ dropped => tally.drops < MaxDrops
  /\ tally' = [tally EXCEPT !.drops = IF dropped THEN @ + 1 ELSE @]
  /\ LET r == [tab[t] EXCEPT !.access = IF dropped THEN @ ELSE Nothing,
                             !.status = IF @ = "loading" THEN "anon" ELSE @]
     IN  Set(t, Overlaid(r, WaitingCalls(t) # {}))
  /\ call' = [call EXCEPT ![t] = [c \in AllCalls |->
                IF c \notin WaitingCalls(t) THEN call[t][c]
                ELSE [NoCall EXCEPT !.at = IF c = "logout" THEN "done" ELSE "none"]]]
  /\ refreshing' = [refreshing EXCEPT ![t] = Nothing]
  /\ UNCHANGED <<session, resetTokens, cookie>>

(* apiFetch: send, be answered (an access token lives 15 minutes, so even   *)
(* one of a live session may be refused), and once more after a refresh.    *)
SendCall(t, c) ==
  /\ tab[t].status = "authed"
  /\ call[t][c] = NoCall
  /\ call' = [call EXCEPT ![t][c] = [at |-> "sent", with |-> tab[t].access]]
  /\ UNCHANGED <<session, tally, resetTokens, cookie, tab, refreshing>>

(* Mutant: signing out leaves the session as it is.                         *)
AcceptedUnrevoked(t, c) ==
  /\ call[t][c].at \in {"sent", "again"} /\ Alive(call[t][c].with)
  /\ call' = [call EXCEPT ![t][c] = IF c = "logout" THEN [@ EXCEPT !.at = "done"] ELSE NoCall]
  /\ UNCHANGED <<session, tally, resetTokens, cookie, tab, refreshing>>

Accepted(t, c) ==
  /\ call[t][c].at \in {"sent", "again"} /\ Alive(call[t][c].with)
  /\ IF c = "logout" THEN Revoke({call[t][c].with}) ELSE UNCHANGED session
  /\ call' = [call EXCEPT ![t][c] = IF c = "logout" THEN [@ EXCEPT !.at = "done"] ELSE NoCall]
  /\ UNCHANGED <<tally, resetTokens, cookie, tab, refreshing>>

Refused(t, c) ==
  /\ call[t][c].at = "sent"
  /\ call' = [call EXCEPT ![t][c].at = "waiting"]
  /\ JoinRefresh(t)
  /\ UNCHANGED <<session, tally, resetTokens, cookie, tab>>

RefusedAgain(t, c) ==
  /\ call[t][c].at = "again" /\ ~Alive(call[t][c].with)
  /\ call' = [call EXCEPT ![t][c] = IF c = "logout" THEN [NoCall EXCEPT !.at = "done"] ELSE NoCall]
  /\ Set(t, Overlaid(tab[t], TRUE))
  /\ UNCHANGED <<session, tally, resetTokens, cookie, refreshing>>

(* logout() of the AuthProvider: an answer of any kind ends in "anon"; only *)
(* a successful one carries the header that clears the cookie.              *)
LogoutReturns(t) ==
  /\ call[t]["logout"].at = "done"
  /\ cookie' = IF call[t]["logout"].with # Nothing THEN Nothing ELSE cookie
  /\ call' = [call EXCEPT ![t]["logout"] = NoCall]
  /\ Set(t, [tab[t] EXCEPT !.access = Nothing, !.shows = Nothing, !.status = "anon"])
  /\ UNCHANGED <<session, tally, resetTokens, refreshing>>

(* login() with createSession: from the sign-in page, or from the overlay,  *)
(* which is for the user shown.                                             *)
Login(t, u) ==
  /\ Room
  /\ \/ tab[t].status = "anon"
     \/ tab[t].status = "authed" /\ tab[t].reauth /\ tab[t].shows = u
  /\ session' = [s \in Ids \cup {NextId} |->
                   IF s = NextId THEN [user |-> u, gen |-> 0, revoked |-> FALSE] ELSE session[s]]
  /\ cookie' = [s |-> NextId, gen |-> 0]
  /\ Set(t, [status |-> "authed", shows |-> u, access |-> NextId, reauth |-> FALSE])
  /\ tally' = [tally EXCEPT !.crossed =
                 @ \/ call[t]["logout"] # NoCall \/ (cookie # Nothing /\ Alive(cookie.s))]
  /\ UNCHANGED <<resetTokens, refreshing, call>>

(* A page load forgets the tab's memory; a refresh in flight is dropped.    *)
Reload(t) ==
  /\ tab[t].status # "loading"
  /\ refreshing[t] # Nothing => tally.drops < MaxDrops
  /\ tally' = [tally EXCEPT !.drops = IF refreshing[t] # Nothing THEN @ + 1 ELSE @]
  /\ Set(t, FreshTab)
  /\ refreshing' = [refreshing EXCEPT ![t] = Nothing]
  /\ call' = [call EXCEPT ![t] = [c \in AllCalls |-> NoCall]]
  /\ UNCHANGED <<session, resetTokens, cookie>>

(* The Security tab and other devices: revokeSession of a listed session,   *)
(* logoutEverywhere of all of them.                                         *)
ListSessions(u) == {s \in Ids : session[s].user = u /\ Alive(s)}

RevokeElsewhere(S) ==
  /\ S # {}
  /\ Revoke(S)
  /\ UNCHANGED <<tally, resetTokens, cookie, tab, refreshing, call>>

(* The tab revokes the session it is in: the answer clears the cookie and   *)
(* logout() follows, whose call will be refused.                            *)
RevokeCurrent(t) ==
  /\ tab[t].status = "authed" /\ Alive(tab[t].access)
  /\ call[t]["logout"] = NoCall
  /\ Revoke({tab[t].access})
  /\ cookie' = Nothing
  /\ call' = [call EXCEPT ![t]["logout"] = [at |-> "sent", with |-> tab[t].access]]
  /\ UNCHANGED <<tally, resetTokens, tab, refreshing>>

(* Tokens asked for earlier stay good when another one is asked for or used.*)
RequestPasswordReset(u) ==
  /\ tally.resets < MaxResets
  /\ tally' = [tally EXCEPT !.resets = @ + 1]
  /\ resetTokens' = [resetTokens EXCEPT ![u] = @ + 1]
  /\ UNCHANGED <<session, cookie, tab, refreshing, call>>

(* resetPassword consumes one token and revokes every session of the user.  *)
ResetPassword(u) ==
  /\ resetTokens[u] > 0
  /\ resetTokens' = [resetTokens EXCEPT ![u] = @ - 1]
  /\ Revoke(ListSessions(u))
  /\ UNCHANGED <<tally, cookie, tab, refreshing, call>>

SessionsNext ==
  \/ \E t \in Tabs :
       \/ Bootstrap(t) \/ RefreshOnServer(t) \/ RefreshSucceeds(t)
       \/ \E d \in BOOLEAN : RefreshFails(t, d)
       \/ \E c \in AllCalls : SendCall(t, c) \/ Accepted(t, c) \/ Refused(t, c) \/ RefusedAgain(t, c)
       \/ LogoutReturns(t) \/ Reload(t) \/ RevokeCurrent(t)
       \/ \E u \in People : Login(t, u)
  \/ \E u \in People :
       \/ \E s \in ListSessions(u) : RevokeElsewhere({s})
       \/ RevokeElsewhere(ListSessions(u)) \/ RequestPasswordReset(u) \/ ResetPassword(u)

SessionsSpec == SessionsInit /\ [][SessionsNext]_sessionsVars

-----------------------------------------------------------------------------
(* The detection of stolen tokens signs out a working browser only for an   *)
(* answer that never reached it: concurrent refusals, reloads and sign-ins  *)
(* never present a replaced token.  What the single flight of client.ts and *)
(* the cookie are for.                                                      *)
NoFalseAlarm == tally.reuses <= tally.drops

(* A tab never acts for another user than the one it shows, although late   *)
(* answers of an earlier sign-in still write the token and the cookie, as   *)
(* long as no answer was lost and nobody signed in with a sign-out under    *)
(* way or with the cookie of a live session still in the browser.           *)
ActsAsShown ==
  tally.drops = 0 /\ ~tally.crossed =>
    \A t \in Tabs : tab[t].status = "authed" /\ Alive(tab[t].access) =>
                    session[tab[t].access].user = tab[t].shows
=============================================================================
