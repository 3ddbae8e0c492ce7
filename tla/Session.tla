------------------------------- MODULE Session -------------------------------
(* The signed-in session of one browser tab: what AuthContext keeps in      *)
(* memory and in the browser's storage, the requests it sends, the route    *)
(* effects and the idle timer of App.tsx, and the redirect of apiFetch on a *)
(* 401.  Requests are served in any order and answered in any order.  The   *)
(* server (routers/auth.py) is what its endpoints do: it knows each user's  *)
(* role version and whether a password change is due, and which tokens are  *)
(* still good.                                                              *)
(* Bounds: MaxVersion role edits, MaxTokens sign-ins, MaxFailures lost      *)
(* answers, one poll and one sign-in at a time, and a page's request only   *)
(* while fewer than MaxOpen requests are in flight.                         *)
EXTENDS Integers, FiniteSets

CONSTANTS
  User,         \* the people who sign in
  NewUser,      \* those who must change a first password
  Home, Login,  \* the routes: behind the sign-in, and the sign-in
  None,         \* nothing stored, nobody signed in
  Countdown,    \* seconds the idle warning leaves (300)
  MaxVersion, MaxTokens, MaxFailures, MaxOpen

ASSUME SessionAssumption ==
  /\ None \notin User
  /\ NewUser \subseteq User
  /\ Home # Login
  /\ Countdown \in Nat \ {0}
  /\ MaxVersion \in Nat /\ MaxTokens \in Nat /\ MaxFailures \in Nat
  /\ MaxOpen \in Nat \ {0}

VARIABLES
  user, token, loading, caps,  \* the provider's state
  untold,                      \* a change of the password this page is not told of
  warned, countdown, away,     \* idle: the warning, its seconds, hours away
  path,                        \* the route the tab shows
  leaving,                     \* unauthorizedRedirectInFlight
  store,                       \* localStorage
  calls,                       \* requests and their answers in flight
  version, due,                \* server: of the roles; password change due
  stray,                       \* server: password changes of pages that are gone
  issued, valid, failures      \* server: tokens given, still good; answers lost

view == <<user, token, loading, caps, untold>>
idle == <<warned, countdown, away>>
server == <<version, due, stray, issued, valid>>
vars == <<view, idle, path, leaving, store, calls, server, failures>>

Token == [of : User, n : 1..MaxTokens]
Person == [id : User, first : BOOLEAN]
Grants == [of : User, version : 0..MaxVersion]

ASSUME NoneAssumption == None \notin Token \cup Person \cup Grants

Storage == [token : Token \cup {None}, user : Person \cup {None},
            caps : Grants \cup {None}]
Kinds == {"caps", "caps0", "me", "login", "password", "api"}
Sent == [tag |-> "sent"]
Refused == [tag |-> "refused"]
Lost == [tag |-> "lost"]
Ok(x) == [tag |-> "ok", value |-> x]
Answer == {Sent, Refused, Lost} \cup
          [tag : {"ok"}, value : Grants \cup Person \cup [token : Token, user : Person] \cup {None}]
Request == [kind : Kinds, with : Token \cup {None}, by : User \cup {None}, got : Answer]

(* Each part of the tab, of its storage and of its requests has its type.   *)
TypeOK ==
  /\ user \in Person \cup {None} /\ token \in Token \cup {None}
  /\ caps \in Grants \cup {None} /\ loading \in BOOLEAN
  /\ warned \in BOOLEAN /\ countdown \in 0..Countdown /\ away \in 0..2
  /\ path \in {Home, Login} /\ leaving \in BOOLEAN
  /\ store \in Storage /\ calls \subseteq Request
  /\ version \in 0..MaxVersion /\ due \in [User -> BOOLEAN]
  /\ stray \subseteq Token \cup {None} /\ untold \in BOOLEAN
  /\ issued \in 0..MaxTokens /\ valid \subseteq 1..MaxTokens
  /\ failures \in 0..MaxFailures

isAuthenticated == user # None /\ token # None
Due(u) == [id |-> u, first |-> due[u]]
Call(kind, with) == [kind |-> kind, with |-> with, by |-> None, got |-> Sent]
Open(kind) == {c \in calls : c.kind = kind}
Good(t) == t # None /\ t.n \in valid
SignedOut(s) == [s EXCEPT !.token = None, !.user = None, !.caps = None]

\* The two route effects: signed out, show the sign-in; signed in, leave it
\* (for the page remembered, which is one of those behind it).
Route(at, in, busy) == path' = IF busy THEN at ELSE IF in THEN Home ELSE Login

-----------------------------------------------------------------------------
(* Loading the page.                                                        *)

Init ==
  /\ user = None /\ token = None /\ caps = None /\ loading = FALSE
  /\ warned = FALSE /\ countdown = Countdown /\ away = 0
  /\ path = Login /\ leaving = FALSE /\ calls = {}
  /\ store = [token |-> None, user |-> None, caps |-> None]
  /\ version = 0 /\ due = [u \in User |-> u \in NewUser]
  /\ stray = {} /\ untold = FALSE
  /\ issued = 0 /\ valid = {} /\ failures = 0

\* The changes of the password that the server has not come to and that would
\* end a demand; the token each was sent with.
Unserved(requests) ==
  {c.with : c \in {d \in requests : d.kind = "password" /\ d.got = Sent /\ due[d.with.of]}}

\* A full page load restores the session from storage and has checkAuth ask
\* /me and /me/capabilities in parallel.  No answer to the page before reaches
\* this one, but the server may still come to what it asked: of that a change
\* of the password matters here (a sign-in would give a token to nobody).
Reloads(busy) ==
  /\ user' = store.user /\ token' = store.token /\ caps' = store.caps
  /\ loading' = busy
  /\ warned' = FALSE /\ countdown' = Countdown /\ away' = 0 /\ leaving' = FALSE
  /\ calls' = IF store.token = None THEN {}
              ELSE {Call("me", store.token), Call("caps0", store.token)}
  /\ stray' = stray \cup Unserved(calls) /\ untold' = FALSE
  /\ Route(IF leaving THEN Login ELSE path, store.user # None /\ store.token # None, busy)
  /\ UNCHANGED <<store, version, due, issued, valid, failures>>
(* Faulty: the page does not wait for /me. *)
LoadAtOnce == Reloads(FALSE)
Load == Reloads(store.token # None)

-----------------------------------------------------------------------------
(* What the user does.                                                      *)

Asks(c) == calls' = calls \cup {c}
Elsewhere == UNCHANGED <<view, path, leaving, store, server, failures>>

SignIn(u) ==
  /\ ~loading /\ ~isAuthenticated /\ Open("login") = {}
  /\ issued < MaxTokens
  /\ Asks([Call("login", None) EXCEPT !.by = u])
  /\ UNCHANGED idle /\ Elsewhere

\* logout: the caller says what becomes of the rest of the provider.
logout ==
  /\ user' = None /\ token' = None /\ caps' = None
  /\ warned' = FALSE /\ countdown' = Countdown /\ untold' = FALSE
  /\ store' = SignedOut(store)
  /\ Route(path, FALSE, FALSE)

\* The page's own sign-out; a press first dismisses an open warning.
SignOut ==
  /\ isAuthenticated /\ ~loading /\ ~user.first
  /\ logout
  /\ away' = 0
  /\ UNCHANGED <<loading, leaving, calls, server, failures>>

\* On a page: not loading, signed in, and no password change is due.
OnPage == isAuthenticated /\ ~loading /\ ~user.first
\* Any query or mutation: apiFetch reads the token from storage.
Fetch ==
  /\ OnPage /\ Cardinality(calls) < MaxOpen
  /\ Asks(Call("api", store.token))
  /\ UNCHANGED idle /\ Elsewhere

ChangePassword ==
  /\ isAuthenticated /\ ~loading /\ user.first /\ Open("password") = {}
  /\ Asks(Call("password", token))
  /\ UNCHANGED idle /\ Elsewhere

-----------------------------------------------------------------------------
(* The timers.                                                              *)

(* Faulty: only missing capabilities are polled. *)
PollWhenMissing ==
  /\ isAuthenticated /\ caps = None /\ Open("caps") = {}
  /\ Asks(Call("caps", token))
  /\ UNCHANGED idle /\ Elsewhere
\* The minute's poll of the capabilities, and the one on return to the tab.
Poll ==
  /\ isAuthenticated /\ Open("caps") = {}
  /\ Asks(Call("caps", token))
  /\ UNCHANGED idle /\ Elsewhere

\* Hours pass without a key or a press: 23 (1), then 24 (2).  A request does
\* not outlive them.
Tick ==
  /\ away < 2 /\ calls = {} /\ stray = {}
  /\ away' = away + 1
  /\ UNCHANGED <<warned, countdown, calls>> /\ Elsewhere

\* The minute's check of the idle time.
IdleCheck ==
  /\ isAuthenticated
  /\ \/ /\ away = 2
        /\ logout
        /\ UNCHANGED <<loading, away, leaving, calls, server, failures>>
     \/ /\ away = 1 /\ ~warned
        /\ warned' = TRUE
        /\ UNCHANGED <<countdown, away, calls>> /\ Elsewhere

\* A second of the warning; the last one signs out.
CountDown ==
  /\ warned
  /\ \/ /\ countdown <= 1
        /\ logout
        /\ UNCHANGED <<loading, away, leaving, calls, server, failures>>
     \/ /\ countdown > 1
        /\ countdown' = countdown - 1
        /\ UNCHANGED <<warned, away, calls>> /\ Elsewhere

(* Faulty: the warning stays. *)
ActKeepsWarning ==
  /\ isAuthenticated /\ away # 0
  /\ away' = 0
  /\ UNCHANGED <<warned, countdown, calls>> /\ Elsewhere
\* A key or a press anywhere (also "Stay Logged In"): updateActivity.
Act ==
  /\ isAuthenticated /\ away # 0
  /\ away' = 0 /\ warned' = FALSE /\ countdown' = Countdown
  /\ UNCHANGED calls /\ Elsewhere

-----------------------------------------------------------------------------
(* The server, the network and another tab.                                 *)

\* An admin edits the roles.
AdminChanges ==
  /\ version < MaxVersion /\ version' = version + 1
  /\ UNCHANGED <<view, idle, path, leaving, store, calls, due, stray, issued, valid,
                 failures>>

\* The oldest token still good runs out.
Expire(n) ==
  /\ n \in valid /\ \A o \in valid : n <= o
  /\ valid' = valid \ {n}
  /\ UNCHANGED <<view, idle, path, leaving, store, calls, version, due, stray, issued,
                 failures>>

\* A second tab of the browser signs someone in or out.
OtherTab ==
  /\ \/ /\ issued < MaxTokens /\ store.token = None
        /\ \E u \in User :
             /\ store' = [store EXCEPT !.token = [of |-> u, n |-> issued + 1], !.user = Due(u)]
             /\ issued' = issued + 1 /\ valid' = valid \cup {issued + 1}
     \/ store.token # None /\ store' = SignedOut(store) /\ UNCHANGED <<issued, valid>>
  /\ UNCHANGED <<view, idle, path, leaving, calls, version, due, stray, failures>>

\* What the server answers to a request made with a good token.
Result(c) ==
  CASE c.kind \in {"caps", "caps0"} -> Ok([of |-> c.with.of, version |-> version])
    [] c.kind = "me" -> Ok(Due(c.with.of))
    [] OTHER -> Ok(None)

\* A refused poll, like a page's request that succeeds, changes nothing here.
NoMatter(c) == \/ c.kind = "caps" /\ ~Good(c.with)
               \/ c.kind = "api" /\ Good(c.with)

Replies(c, answer) == calls' = (calls \ {c}) \cup {[c EXCEPT !.got = answer]}
Serve(kind) ==
  \E c \in Open(kind) :
    /\ c.got = Sent
    /\ IF c.kind = "login"
       THEN /\ issued < MaxTokens
            /\ issued' = issued + 1 /\ valid' = valid \cup {issued + 1}
            /\ Replies(c, Ok([token |-> [of |-> c.by, n |-> issued + 1], user |-> Due(c.by)]))
            /\ UNCHANGED due
       ELSE /\ IF NoMatter(c) THEN calls' = calls \ {c}
               ELSE Replies(c, IF Good(c.with) THEN Result(c) ELSE Refused)
            /\ due' = IF kind = "password" /\ Good(c.with)
                      THEN [due EXCEPT ![c.with.of] = FALSE] ELSE due
            /\ UNCHANGED <<issued, valid>>
    /\ UNCHANGED <<view, idle, path, leaving, store, version, stray, failures>>

\* The server comes to a change that a page now gone has sent, makes it or
\* turns it down; or it was lost on its way.
ServeStray(t) ==
  /\ t \in stray /\ stray' = stray \ {t}
  /\ \/ /\ Good(t)
        /\ due' = [due EXCEPT ![t.of] = FALSE]
        /\ untold' = (untold \/ (due[t.of] /\ \A c \in Open("me") : c.got # Sent))
     \/ UNCHANGED <<due, untold>>
  /\ UNCHANGED <<user, token, loading, caps, idle, path, leaving, store, calls, version,
                 issued, valid, failures>>

\* The password or the sign-in is turned down, whatever the token.
TurnDown(c) ==
  /\ c \in calls /\ c.got = Sent /\ c.kind \in {"login", "password"}
  /\ Replies(c, Refused)
  /\ UNCHANGED idle /\ Elsewhere

\* An answer is lost: of /me, or of a change that was made.  (Any other loss
\* does to the tab what a refusal, or nothing at all, does.)
Lose(c) ==
  /\ c \in calls
  /\ \/ c.kind = "me" /\ c.got = Sent /\ UNCHANGED untold
     \/ c.kind = "password" /\ c.got.tag = "ok" /\ untold' = TRUE
  /\ failures < MaxFailures /\ failures' = failures + 1
  /\ Replies(c, Lost)
  /\ UNCHANGED <<user, token, loading, caps, idle, path, leaving, store, server>>

-----------------------------------------------------------------------------
(* Answers.                                                                 *)

\* fetchCapabilitiesWith: an answer is taken whoever is signed in by now; a
\* refusal or a failure keeps what was there.
DeliverCaps(c) ==
  /\ calls' = calls \ {c}
  /\ IF c.got.tag = "ok"
     THEN caps' = c.got.value /\ store' = [store EXCEPT !.caps = c.got.value]
     ELSE UNCHANGED <<caps, store>>
  /\ UNCHANGED <<user, token, loading, untold, idle, path, leaving>>

(* Faulty: lowered in the try and not in the finally. *)
FinallyOnSuccess(c) == c.got.tag # "ok"
\* setIsLoading(false) in the finally.
FinallyLoading(c) == FALSE

\* checkAuth goes on when both requests are back, or /me failed.
DeliverMe(c) ==
  /\ c.got = Lost \/ Open("caps0") = {}
  /\ calls' = calls \ {c} /\ loading' = FinallyLoading(c)
  /\ IF c.got.tag = "ok"
     THEN /\ user' = c.got.value
          /\ Route(path, TRUE, FALSE)
          /\ UNCHANGED <<token, caps, untold, warned, countdown, store>>
     ELSE logout
  /\ UNCHANGED <<away, leaving>>

DeliverLogin(c) ==
  /\ IF c.got.tag = "ok"
     THEN /\ token' = c.got.value.token /\ user' = c.got.value.user /\ away' = 0
          /\ store' = [store EXCEPT !.token = token', !.user = user']
          /\ Route(path, TRUE, loading)
          /\ calls' = (calls \ {c}) \cup {Call("caps", token')}
     ELSE /\ calls' = calls \ {c}
          /\ UNCHANGED <<token, user, away, path, store>>
  /\ UNCHANGED <<caps, loading, untold, warned, countdown, leaving>>

DeliverPassword(c) ==
  /\ calls' = calls \ {c}
  /\ user' = IF c.got.tag = "ok" /\ user # None THEN [user EXCEPT !.first = FALSE] ELSE user
  /\ UNCHANGED <<token, loading, caps, untold, idle, path, leaving, store>>

(* Faulty: one of the three keys is forgotten. *)
handleUnauthorizedKeepsUser(s) == [s EXCEPT !.token = None, !.caps = None]
\* apiFetch: the first 401 clears the stored session and leaves for /login.
handleUnauthorized(s) == SignedOut(s)
DeliverApi(c) ==
  /\ calls' = calls \ {c}
  /\ IF c.got.tag = "refused" /\ path # Login /\ ~leaving
     THEN leaving' = TRUE /\ store' = handleUnauthorized(store)
     ELSE UNCHANGED <<leaving, store>>
  /\ UNCHANGED <<view, idle, path>>

Deliver(kind) ==
  \E c \in Open(kind) :
    /\ c.got # Sent
    /\ CASE kind \in {"caps", "caps0"} -> DeliverCaps(c)
         [] kind = "me" -> DeliverMe(c)
         [] kind = "login" -> DeliverLogin(c)
         [] kind = "password" -> DeliverPassword(c)
         [] OTHER -> DeliverApi(c)
    /\ UNCHANGED <<server, failures>>

Next ==
  \/ Load \/ SignOut \/ Fetch \/ ChangePassword
  \/ \E u \in User : SignIn(u)
  \/ Poll \/ Tick \/ IdleCheck \/ CountDown \/ Act
  \/ AdminChanges \/ OtherTab
  \/ \E n \in 1..MaxTokens : Expire(n)
  \/ \E kind \in Kinds : Serve(kind) \/ Deliver(kind)
  \/ \E c \in calls : TurnDown(c) \/ Lose(c)
  \/ \E t \in stray : ServeStray(t)

Spec == Init /\ [][Next]_vars

\* The polls' timer runs while someone is signed in, what it and checkAuth ask
\* is answered, and the page load a 401 asked for takes place.
FairSpec ==
  /\ Spec
  /\ WF_calls(Poll)
  /\ \A kind \in {"caps", "caps0", "me"} :
       WF_calls(Open(kind) # {} /\ (Serve(kind) \/ Deliver(kind)))
  /\ WF_leaving(leaving /\ Load)

-----------------------------------------------------------------------------
(* Properties.                                                              *)

Whole(u, t) == (u # None <=> t # None) /\ (u # None => u.id = t.of)

(* Outside a page load a session is there or it is not, in memory and in    *)
(* storage alike: never a user without a token, a token without its user,   *)
(* or a user with someone else's token, whichever of logout, a 401, a       *)
(* sign-in and a late answer came last (AuthContext.tsx, api.ts).           *)
SessionsAreWhole ==
  /\ Whole(store.user, store.token)
  /\ ~loading => Whole(user, token)

(* The idle warning and its countdown belong to a session that is idle:     *)
(* neither outlives a sign-out, a reload or the return of the user, so      *)
(* nobody is signed out by a countdown that started for an earlier session. *)
WarningIsOfIdleSession ==
  warned \/ countdown < Countdown => warned /\ isAuthenticated /\ away # 0

(* The tab demands a new password only of somebody the server wants one     *)
(* from: not after a reload, where the stored user still says so.  Left out *)
(* are a change whose answer is out, one that another session made, and one *)
(* this page is not told of: its answer was lost, or the page before a      *)
(* reload had sent it and the server came to it after answering /me.        *)
DemandIsTheServers ==
  /\ isAuthenticated /\ ~loading /\ user.first
  /\ Open("password") = {} /\ issued = 1 /\ ~untold
  => due[user.id]

(* While somebody stays signed in with a good token, the capabilities the   *)
(* tab shows become that user's current ones, although answers are taken    *)
(* out of order and whoever they are about.                                 *)
CapsConverge ==
  <>[](isAuthenticated /\ ~loading /\ Good(token))
    => <>[](user # None => caps = [of |-> user.id, version |-> version])

(* A page that loads comes to show the sign-in or the session, unless it is *)
(* loaded again and again.                                                  *)
LoadingEnds == (loading ~> ~loading) \/ []<><<Load>>_vars
=============================================================================
