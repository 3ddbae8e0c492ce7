------------------------------ MODULE SessionProofs ------------------------------
(***************************************************************************)
(* The safety of Session, for any people, tokens and lost answers, and any *)
(* number of requests in flight.                                           *)
(***************************************************************************)
EXTENDS Session, TLAPS

-----------------------------------------------------------------------------
(* The inductive invariant.                                                 *)

\* What a request in flight carries.  That checkAuth asks for the token of the
\* session, while it loads, and that a sign-in waits where nobody is signed in,
\* is what keeps a late answer from joining a user to another's token.
Fits(c) ==
  /\ c.got.tag = "ok" =>
       /\ c.kind \in {"caps", "caps0"} => c.got.value \in Grants
       /\ c.kind = "me" => c.got.value \in Person /\ c.got.value.id = c.with.of
       /\ c.kind = "login" =>
            /\ c.got.value \in [token : Token, user : Person]
            /\ c.got.value.user.id = c.got.value.token.of
  /\ c.kind = "me" => loading /\ c.with = token /\ token # None
  /\ c.kind = "login" => ~loading /\ user = None /\ token = None /\ c.by \in User

CallsFit ==
  /\ \A c \in calls : Fits(c)
  /\ \A c, d \in Open("me") : c = d
  /\ \A c, d \in Open("login") : c = d

\* A tab that loads waits for /me, so no hours pass and nobody is warned.
LoadingWaits == loading => away = 0 /\ ~warned /\ Open("me") # {}

BothWhole == Whole(store.user, store.token) /\ Whole(user, token)

IInv == TypeOK /\ CallsFit /\ LoadingWaits /\ BothWhole /\ WarningIsOfIdleSession

-----------------------------------------------------------------------------
(* Types.                                                                   *)

\* The parts of the storage and of a request.
LEMMA StorageType ==
  ASSUME NEW s \in Storage
  PROVE  /\ s.token \in Token \cup {None} /\ s.user \in Person \cup {None}
         /\ s.caps \in Grants \cup {None}
         /\ \A t \in Token \cup {None} : [s EXCEPT !.token = t] \in Storage
         /\ \A t \in Token, u \in Person :
              [s EXCEPT !.token = t, !.user = u] \in Storage
         /\ \A g \in Grants : [s EXCEPT !.caps = g] \in Storage
         /\ SignedOut(s) \in Storage
BY DEF Storage, SignedOut

\* A signed-out storage has no session.
LEMMA SignedOutWhole ==
  ASSUME NEW s \in Storage
  PROVE  SignedOut(s).token = None /\ SignedOut(s).user = None
BY DEF Storage, SignedOut

\* A request that is sent is one, and is not answered.
LEMMA CallType ==
  ASSUME NEW kind \in Kinds, NEW with \in Token \cup {None}
  PROVE  /\ Call(kind, with) \in Request /\ Call(kind, with).kind = kind
         /\ Call(kind, with).with = with /\ Call(kind, with).got = Sent
         /\ Call(kind, with).got.tag # "ok"
BY DEF Call, Request, Answer, Sent

\* So is the request of a sign-in.
LEMMA LoginType ==
  ASSUME NEW u \in User
  PROVE  LET c == [Call("login", None) EXCEPT !.by = u] IN
           c \in Request /\ c.kind = "login" /\ c.got.tag # "ok" /\ c.by = u
BY DEF Call, Request, Answer, Sent, Kinds

\* An answer leaves the rest of a request.
LEMMA ReplyType ==
  ASSUME NEW c \in Request, NEW answer \in Answer
  PROVE  LET d == [c EXCEPT !.got = answer] IN
           /\ d \in Request /\ d.kind = c.kind /\ d.with = c.with /\ d.by = c.by
           /\ d.got = answer
BY DEF Request

\* A person of the server's list.
LEMMA DueType == ASSUME TypeOK, NEW u \in User PROVE Due(u) \in Person /\ Due(u).id = u
BY DEF TypeOK, Due, Person

\* The three answers that carry nothing.
LEMMA PlainAnswers ==
  /\ Sent \in Answer /\ Refused \in Answer /\ Lost \in Answer
  /\ Sent.tag # "ok" /\ Refused.tag # "ok" /\ Lost.tag # "ok"
BY DEF Answer, Sent, Refused, Lost

\* What the server answers with a good token carries the user of that token.
LEMMA ResultType ==
  ASSUME TypeOK, NEW c \in calls, Good(c.with)
  PROVE  /\ Result(c) \in Answer /\ Result(c).tag = "ok"
         /\ c.kind \in {"caps", "caps0"} => Result(c).value \in Grants
         /\ c.kind = "me" => Result(c).value \in Person /\ Result(c).value.id = c.with.of
<1>1. c.with \in Token /\ c.with.of \in User
  BY DEF TypeOK, Request, Good, Token
<1>2. CASE c.kind \in {"caps", "caps0"}
  <2>1. [of |-> c.with.of, version |-> version] \in Grants
    BY <1>1 DEF Grants, TypeOK
  <2>2. Result(c) = Ok([of |-> c.with.of, version |-> version])
    BY <1>2 DEF Result
  <2>. QED
    BY <1>2, <2>1, <2>2 DEF Ok, Answer
<1>3. CASE c.kind = "me"
  <2>1. Result(c) = Ok(Due(c.with.of))
    BY <1>3 DEF Result
  <2>. QED
    BY <1>1, <1>3, <2>1, DueType DEF Ok, Answer
<1>4. CASE c.kind \notin {"caps", "caps0", "me"}
  <2>1. Result(c) = Ok(None)
    BY <1>4 DEF Result
  <2>. QED
    BY <1>4, <2>1 DEF Ok, Answer
<1>. QED
  BY <1>2, <1>3, <1>4

\* What a sign-in answers is a token of the one who signed in.
LEMMA NewTokenType ==
  ASSUME TypeOK, NEW u \in User, issued < MaxTokens
  PROVE  LET t == [of |-> u, n |-> issued + 1]
             a == Ok([token |-> t, user |-> Due(u)]) IN
           /\ t \in Token /\ issued + 1 \in 1..MaxTokens
           /\ a \in Answer
           /\ a.value \in [token : Token, user : Person]
           /\ a.value.user.id = a.value.token.of
<1>1. issued + 1 \in 1..MaxTokens
  BY SessionAssumption DEF TypeOK
<1>2. [of |-> u, n |-> issued + 1] \in Token
  BY <1>1 DEF Token
<1>. QED
  BY <1>1, <1>2, DueType DEF Ok, Answer

\* What signing out leaves has its types.
LEMMA LogoutType ==
  ASSUME TypeOK, logout
  PROVE  /\ user' = None /\ token' = None /\ caps' = None
         /\ warned' = FALSE /\ countdown' = Countdown /\ untold' = FALSE
         /\ store' \in Storage /\ store'.token = None /\ store'.user = None
         /\ path' \in {Home, Login} /\ Countdown \in 0..Countdown
<1>1. store \in Storage /\ Countdown \in 0..Countdown
  BY SessionAssumption DEF TypeOK
<1>2. store' = SignedOut(store)
  BY DEF logout
<1>3. store' \in Storage /\ store'.token = None /\ store'.user = None
  BY <1>1, <1>2, StorageType, SignedOutWhole
<1>4. path' \in {Home, Login}
  BY DEF logout, Route, TypeOK
<1>. QED
  BY <1>1, <1>3, <1>4 DEF logout

\* The types and the requests hold at first.
LEMMA InitInv == Init => IInv
<1>. SUFFICES ASSUME Init PROVE IInv
  OBVIOUS
<1>1. store \in Storage
  BY DEF Init, Storage
<1>2. due \in [User -> BOOLEAN]
  BY DEF Init
<1>3. countdown \in 0..Countdown /\ version \in 0..MaxVersion /\ issued \in 0..MaxTokens
      /\ failures \in 0..MaxFailures /\ ~(countdown < Countdown)
  BY SessionAssumption DEF Init
<1>4. /\ user \in Person \cup {None} /\ token \in Token \cup {None}
      /\ caps \in Grants \cup {None} /\ away \in 0..2 /\ path \in {Home, Login}
  BY DEF Init
<1>8. loading \in BOOLEAN /\ warned \in BOOLEAN /\ leaving \in BOOLEAN
      /\ untold \in BOOLEAN /\ stray \subseteq Token \cup {None}
  BY DEF Init
<1>5. calls \subseteq Request
  BY DEF Init
<1>6. valid \subseteq 1..MaxTokens
  BY DEF Init
<1>7. TypeOK
  BY <1>1, <1>2, <1>3, <1>4, <1>5, <1>6, <1>8 DEF TypeOK
<1>. QED
  BY <1>3, <1>7 DEF Init, IInv, CallsFit, Open, LoadingWaits, BothWhole, Whole,
              WarningIsOfIdleSession

-----------------------------------------------------------------------------
(* What a request's answer does.                                            *)

\* A step that leaves the tab alone and only answers requests.
LEMMA AnswerKept ==
  ASSUME IInv, NEW c \in calls, NEW answer \in Answer, Replies(c, answer),
         UNCHANGED <<user, token, loading, idle, store>>,
         answer.tag = "ok" =>
           /\ c.kind \in {"caps", "caps0"} => answer.value \in Grants
           /\ c.kind = "me" => answer.value \in Person /\ answer.value.id = c.with.of
           /\ c.kind = "login" =>
                /\ answer.value \in [token : Token, user : Person]
                /\ answer.value.user.id = answer.value.token.of
  PROVE  /\ calls' \subseteq Request /\ CallsFit' /\ LoadingWaits'
         /\ BothWhole' /\ WarningIsOfIdleSession'
<1> DEFINE d == [c EXCEPT !.got = answer]
<1>1. c \in Request /\ calls \subseteq Request
  BY DEF IInv, TypeOK
<1>2. /\ d \in Request /\ d.kind = c.kind /\ d.with = c.with /\ d.by = c.by
      /\ d.got = answer
  BY <1>1, ReplyType
<1>3. calls' = (calls \ {c}) \cup {d}
  BY DEF Replies
<1> HIDE DEF d
<1>4. UNCHANGED <<user, token, loading, warned, countdown, away, store>>
  BY DEF idle
<1>5. \A e \in calls' : Fits(e)'
  BY <1>2, <1>3, <1>4 DEF IInv, CallsFit, Fits
<1>6. \A kind \in Kinds :
        Open(kind)' = IF c.kind = kind THEN (Open(kind) \ {c}) \cup {d} ELSE Open(kind)
  BY <1>2, <1>3 DEF Open
<1>7. CallsFit'
  BY <1>5, <1>6 DEF IInv, CallsFit, Open, Kinds
<1>8. LoadingWaits'
  BY <1>4, <1>6 DEF IInv, LoadingWaits, Kinds
<1>9. BothWhole' /\ WarningIsOfIdleSession'
  BY <1>4 DEF IInv, BothWhole, Whole, WarningIsOfIdleSession, isAuthenticated
<1>. QED
  BY <1>1, <1>2, <1>3, <1>7, <1>8, <1>9

\* A step that leaves the tab alone and asks for something but /me.
LEMMA AskKept ==
  ASSUME IInv, NEW c \in Request, Asks(c), UNCHANGED <<view, idle, path, leaving, store>>,
         c.got.tag # "ok", c.kind # "me",
         c.kind = "login" =>
           ~loading /\ user = None /\ token = None /\ c.by \in User /\ Open("login") = {}
  PROVE  /\ calls' \subseteq Request /\ CallsFit' /\ LoadingWaits'
         /\ BothWhole' /\ WarningIsOfIdleSession'
<1>1. calls' = calls \cup {c} /\ calls \subseteq Request
  BY DEF Asks, IInv, TypeOK
<1>2. UNCHANGED <<user, token, loading, caps, warned, countdown, away, store>>
  BY DEF view, idle
<1>3. \A e \in calls' : Fits(e)'
  BY <1>1, <1>2 DEF IInv, CallsFit, Fits
<1>4. /\ Open("me")' = Open("me")
      /\ Open("login")' = IF c.kind = "login" THEN {c} ELSE Open("login")
  BY <1>1 DEF Open
<1>5. CallsFit' /\ LoadingWaits'
  BY <1>2, <1>3, <1>4 DEF IInv, CallsFit, LoadingWaits
<1>6. BothWhole' /\ WarningIsOfIdleSession'
  BY <1>2 DEF IInv, BothWhole, Whole, WarningIsOfIdleSession, isAuthenticated
<1>. QED
  BY <1>1, <1>5, <1>6

\* A step that drops requests, none of them /me, and leaves who is signed in.
LEMMA DropKept ==
  ASSUME IInv, calls' \subseteq calls, Open("me")' = Open("me"),
         UNCHANGED <<token, loading, warned, countdown, away>>,
         user' = user \/ (user # None /\ user' # None /\ user'.id = user.id),
         Whole(store.user, store.token)'
  PROVE  CallsFit' /\ LoadingWaits' /\ BothWhole' /\ WarningIsOfIdleSession'
<1>1. \A e \in calls' : Fits(e)'
  BY DEF IInv, CallsFit, Fits
<1>2. CallsFit' /\ LoadingWaits'
  BY <1>1 DEF IInv, CallsFit, LoadingWaits, Open
<1>3. BothWhole' /\ WarningIsOfIdleSession'
  BY DEF IInv, BothWhole, Whole, WarningIsOfIdleSession, isAuthenticated
<1>. QED
  BY <1>2, <1>3

\* Signing out ends the session whole, where no /me is awaited.
LEMMA LogoutKept ==
  ASSUME IInv, logout, calls' \subseteq calls,
         loading' = FALSE, Open("me")' = {}
  PROVE  CallsFit' /\ LoadingWaits' /\ BothWhole' /\ WarningIsOfIdleSession'
<1>1. /\ user' = None /\ token' = None /\ store'.token = None /\ store'.user = None
      /\ warned' = FALSE /\ countdown' = Countdown
  BY LogoutType DEF IInv
<1>2. \A e \in calls' : Fits(e)'
  BY <1>1 DEF IInv, CallsFit, Fits, Open
<1>3. CallsFit' /\ LoadingWaits'
  BY <1>2 DEF IInv, CallsFit, LoadingWaits, Open
<1>4. BothWhole'
  BY <1>1 DEF BothWhole, Whole
<1>5. WarningIsOfIdleSession'
  BY <1>1, SessionAssumption DEF WarningIsOfIdleSession
<1>. QED
  BY <1>3, <1>4, <1>5

-----------------------------------------------------------------------------
(* Every step.                                                              *)

Tied == CallsFit /\ LoadingWaits /\ BothWhole /\ WarningIsOfIdleSession

\* Nobody can sign in while a session is there or the tab loads.
LEMMA AuthenticatedAlone ==
  ASSUME IInv, isAuthenticated \/ loading PROVE Open("login") = {}
BY DEF IInv, CallsFit, Fits, Open, isAuthenticated

\* Loading the page: the storage is whole, and what was in flight is dropped.
LEMMA LoadKept == ASSUME IInv, Load PROVE IInv'
<1>1. /\ store \in Storage /\ store.user \in Person \cup {None}
      /\ store.token \in Token \cup {None} /\ store.caps \in Grants \cup {None}
  BY StorageType DEF IInv, TypeOK
<1>2. /\ user' = store.user /\ token' = store.token /\ caps' = store.caps
      /\ loading' = (store.token # None)
      /\ warned' = FALSE /\ countdown' = Countdown /\ away' = 0 /\ leaving' = FALSE
      /\ calls' = IF store.token = None THEN {}
                  ELSE {Call("me", store.token), Call("caps0", store.token)}
      /\ stray' = stray \cup Unserved(calls) /\ untold' = FALSE
      /\ UNCHANGED <<store, version, due, issued, valid, failures>>
  BY DEF Load, Reloads
<1>3. path' \in {Home, Login}
  BY DEF Load, Reloads, Route, IInv, TypeOK
<1>4. Countdown \in 0..Countdown /\ ~(Countdown < Countdown)
  BY SessionAssumption
<1>5. \A kind \in {"me", "caps0"} :
        /\ Call(kind, store.token) \in Request /\ Call(kind, store.token).kind = kind
        /\ Call(kind, store.token).with = store.token
        /\ Call(kind, store.token).got.tag # "ok"
  BY <1>1, CallType DEF Kinds
<1>6. calls' \subseteq Request
  BY <1>2, <1>5
<1>11. UNCHANGED <<store, version, due, issued, valid, failures>>
  BY <1>2
<1>15. stray' \subseteq Token \cup {None} /\ untold' \in BOOLEAN
  BY <1>2 DEF Unserved, Request, IInv, TypeOK
<1>13. loading' \in BOOLEAN /\ warned' \in BOOLEAN /\ leaving' \in BOOLEAN
  BY <1>2
<1>14. /\ user' \in Person \cup {None} /\ token' \in Token \cup {None}
       /\ caps' \in Grants \cup {None} /\ countdown' \in 0..Countdown /\ away' \in 0..2
  BY <1>1, <1>2, <1>4
<1>12. TypeOK'
  BY <1>3, <1>6, <1>11, <1>13, <1>14, <1>15 DEF IInv, TypeOK
<1>7. \A c \in calls' : Fits(c)'
  BY <1>2, <1>5 DEF Fits
<1>8. /\ Open("me")' = IF store.token = None THEN {} ELSE {Call("me", store.token)}
      /\ Open("login")' = {}
  BY <1>2, <1>5 DEF Open
<1>9. CallsFit' /\ LoadingWaits'
  BY <1>2, <1>7, <1>8 DEF CallsFit, LoadingWaits
<1>10. BothWhole' /\ WarningIsOfIdleSession'
  BY <1>2, <1>4 DEF IInv, BothWhole, WarningIsOfIdleSession, Whole
<1>. QED
  BY <1>9, <1>10, <1>12 DEF IInv

\* What the user and the timers ask.
LEMMA AsksKept ==
  ASSUME IInv, NEW u \in User,
         SignIn(u) \/ Fetch \/ ChangePassword \/ Poll
  PROVE  IInv'
<1>1. store.token \in Token \cup {None} /\ token \in Token \cup {None}
  BY StorageType DEF IInv, TypeOK
<1>2. CASE SignIn(u)
  <2>1. /\ Asks([Call("login", None) EXCEPT !.by = u]) /\ Open("login") = {}
        /\ ~loading /\ user = None /\ token = None
    BY <1>2 DEF SignIn, IInv, BothWhole, Whole, isAuthenticated
  <2>2. Tied' /\ calls' \subseteq Request
    BY <1>2, <2>1, LoginType, AskKept DEF SignIn, Elsewhere, Tied
  <2>. QED
    BY <1>2, <2>2 DEF SignIn, Elsewhere, IInv, Tied, TypeOK, view, idle, server
<1>3. CASE Fetch \/ ChangePassword \/ Poll
  <2>1. PICK kind \in {"api", "password", "caps"}, with \in {store.token, token} :
          Asks(Call(kind, with))
    BY <1>3 DEF Fetch, ChangePassword, Poll
  <2>2. UNCHANGED idle /\ Elsewhere
    BY <1>3 DEF Fetch, ChangePassword, Poll
  <2>3. Tied' /\ calls' \subseteq Request
    BY <1>1, <2>1, <2>2, CallType, AskKept DEF Elsewhere, Tied, Kinds
  <2>. QED
    BY <2>2, <2>3 DEF Elsewhere, IInv, Tied, TypeOK, view, idle, server
<1>. QED
  BY <1>2, <1>3

\* Signing out, by the user, the idle check or the countdown, where the tab
\* does not load.
LEMMA LeaveKept ==
  ASSUME IInv, logout, ~loading, away' \in 0..2,
         UNCHANGED <<loading, leaving, calls, server, failures>>
  PROVE  IInv'
<1>1. Open("me")' = {}
  BY DEF IInv, CallsFit, Fits, Open
<1>2. Tied'
  BY <1>1, LogoutKept DEF IInv, TypeOK, Tied
<1>3. TypeOK'
  BY LogoutType DEF IInv, TypeOK, server
<1>. QED
  BY <1>2, <1>3 DEF IInv, Tied

\* The timers and the keys.
LEMMA IdleKept ==
  ASSUME IInv, SignOut \/ Tick \/ IdleCheck \/ CountDown \/ Act PROVE IInv'
<1>1. CASE SignOut
  BY <1>1, LeaveKept DEF SignOut
<1>2. ASSUME UNCHANGED calls, Elsewhere, ~loading,
             warned' \in BOOLEAN, countdown' \in 0..Countdown, away' \in 0..2,
             WarningIsOfIdleSession'
      PROVE  IInv'
  <2>1. CallsFit' /\ LoadingWaits' /\ BothWhole'
    BY <1>2 DEF IInv, CallsFit, Fits, Open, LoadingWaits, BothWhole, Whole, Elsewhere, view
  <2>2. TypeOK'
    BY <1>2 DEF IInv, TypeOK, Elsewhere, view, server
  <2>. QED
    BY <1>2, <2>1, <2>2 DEF IInv
<1>3. away \in 0..2 /\ countdown \in 0..Countdown /\ Countdown \in Nat \ {0} /\ warned \in BOOLEAN
  BY SessionAssumption DEF IInv, TypeOK
<1>4. isAuthenticated' = isAuthenticated \/ ~Elsewhere
  BY DEF isAuthenticated, Elsewhere, view
<1>5. CASE Tick
  <2>1. ~loading
    BY <1>5 DEF Tick, IInv, LoadingWaits, Open
  <2>2. /\ away' = away + 1 /\ away' \in 0..2 /\ away' # 0
        /\ UNCHANGED <<warned, countdown, calls>> /\ Elsewhere
    BY <1>3, <1>5 DEF Tick
  <2>3. WarningIsOfIdleSession'
    BY <1>4, <2>2 DEF WarningIsOfIdleSession, IInv
  <2>. QED
    BY <1>2, <1>3, <2>1, <2>2, <2>3
<1>6. CASE IdleCheck
  <2>1. ~loading
    BY <1>6 DEF IdleCheck, IInv, LoadingWaits
  <2>2. CASE logout /\ UNCHANGED <<loading, away, leaving, calls, server, failures>>
    BY <1>3, <2>1, <2>2, LeaveKept
  <2>3. CASE /\ isAuthenticated /\ away = 1 /\ warned' = TRUE
             /\ UNCHANGED <<countdown, away, calls>> /\ Elsewhere
    <3>1. WarningIsOfIdleSession'
      BY <1>4, <2>3 DEF WarningIsOfIdleSession
    <3>. QED
      BY <1>2, <1>3, <2>1, <2>3, <3>1
  <2>. QED
    BY <1>6, <2>2, <2>3 DEF IdleCheck
<1>7. CASE CountDown
  <2>1. ~loading /\ isAuthenticated /\ away # 0
    BY <1>7 DEF CountDown, IInv, LoadingWaits, WarningIsOfIdleSession
  <2>2. CASE logout /\ UNCHANGED <<loading, away, leaving, calls, server, failures>>
    BY <1>3, <2>1, <2>2, LeaveKept
  <2>3. CASE /\ warned /\ countdown > 1 /\ countdown' = countdown - 1
             /\ UNCHANGED <<warned, away, calls>> /\ Elsewhere
    <3>1. WarningIsOfIdleSession'
      BY <1>4, <2>1, <2>3 DEF WarningIsOfIdleSession
    <3>2. countdown' \in 0..Countdown
      BY <1>3, <2>3
    <3>. QED
      BY <1>2, <1>3, <2>1, <2>3, <3>1, <3>2
  <2>. QED
    BY <1>7, <2>2, <2>3 DEF CountDown
<1>8. CASE Act
  <2>1. ~loading
    BY <1>8 DEF Act, IInv, LoadingWaits
  <2>2. /\ away' = 0 /\ warned' = FALSE /\ countdown' = Countdown
        /\ UNCHANGED calls /\ Elsewhere
    BY <1>8 DEF Act
  <2>3. Countdown \in 0..Countdown /\ ~(Countdown < Countdown)
    BY <1>3
  <2>4. WarningIsOfIdleSession'
    BY <2>2, <2>3 DEF WarningIsOfIdleSession
  <2>5. warned' \in BOOLEAN
    BY <2>2
  <2>6. away' \in 0..2 /\ countdown' \in 0..Countdown
    BY <2>2, <2>3
  <2>. QED
    BY <1>2, <2>1, <2>2, <2>4, <2>5, <2>6
<1>. QED
  BY <1>1, <1>5, <1>6, <1>7, <1>8

\* The roles, a token that runs out, and another tab.
LEMMA OutsideKept ==
  ASSUME IInv, AdminChanges \/ OtherTab \/ \E n \in 1..MaxTokens : Expire(n)
  PROVE  IInv'
<1>1. UNCHANGED <<view, idle, path, leaving, calls, due, stray, failures>>
  BY DEF AdminChanges, OtherTab, Expire
<1>2. ASSUME store' \in Storage, Whole(store.user, store.token)' PROVE Tied'
  <2>1. \A e \in calls' : Fits(e)'
    BY <1>1 DEF IInv, CallsFit, Fits, view
  <2>. QED
    BY <1>1, <1>2, <2>1, DropKept DEF Tied, Open, view, idle
<1>3. store \in Storage /\ Whole(store.user, store.token)
  BY DEF IInv, TypeOK, BothWhole
<1>4. CASE AdminChanges \/ \E n \in 1..MaxTokens : Expire(n)
  <2>1. store' = store /\ issued' = issued /\ valid' \subseteq valid /\ version' \in 0..MaxVersion
    BY <1>4, SessionAssumption DEF AdminChanges, Expire, IInv, TypeOK
  <2>2. Tied'
    BY <1>2, <1>3, <2>1 DEF Whole
  <2>. QED
    BY <1>1, <2>1, <2>2 DEF IInv, Tied, TypeOK, view, idle
<1>5. CASE OtherTab
  <2>1. /\ store' \in Storage /\ Whole(store.user, store.token)'
        /\ issued' \in 0..MaxTokens /\ valid' \subseteq 1..MaxTokens /\ version' = version
    <3>1. issued \in 0..MaxTokens /\ valid \subseteq 1..MaxTokens /\ MaxTokens \in Nat
      BY SessionAssumption DEF IInv, TypeOK
    <3>2. CASE store' = SignedOut(store) /\ UNCHANGED <<issued, valid>>
      BY <1>3, <1>5, <3>1, <3>2, StorageType, SignedOutWhole DEF Whole, OtherTab
    <3>3. ASSUME NEW u \in User, issued < MaxTokens,
                 store' = [store EXCEPT !.token = [of |-> u, n |-> issued + 1], !.user = Due(u)],
                 issued' = issued + 1, valid' = valid \cup {issued + 1}
          PROVE  /\ store' \in Storage /\ Whole(store.user, store.token)'
                 /\ issued' \in 0..MaxTokens /\ valid' \subseteq 1..MaxTokens
      <4>1. /\ [of |-> u, n |-> issued + 1] \in Token /\ issued + 1 \in 1..MaxTokens
            /\ Due(u) \in Person /\ Due(u).id = u
        BY <3>3, NewTokenType, DueType DEF IInv
      <4>2. store' \in Storage
        BY <1>3, <3>3, <4>1, StorageType
      <4>3. store'.token = [of |-> u, n |-> issued + 1] /\ store'.user = Due(u)
        BY <1>3, <3>3 DEF Storage
      <4>. QED
        BY <3>1, <3>3, <4>1, <4>2, <4>3, NoneAssumption DEF Whole
    <3>. QED
      BY <1>5, <3>2, <3>3 DEF OtherTab
  <2>2. Tied'
    BY <1>2, <2>1
  <2>. QED
    BY <1>1, <2>1, <2>2 DEF IInv, Tied, TypeOK, view, idle
<1>. QED
  BY <1>4, <1>5

\* The server serves, refuses or loses; the tab sees nothing yet.
LEMMA ServedKept ==
  ASSUME IInv,
         \/ \E kind \in Kinds : Serve(kind)
         \/ \E c \in calls : TurnDown(c) \/ Lose(c)
         \/ \E t \in stray : ServeStray(t)
  PROVE  IInv'
<1>1. calls \subseteq Request /\ MaxTokens \in Nat /\ MaxFailures \in Nat
      /\ issued \in 0..MaxTokens /\ valid \subseteq 1..MaxTokens /\ failures \in 0..MaxFailures
  BY SessionAssumption DEF IInv, TypeOK
<1>2. ASSUME UNCHANGED <<user, token, loading, caps, idle, path, leaving, store, version>>,
             Tied', calls' \subseteq Request,
             untold' \in BOOLEAN, stray' \subseteq Token \cup {None},
             issued' \in 0..MaxTokens, valid' \subseteq 1..MaxTokens,
             failures' \in 0..MaxFailures, due' \in [User -> BOOLEAN]
      PROVE  IInv'
  <2>1. TypeOK'
    BY <1>2 DEF IInv, TypeOK, idle
  <2>. QED
    BY <1>2, <2>1 DEF IInv, Tied
<1>3. CASE \E c \in calls : TurnDown(c) \/ Lose(c)
  <2>1. PICK c \in calls, answer \in {Refused, Lost} :
          /\ Replies(c, answer)
          /\ UNCHANGED <<user, token, loading, caps, idle, path, leaving, store, server>>
          /\ untold' \in {untold, TRUE}
          /\ failures' \in {failures} \cup (IF failures < MaxFailures THEN {failures + 1} ELSE {})
    <3>1. ASSUME NEW c \in calls, TurnDown(c)
          PROVE  /\ Replies(c, Refused) /\ UNCHANGED failures
                 /\ UNCHANGED <<view, idle, path, leaving, store, server>>
      BY <3>1 DEF TurnDown, Elsewhere
    <3>2. ASSUME NEW c \in calls, Lose(c)
          PROVE  /\ Replies(c, Lost) /\ failures < MaxFailures /\ failures' = failures + 1
                 /\ untold' \in {untold, TRUE}
                 /\ UNCHANGED <<user, token, loading, caps, idle, path, leaving, store, server>>
      BY <3>2 DEF Lose
    <3>. QED
      BY <1>3, <3>1, <3>2 DEF view
  <2>2. Tied' /\ calls' \subseteq Request
    BY <2>1, AnswerKept, PlainAnswers DEF Tied
  <2>3. failures' \in 0..MaxFailures
    BY <1>1, <2>1
  <2>4. /\ due' \in [User -> BOOLEAN] /\ untold' \in BOOLEAN
        /\ stray' \subseteq Token \cup {None}
    BY <2>1 DEF server, IInv, TypeOK
  <2>. QED
    BY <1>1, <1>2, <2>1, <2>2, <2>3, <2>4 DEF server
<1>4. ASSUME NEW kind \in Kinds, Serve(kind) PROVE IInv'
  <2>1. PICK c \in Open(kind) :
    /\ c.got = Sent
    /\ IF c.kind = "login"
       THEN /\ issued < MaxTokens
            /\ issued' = issued + 1 /\ valid' = valid \cup {issued + 1}
            /\ Replies(c, Ok([token |-> [of |-> c.by, n |-> issued + 1], user |-> Due(c.by)]))
            /\ UNCHANGED due
       ELSE /\ IF NoMatter(c) THEN calls' = calls \ {c}
               ELSE Replies(c, IF Good(c.with) THEN Result(c) ELSE Refused)
            /\ due' = IF kind = "password" /\ Good(c.with)
                      THEN [due EXCEPT ![c.with.of] = FALSE] ELSE due
            /\ UNCHANGED <<issued, valid>>
    /\ UNCHANGED <<view, idle, path, leaving, store, version, stray, failures>>
    BY <1>4 DEF Serve
  <2>2. c \in calls /\ c.kind = kind /\ Fits(c)
    BY DEF Open, IInv, CallsFit
  <2>5. /\ untold' \in BOOLEAN /\ stray' \subseteq Token \cup {None}
        /\ UNCHANGED <<user, token, loading, caps>>
    BY <2>1 DEF view, IInv, TypeOK
  <2>3. CASE c.kind = "login"
    <3>1. c.by \in User /\ issued < MaxTokens
      BY <2>1, <2>2, <2>3 DEF Fits
    <3> DEFINE a == Ok([token |-> [of |-> c.by, n |-> issued + 1], user |-> Due(c.by)])
    <3>5. /\ a \in Answer /\ a.value \in [token : Token, user : Person]
          /\ a.value.user.id = a.value.token.of
      BY <3>1, NewTokenType DEF IInv
    <3>6. Replies(c, a) /\ UNCHANGED <<view, idle, path, leaving, store>>
      BY <2>1, <2>3
    <3> HIDE DEF a
    <3>2. Tied' /\ calls' \subseteq Request
      BY <2>2, <2>3, <2>5, <3>5, <3>6, AnswerKept DEF Tied
    <3>7. issued < MaxTokens /\ issued' = issued + 1 /\ valid' = valid \cup {issued + 1}
      BY <2>1, <2>3
    <3>3. issued' \in 0..MaxTokens /\ valid' \subseteq 1..MaxTokens
      BY <1>1, <3>7
    <3>4. due' \in [User -> BOOLEAN]
      BY <2>1, <2>3 DEF IInv, TypeOK
    <3>. QED
      BY <1>1, <1>2, <2>1, <2>5, <3>2, <3>3, <3>4
  <2>4. CASE c.kind # "login"
    <3>1. Tied' /\ calls' \subseteq Request
      <4>1. CASE NoMatter(c)
        <5>1. calls' = calls \ {c} /\ c.kind # "me"
          BY <2>1, <2>4, <4>1 DEF NoMatter
        <5>2. Open("me")' = Open("me")
          BY <5>1 DEF Open
        <5>3. Whole(store.user, store.token)'
          BY <2>1 DEF IInv, BothWhole, Whole
        <5>. QED
          BY <1>1, <2>1, <5>1, <5>2, <5>3, DropKept DEF Tied, view, idle
      <4>2. CASE ~NoMatter(c) /\ Good(c.with)
        BY <2>1, <2>2, <2>4, <2>5, <4>2, ResultType, AnswerKept DEF IInv, Tied
      <4>3. CASE ~NoMatter(c) /\ ~Good(c.with)
        BY <2>1, <2>2, <2>4, <2>5, <4>3, PlainAnswers, AnswerKept DEF Tied
      <4>. QED
        BY <4>1, <4>2, <4>3
    <3>2. due' \in [User -> BOOLEAN]
      BY <2>1, <2>4 DEF IInv, TypeOK
    <3>3. UNCHANGED <<issued, valid, failures>>
      BY <2>1, <2>4
    <3>. QED
      BY <1>1, <1>2, <2>1, <2>5, <3>1, <3>2, <3>3
  <2>. QED
    BY <2>3, <2>4
<1>5. ASSUME NEW t \in stray, ServeStray(t) PROVE IInv'
  <2>1. /\ UNCHANGED <<user, token, loading, caps, idle, path, leaving, store, calls, version>>
        /\ UNCHANGED <<issued, valid, failures>> /\ stray' = stray \ {t}
        /\ due' = due \/ due' = [due EXCEPT ![t.of] = FALSE]
        /\ untold' \in BOOLEAN
    BY <1>5 DEF ServeStray, IInv, TypeOK
  <2>2. Tied'
    BY <2>1 DEF Tied, IInv, CallsFit, Fits, Open, LoadingWaits, BothWhole, Whole,
                WarningIsOfIdleSession, isAuthenticated, idle
  <2>3. due' \in [User -> BOOLEAN] /\ stray' \subseteq Token \cup {None}
    BY <2>1 DEF IInv, TypeOK
  <2>. QED
    BY <1>1, <1>2, <2>1, <2>2, <2>3
<1>. QED
  BY <1>3, <1>4, <1>5

\* The tab takes an answer.
LEMMA DeliveredKept == ASSUME IInv, NEW kind \in Kinds, Deliver(kind) PROVE IInv'
<1>1. PICK c \in Open(kind) :
        /\ c.got # Sent
        /\ kind \in {"caps", "caps0"} => DeliverCaps(c)
        /\ kind = "me" => DeliverMe(c)
        /\ kind = "login" => DeliverLogin(c)
        /\ kind = "password" => DeliverPassword(c)
        /\ kind = "api" => DeliverApi(c)
        /\ UNCHANGED <<server, failures>>
  BY DEF Deliver, Kinds
<1>2. c \in calls /\ c.kind = kind /\ Fits(c)
  BY DEF Open, IInv, CallsFit
<1>3. /\ store \in Storage /\ calls \subseteq Request /\ Whole(store.user, store.token)
      /\ Countdown \in 0..Countdown /\ ~(Countdown < Countdown)
  BY SessionAssumption DEF IInv, TypeOK, BothWhole
<1>4. kind # "me" /\ calls' = calls \ {c} => Open("me")' = Open("me")
  BY <1>2 DEF Open
<1>5. UNCHANGED <<version, due, stray, issued, valid, failures>>
  BY <1>1 DEF server
<1>6. CASE kind \in {"caps", "caps0"}
  <2>1. DeliverCaps(c)
    BY <1>1, <1>6
  <2>2. store' \in Storage /\ caps' \in Grants \cup {None} /\ Whole(store.user, store.token)'
    <3>1. CASE c.got.tag = "ok"
      <4>1. c.got.value \in Grants
        BY <1>2, <1>6, <3>1 DEF Fits
      <4>2. caps' = c.got.value /\ store' = [store EXCEPT !.caps = c.got.value]
        BY <2>1, <3>1 DEF DeliverCaps
      <4>3. store'.user = store.user /\ store'.token = store.token
        BY <1>3, <4>2 DEF Storage
      <4>. QED
        BY <1>3, <4>1, <4>2, <4>3, StorageType DEF Whole
    <3>2. CASE c.got.tag # "ok"
      BY <1>3, <2>1, <3>2 DEF DeliverCaps, IInv, TypeOK, Whole
    <3>. QED
      BY <3>1, <3>2
  <2>3. calls' = calls \ {c} /\ UNCHANGED <<user, token, loading, untold, idle, path, leaving>>
    BY <2>1 DEF DeliverCaps
  <2>4. Tied'
    BY <1>4, <1>6, <2>2, <2>3, DropKept DEF Tied, idle
  <2>5. TypeOK'
    BY <1>3, <1>5, <2>2, <2>3 DEF IInv, TypeOK, idle
  <2>. QED
    BY <2>4, <2>5 DEF IInv, Tied
<1>7. CASE kind = "me"
  <2>1. DeliverMe(c)
    BY <1>1, <1>7
  <2>2. calls' = calls \ {c} /\ loading' = FALSE /\ UNCHANGED <<away, leaving>>
    BY <2>1 DEF DeliverMe, FinallyLoading
  <2>3. loading /\ c.with = token /\ token # None /\ ~warned /\ away = 0
    BY <1>2, <1>7 DEF Fits, IInv, LoadingWaits
  <2>4. Open("me")' = {}
    BY <1>2, <1>7, <2>2 DEF Open, IInv, CallsFit
  <2>5. loading' \in BOOLEAN
    BY <2>2
  <2>6. CASE c.got.tag = "ok"
    <3>1. c.got.value \in Person /\ c.got.value.id = token.of
      BY <1>2, <1>7, <2>3, <2>6 DEF Fits
    <3>2. /\ user' = c.got.value /\ Route(path, TRUE, FALSE)
          /\ UNCHANGED <<token, caps, untold, warned, countdown, store>>
      BY <2>1, <2>6 DEF DeliverMe
    <3>3. path' \in {Home, Login}
      BY <3>2 DEF Route
    <3>4. TypeOK'
      BY <1>3, <1>5, <2>2, <2>5, <3>1, <3>2, <3>3 DEF IInv, TypeOK
    <3>5. \A d \in calls' : Fits(d)'
      <4>1. ASSUME NEW d \in calls' PROVE d.kind # "me" /\ d.kind # "login"
        BY <2>2, <2>3, <2>4 DEF IInv, CallsFit, Fits, Open
      <4>. QED
        BY <2>2, <4>1 DEF IInv, CallsFit, Fits
    <3>6. CallsFit' /\ LoadingWaits'
      BY <2>2, <2>4, <3>5 DEF IInv, CallsFit, LoadingWaits, Open
    <3>7. BothWhole'
      BY <2>3, <3>1, <3>2, NoneAssumption DEF IInv, BothWhole, Whole
    <3>8. WarningIsOfIdleSession'
      BY <2>3, <3>2 DEF IInv, WarningIsOfIdleSession
    <3>. QED
      BY <3>4, <3>6, <3>7, <3>8 DEF IInv
  <2>7. CASE c.got.tag # "ok"
    <3>1. logout
      BY <2>1, <2>7 DEF DeliverMe
    <3>2. Tied'
      BY <2>2, <2>4, <3>1, LogoutKept DEF Tied
    <3>3. TypeOK'
      BY <1>3, <1>5, <2>2, <2>5, <3>1, LogoutType DEF IInv, TypeOK
    <3>. QED
      BY <3>2, <3>3 DEF IInv, Tied
  <2>. QED
    BY <2>6, <2>7
<1>8. CASE kind = "login"
  <2>1. DeliverLogin(c) /\ user = None /\ token = None /\ ~loading
    BY <1>1, <1>2, <1>8 DEF Fits
  <2>2. ~warned /\ ~(countdown < Countdown)
    BY <2>1 DEF IInv, WarningIsOfIdleSession, isAuthenticated
  <2>3. UNCHANGED <<caps, loading, untold, warned, countdown, leaving>>
    BY <2>1 DEF DeliverLogin
  <2>4. CASE c.got.tag # "ok"
    <3>1. calls' = calls \ {c} /\ UNCHANGED <<token, user, away, path, store>>
      BY <2>1, <2>4 DEF DeliverLogin
    <3>2. Tied'
      BY <1>3, <1>4, <1>8, <2>3, <3>1, DropKept DEF Tied, Whole
    <3>3. TypeOK'
      BY <1>3, <1>5, <2>3, <3>1 DEF IInv, TypeOK
    <3>. QED
      BY <3>2, <3>3 DEF IInv, Tied
  <2>5. CASE c.got.tag = "ok"
    <3> DEFINE t == c.got.value.token
               u == c.got.value.user
    <3>1. t \in Token /\ u \in Person /\ u.id = t.of /\ t # None /\ u # None
      BY <1>2, <1>8, <2>5, NoneAssumption DEF Fits
    <3>2. /\ token' = t /\ user' = u /\ away' = 0
          /\ store' = [store EXCEPT !.token = t, !.user = u]
          /\ Route(path, TRUE, loading)
          /\ calls' = (calls \ {c}) \cup {Call("caps", t)}
      BY <2>1, <2>5 DEF DeliverLogin
    <3>3. /\ Call("caps", t) \in Request /\ Call("caps", t).kind = "caps"
          /\ Call("caps", t).got.tag # "ok"
      BY <3>1, CallType DEF Kinds
    <3>4. store' \in Storage /\ store'.token = t /\ store'.user = u
      BY <1>3, <3>1, <3>2, StorageType DEF Storage
    <3>5. path' \in {Home, Login}
      BY <3>2 DEF Route, IInv, TypeOK
    <3>6. TypeOK'
      BY <1>3, <1>5, <2>3, <3>1, <3>2, <3>3, <3>4, <3>5 DEF IInv, TypeOK
    <3>7. \A d \in calls : d.kind # "me"
      BY <2>1 DEF IInv, CallsFit, Fits
    <3>8. \A d \in calls \ {c} : d.kind # "login"
      BY <1>2, <1>8 DEF IInv, CallsFit, Open
    <3>9. CallsFit'
      BY <3>2, <3>3, <3>7, <3>8 DEF IInv, CallsFit, Fits, Open
    <3>10. LoadingWaits'
      BY <2>1, <2>3 DEF LoadingWaits
    <3>11. BothWhole'
      BY <3>1, <3>2, <3>4 DEF BothWhole, Whole
    <3>12. WarningIsOfIdleSession'
      BY <2>2, <2>3 DEF WarningIsOfIdleSession
    <3>. QED
      BY <3>6, <3>9, <3>10, <3>11, <3>12 DEF IInv
  <2>. QED
    BY <2>4, <2>5
<1>9. CASE kind = "password"
  <2>1. /\ calls' = calls \ {c}
        /\ user' = IF c.got.tag = "ok" /\ user # None THEN [user EXCEPT !.first = FALSE] ELSE user
        /\ UNCHANGED <<token, loading, caps, untold, idle, path, leaving, store>>
    BY <1>1, <1>9 DEF DeliverPassword
  <2>2. /\ user' \in Person \cup {None}
        /\ user' = user \/ (user # None /\ user' # None /\ user'.id = user.id)
    <3>1. user # None => /\ [user EXCEPT !.first = FALSE] \in Person
                         /\ ([user EXCEPT !.first = FALSE]).id = user.id
      BY DEF IInv, TypeOK, Person
    <3>. QED
      BY <2>1, <3>1, NoneAssumption DEF IInv, TypeOK
  <2>3. Tied'
    BY <1>3, <1>4, <1>9, <2>1, <2>2, DropKept DEF Tied, Whole, idle
  <2>4. TypeOK'
    BY <1>3, <1>5, <2>1, <2>2 DEF IInv, TypeOK, idle
  <2>. QED
    BY <2>3, <2>4 DEF IInv, Tied
<1>10. CASE kind = "api"
  <2>1. /\ calls' = calls \ {c} /\ UNCHANGED <<view, idle, path>>
        /\ \/ leaving' = TRUE /\ store' = SignedOut(store)
           \/ UNCHANGED <<leaving, store>>
    BY <1>1, <1>10 DEF DeliverApi, handleUnauthorized
  <2>2. store' \in Storage /\ Whole(store.user, store.token)'
    BY <1>3, <2>1, StorageType, SignedOutWhole DEF Whole
  <2>3. Tied'
    BY <1>4, <1>10, <2>1, <2>2, DropKept DEF Tied, view, idle
  <2>4. leaving' \in BOOLEAN
    BY <2>1 DEF IInv, TypeOK
  <2>5. TypeOK'
    BY <1>3, <1>5, <2>1, <2>2, <2>4 DEF IInv, TypeOK, view, idle
  <2>. QED
    BY <2>3, <2>5 DEF IInv, Tied
<1>. QED
  BY <1>6, <1>7, <1>8, <1>9, <1>10 DEF Kinds

\* Every step keeps the inductive invariant.
LEMMA InvKept == IInv /\ [Next]_vars => IInv'
<1>. SUFFICES ASSUME IInv, [Next]_vars PROVE IInv'
  OBVIOUS
<1>1. CASE Next
  <2>1. CASE \E u \in User : SignIn(u)
    BY <2>1, AsksKept
  <2>2. CASE Fetch \/ ChangePassword \/ Poll
    <3>1. user \in Person
      BY <2>2 DEF Fetch, OnPage, ChangePassword, Poll, isAuthenticated, IInv, TypeOK
    <3>. QED
      BY <2>2, <3>1, AsksKept DEF Person
  <2>. QED
    BY <1>1, <2>1, <2>2, LoadKept, IdleKept, OutsideKept, ServedKept, DeliveredKept DEF Next
<1>2. CASE UNCHANGED vars
  BY <1>2 DEF vars, view, idle, server, IInv, TypeOK, CallsFit, Fits, Open, LoadingWaits,
              BothWhole, Whole, WarningIsOfIdleSession, isAuthenticated
<1>. QED
  BY <1>1, <1>2

-----------------------------------------------------------------------------
(* The demand for a new password.                                           *)

Answered(kind) == {c \in Open(kind) : c.got.tag = "ok"}

\* Before the first sign-in nobody has a token, in memory, in storage or in a request.
NobodyHasToken == token = None /\ store.token = None /\ \A c \in calls : c.with = None

\* While nobody has signed in twice and the page is told of every change, an
\* answer that demands a new password is the server's, and nothing under way
\* can make it stale: a tab that loads has no change in flight, and the first
\* sign-in is answered before anybody has a token to change anything with.
DemandInv ==
  /\ loading => Open("password") = {}
  /\ issued = 0 => NobodyHasToken /\ Answered("login") = {}
  /\ issued = 1 /\ Answered("login") # {} => NobodyHasToken
  /\ issued = 1 /\ ~untold =>
       /\ \A c \in Answered("me") : c.got.value.first => due[c.got.value.id]
       /\ \A c \in Answered("login") : c.got.value.user.first => due[c.got.value.user.id]
       /\ ~loading /\ user # None /\ Answered("password") = {} /\ user.first => due[user.id]

\* A step that the demand does not hang on: nobody signs in, nothing the server
\* says of a password is new, and what it said is still on its way; or the page
\* has nobody signed in and nothing of either on its way.
LEMMA QuietKept ==
  ASSUME IInv, DemandInv, UNCHANGED <<due, issued>>,
         user' = None \/ (user' = user /\ loading' = loading),
         loading' => Open("password")' = {},
         NobodyHasToken => NobodyHasToken',
         Answered("login")' \subseteq Answered("login"),
         Answered("me")' \subseteq Answered("me"),
         ~untold' => \/ ~untold /\ Answered("password") \subseteq Answered("password")'
                     \/ user' = None /\ Answered("me")' = {} /\ Answered("login")' = {}
  PROVE  DemandInv'
<1>1. /\ issued' = 0 => NobodyHasToken' /\ Answered("login")' = {}
      /\ issued' = 1 /\ Answered("login")' # {} => NobodyHasToken'
  BY DEF DemandInv
<1>2. ASSUME issued' = 1, ~untold'
      PROVE  /\ \A c \in Answered("me")' : c.got.value.first => due'[c.got.value.id]
             /\ \A c \in Answered("login")' : c.got.value.user.first => due'[c.got.value.user.id]
    BY <1>2 DEF DemandInv
<1>3. ASSUME issued' = 1, ~untold', ~loading', user' # None,
             Answered("password")' = {}, user'.first
      PROVE  due'[user'.id]
  <2>1. user' = user /\ ~loading /\ ~untold /\ Answered("password") = {}
    BY <1>3
  <2>. QED
    BY <1>3, <2>1 DEF DemandInv
<1>. QED
  BY <1>1, <1>2, <1>3 DEF DemandInv

\* To ask for something, with a token only where there is one.
LEMMA AskQuiet ==
  ASSUME IInv, DemandInv, NEW c, Asks(c), c.got = Sent,
         NobodyHasToken => c.with = None, loading => c.kind # "password",
         UNCHANGED <<user, token, loading, untold, store, due, issued>>
  PROVE  DemandInv'
<1>1. calls' = calls \cup {c} /\ c.got.tag # "ok"
  BY DEF Asks, Sent
<1>2. \A kind \in Kinds : Answered(kind)' = Answered(kind)
  BY <1>1 DEF Answered, Open
<1>3. NobodyHasToken => NobodyHasToken'
  BY <1>1 DEF NobodyHasToken
<1>4. loading' => Open("password")' = {}
  BY <1>1 DEF Open, DemandInv
<1>. QED
  BY <1>2, <1>3, <1>4, QuietKept DEF Kinds

\* To drop requests, but no answer to a change, or to sign out.
LEMMA DropQuiet ==
  ASSUME IInv, DemandInv, calls' \subseteq calls,
         \A c \in calls \ calls' : ~(c.kind = "password" /\ c.got.tag = "ok"),
         user' = None \/ (user' = user /\ loading' = loading), loading' => loading,
         NobodyHasToken => token' = None /\ store'.token = None,
         ~untold' => ~untold \/ (user' = None /\ Answered("me")' = {} /\ Answered("login")' = {}),
         UNCHANGED <<due, issued>>
  PROVE  DemandInv'
<1>1. /\ \A kind \in Kinds : Answered(kind)' \subseteq Answered(kind)
      /\ Answered("password") \subseteq Answered("password")'
  BY DEF Answered, Open
<1>2. NobodyHasToken => NobodyHasToken'
  BY DEF NobodyHasToken
<1>3. loading' => Open("password")' = {}
  BY DEF Open, DemandInv
<1>. QED
  BY <1>1, <1>2, <1>3, QuietKept DEF Kinds

\* What an answer changes of the requests.
LEMMA Replied ==
  ASSUME IInv, NEW c \in calls, NEW answer \in Answer, Replies(c, answer),
         UNCHANGED <<token, store>>
  PROVE  LET d == [c EXCEPT !.got = answer] IN
           /\ d.kind = c.kind /\ d.with = c.with /\ d.by = c.by /\ d.got = answer
           /\ calls' = (calls \ {c}) \cup {d}
           /\ NobodyHasToken => NobodyHasToken'
           /\ \A kind \in Kinds :
                /\ Open(kind) = {} => Open(kind)' = {}
                /\ Answered(kind)' =
                     (Answered(kind) \ {c}) \cup
                     (IF c.kind = kind /\ answer.tag = "ok" THEN {d} ELSE {})
<1> DEFINE d == [c EXCEPT !.got = answer]
<1>1. /\ d.kind = c.kind /\ d.with = c.with /\ d.by = c.by /\ d.got = answer
      /\ calls' = (calls \ {c}) \cup {d}
  BY ReplyType DEF IInv, TypeOK, Replies
<1> HIDE DEF d
<1>2. NobodyHasToken => NobodyHasToken'
  BY <1>1 DEF NobodyHasToken
<1>3. \A kind \in Kinds : Open(kind) = {} => Open(kind)' = {}
  BY <1>1 DEF Open
<1>4. \A kind \in Kinds :
        Answered(kind)' = (Answered(kind) \ {c}) \cup
                          (IF c.kind = kind /\ answer.tag = "ok" THEN {d} ELSE {})
  BY <1>1 DEF Answered, Open
<1>. QED
  BY <1>1, <1>2, <1>3, <1>4 DEF d

\* To answer without a word of a password, or to lose an answer.
LEMMA ReplyQuiet ==
  ASSUME IInv, DemandInv, NEW c \in calls, NEW answer \in Answer, Replies(c, answer),
         c.kind \in {"me", "login", "password"} => answer.tag # "ok",
         (untold' = untold /\ c.got = Sent) \/ untold',
         UNCHANGED <<user, token, loading, store, due, issued>>
  PROVE  DemandInv'
<1> DEFINE d == [c EXCEPT !.got = answer]
<1>1. /\ d.got = answer /\ calls' = (calls \ {c}) \cup {d}
      /\ NobodyHasToken => NobodyHasToken'
      /\ \A kind \in Kinds :
           /\ Open(kind) = {} => Open(kind)' = {}
           /\ Answered(kind)' = (Answered(kind) \ {c}) \cup
                                (IF c.kind = kind /\ answer.tag = "ok" THEN {d} ELSE {})
  BY Replied
<1> HIDE DEF d
<1>2. Answered("login")' \subseteq Answered("login") /\ Answered("me")' \subseteq Answered("me")
  BY <1>1 DEF Kinds
<1>3. loading' => Open("password")' = {}
  BY <1>1 DEF DemandInv, Kinds
<1>4. ASSUME ~untold'
      PROVE  ~untold /\ Answered("password") \subseteq Answered("password")'
  <2>1. c.got = Sent
    BY <1>4
  <2>2. c \notin Answered("password")
    BY <2>1 DEF Answered, Sent
  <2>. QED
    BY <1>1, <1>4, <2>2 DEF Kinds
<1>. QED
  BY <1>1, <1>2, <1>3, <1>4, QuietKept

\* Who has no token has nobody signed in.
LEMMA NobodyIsSignedIn ==
  ASSUME IInv, token = None PROVE user = None /\ Open("me") = {}
BY DEF IInv, BothWhole, Whole, CallsFit, Fits, Open

\* Loading the page asks the server again, and awaits nothing it had asked.
LEMMA LoadDemands == ASSUME IInv, DemandInv, Load PROVE DemandInv'
<1>1. /\ user' = store.user /\ token' = store.token /\ loading' = (store.token # None)
      /\ calls' = IF store.token = None THEN {}
                  ELSE {Call("me", store.token), Call("caps0", store.token)}
      /\ UNCHANGED <<store, due, issued>>
  BY DEF Load, Reloads
<1>2. store.token \in Token \cup {None} /\ (store.token = None => store.user = None)
  BY StorageType DEF IInv, TypeOK, BothWhole, Whole
<1>3. \A c \in calls' : c.kind \in {"me", "caps0"} /\ c.got = Sent /\ c.with = store.token
  BY <1>1, <1>2, CallType DEF Kinds
<1>4. \A kind \in Kinds : Answered(kind)' = {}
  BY <1>3 DEF Answered, Open, Sent
<1>5. Open("password")' = {}
  BY <1>3 DEF Open
<1>6. NobodyHasToken => NobodyHasToken'
  BY <1>1 DEF NobodyHasToken
<1>7. ~loading' => user' = None
  BY <1>1, <1>2
<1>. QED
  BY <1>1, <1>4, <1>5, <1>6, <1>7 DEF DemandInv, Kinds

\* What the user, the timers and the keys do.
LEMMA TabDemands ==
  ASSUME IInv, DemandInv,
         \/ \E u \in User : SignIn(u)
         \/ Fetch \/ ChangePassword \/ Poll \/ SignOut \/ Tick \/ IdleCheck \/ CountDown \/ Act
  PROVE  DemandInv'
<1>1. Elsewhere => UNCHANGED <<user, token, loading, untold, store, due, issued>>
  BY DEF Elsewhere, view, server
<1>2. CASE \E u \in User : SignIn(u)
  <2>1. PICK u \in User : Asks([Call("login", None) EXCEPT !.by = u]) /\ Elsewhere
    BY <1>2 DEF SignIn
  <2> DEFINE c == [Call("login", None) EXCEPT !.by = u]
  <2>2. c.got = Sent /\ c.with = None /\ c.kind = "login"
    BY DEF Call
  <2>. QED
    BY <1>1, <2>1, <2>2, AskQuiet
<1>3. CASE Fetch \/ ChangePassword \/ Poll
  <2>1. PICK kind \in {"api", "password", "caps"}, with \in {store.token, token} :
          Asks(Call(kind, with)) /\ (loading => kind # "password") /\ Elsewhere
    BY <1>3 DEF Fetch, ChangePassword, Poll
  <2>2. Call(kind, with).got = Sent /\ Call(kind, with).with = with /\ Call(kind, with).kind = kind
    BY DEF Call
  <2>3. NobodyHasToken => with = None
    BY <2>1 DEF NobodyHasToken
  <2>. QED
    BY <1>1, <2>1, <2>2, <2>3, AskQuiet
<1>4. ASSUME UNCHANGED calls, Elsewhere PROVE DemandInv'
  BY <1>1, <1>4, DropQuiet DEF NobodyHasToken
<1>5. ASSUME logout, isAuthenticated, ~loading, UNCHANGED <<loading, calls, server>>
      PROVE  DemandInv'
  <2>1. user' = None /\ token' = None /\ store'.token = None
    BY <1>5, LogoutType DEF IInv
  <2>2. Answered("me")' = {} /\ Answered("login")' = {}
    BY <1>5, AuthenticatedAlone DEF Answered, Open, IInv, CallsFit, Fits
  <2>. QED
    BY <1>5, <2>1, <2>2, DropQuiet DEF server
<1>6. warned => isAuthenticated /\ ~loading
  BY DEF IInv, WarningIsOfIdleSession, LoadingWaits
<1>7. away # 0 => ~loading
  BY DEF IInv, LoadingWaits
<1>. QED
  BY <1>2, <1>3, <1>4, <1>5, <1>6, <1>7 DEF SignOut, Tick, IdleCheck, CountDown, Act

\* The roles, a token that runs out, and another tab.
LEMMA OutsideDemands ==
  ASSUME IInv, DemandInv, AdminChanges \/ OtherTab \/ \E n \in 1..MaxTokens : Expire(n)
  PROVE  DemandInv'
<1>1. UNCHANGED <<user, token, loading, untold, calls, due>>
  BY DEF AdminChanges, OtherTab, Expire, view
<1>2. CASE issued' = issued /\ store'.token \in {store.token, None}
  BY <1>1, <1>2, DropQuiet DEF NobodyHasToken
<1>3. CASE issued' = issued + 1
  <2>1. issued \in Nat
    BY <1>3 DEF IInv, TypeOK
  <2>2. \A kind \in Kinds : Answered(kind)' = Answered(kind)
    BY <1>1 DEF Answered, Open
  <2>3. ASSUME issued' = 1
        PROVE  user' = None /\ Answered("me")' = {} /\ Answered("login")' = {}
    <3>1. issued = 0
      BY <1>3, <2>1, <2>3
    <3>2. token = None /\ Answered("login") = {}
      BY <3>1 DEF DemandInv, NobodyHasToken
    <3>3. user = None /\ Answered("me") = {}
      BY <3>2, NobodyIsSignedIn DEF Answered
    <3>. QED
      BY <1>1, <2>2, <3>2, <3>3 DEF Kinds
  <2>4. issued' # 0
    BY <1>3, <2>1
  <2>5. loading' => Open("password")' = {}
    BY <1>1 DEF DemandInv, Open
  <2>. QED
    BY <2>3, <2>4, <2>5 DEF DemandInv
<1>4. OtherTab => issued' = issued + 1 \/ (issued' = issued /\ store'.token \in {store.token, None})
  BY SignedOutWhole DEF OtherTab, IInv, TypeOK
<1>5. AdminChanges \/ (\E n \in 1..MaxTokens : Expire(n)) => UNCHANGED <<issued, store>>
  BY DEF AdminChanges, Expire
<1>. QED
  BY <1>2, <1>3, <1>4, <1>5

\* The server's answers.
LEMMA ServeDemands ==
  ASSUME IInv, DemandInv, NEW kind \in Kinds, Serve(kind) PROVE DemandInv'
<1>1. PICK c \in Open(kind) :
  /\ c.got = Sent
  /\ IF c.kind = "login"
     THEN /\ issued < MaxTokens
          /\ issued' = issued + 1 /\ valid' = valid \cup {issued + 1}
          /\ Replies(c, Ok([token |-> [of |-> c.by, n |-> issued + 1], user |-> Due(c.by)]))
          /\ UNCHANGED due
     ELSE /\ IF NoMatter(c) THEN calls' = calls \ {c}
             ELSE Replies(c, IF Good(c.with) THEN Result(c) ELSE Refused)
          /\ due' = IF kind = "password" /\ Good(c.with)
                    THEN [due EXCEPT ![c.with.of] = FALSE] ELSE due
          /\ UNCHANGED <<issued, valid>>
  /\ UNCHANGED <<view, idle, path, leaving, store, version, stray, failures>>
  BY DEF Serve
<1>2. c \in calls /\ c.kind = kind /\ Fits(c) /\ c.got.tag # "ok" /\ issued \in Nat
  BY <1>1 DEF Open, IInv, CallsFit, TypeOK, Sent
<1>3. UNCHANGED <<user, token, loading, untold, store>>
  BY <1>1 DEF view
<1> DEFINE With(answer) == [c EXCEPT !.got = answer]
<1>4. ASSUME NEW answer \in Answer, Replies(c, answer)
      PROVE  /\ loading' => Open("password")' = {}
             /\ NobodyHasToken => NobodyHasToken'
             /\ With(answer).got = answer
             /\ \A e \in Kinds :
                  Answered(e)' = Answered(e) \cup
                                 (IF kind = e /\ answer.tag = "ok" THEN {With(answer)} ELSE {})
  <2>1. \A e \in Kinds : c \notin Answered(e)
    BY <1>2 DEF Answered
  <2> DEFINE d == [c EXCEPT !.got = answer]
  <2>2. /\ d.got = answer /\ calls' = (calls \ {c}) \cup {d}
        /\ NobodyHasToken => NobodyHasToken'
        /\ \A e \in Kinds :
             /\ Open(e) = {} => Open(e)' = {}
             /\ Answered(e)' = (Answered(e) \ {c}) \cup
                               (IF c.kind = e /\ answer.tag = "ok" THEN {d} ELSE {})
    BY <1>2, <1>3, <1>4, Replied
  <2>3. d = With(answer)
    OBVIOUS
  <2> HIDE DEF d, With
  <2>4. loading' => Open("password")' = {}
    BY <1>3, <2>2 DEF DemandInv, Kinds
  <2>5. \A e \in Kinds :
          Answered(e)' = Answered(e) \cup (IF kind = e /\ answer.tag = "ok" THEN {d} ELSE {})
    BY <1>2, <2>1, <2>2
  <2>. QED
    BY <2>2, <2>3, <2>4, <2>5
<1> HIDE DEF With
<1>5. CASE kind = "login"
  <2>1. c.by \in User /\ issued < MaxTokens /\ ~loading /\ user = None
    BY <1>1, <1>2, <1>5 DEF Fits
  <2> DEFINE a == Ok([token |-> [of |-> c.by, n |-> issued + 1], user |-> Due(c.by)])
  <2>2. a \in Answer /\ a.tag = "ok" /\ a.value.user = Due(c.by)
    BY <2>1, NewTokenType DEF IInv, Ok
  <2>3. Replies(c, a) /\ issued' = issued + 1 /\ UNCHANGED due
    BY <1>1, <1>2, <1>5
  <2> HIDE DEF a
  <2>4. /\ Answered("login")' = Answered("login") \cup {With(a)} /\ With(a).got = a
        /\ Answered("me")' = Answered("me")
        /\ NobodyHasToken => NobodyHasToken'
    BY <1>4, <1>5, <2>2, <2>3 DEF Kinds
  <2>5. Answered("me") = {}
    BY <2>1 DEF Answered, Open, IInv, CallsFit, Fits
  <2>6. ASSUME issued' = 1
        PROVE  NobodyHasToken' /\ Answered("login")' = {With(a)}
    <3>1. issued = 0
      BY <1>2, <2>3, <2>6
    <3>. QED
      BY <2>4, <3>1 DEF DemandInv
  <2>7. With(a).got.value.user.first => due'[With(a).got.value.user.id]
    BY <2>2, <2>3, <2>4 DEF Due
  <2>8. issued' # 0 /\ user' = None /\ ~loading'
    BY <1>2, <1>3, <2>1, <2>3
  <2>. QED
    BY <2>4, <2>5, <2>6, <2>7, <2>8 DEF DemandInv
<1>6. CASE kind # "login" /\ NoMatter(c)
  <2>1. calls' = calls \ {c} /\ UNCHANGED <<due, issued>>
    BY <1>1, <1>2, <1>6 DEF NoMatter
  <2>. QED
    BY <1>2, <1>3, <2>1, DropQuiet DEF NobodyHasToken
<1>7. CASE kind # "login" /\ ~NoMatter(c) /\ ~Good(c.with)
  <2>1. Replies(c, Refused) /\ UNCHANGED <<due, issued>>
    BY <1>1, <1>2, <1>7
  <2>. QED
    BY <1>1, <1>2, <1>3, <2>1, PlainAnswers, ReplyQuiet
<1>8. CASE kind # "login" /\ ~NoMatter(c) /\ Good(c.with)
  <2>1. Replies(c, Result(c)) /\ issued' = issued
    BY <1>1, <1>2, <1>8
  <2>2. Result(c) \in Answer /\ Result(c).tag = "ok"
    BY <1>2, <1>8, ResultType DEF IInv
  <2>3. CASE kind \in {"caps", "caps0", "api"}
    BY <1>1, <1>2, <1>3, <1>8, <2>1, <2>2, <2>3, ReplyQuiet
  <2>4. CASE kind = "me"
    <3>1. UNCHANGED due
      BY <1>1, <1>2, <2>4
    <3>2. Result(c).value = Due(c.with.of)
      BY <1>2, <2>4 DEF Result, Ok
    <3>3. /\ Answered("me")' = Answered("me") \cup {With(Result(c))}
          /\ With(Result(c)).got = Result(c)
          /\ Answered("login")' = Answered("login") /\ Answered("password")' = Answered("password")
          /\ loading' => Open("password")' = {}
          /\ NobodyHasToken => NobodyHasToken'
      BY <1>4, <2>1, <2>2, <2>4 DEF Kinds
    <3>4. With(Result(c)).got.value.first => due'[With(Result(c)).got.value.id]
      BY <3>1, <3>2, <3>3 DEF Due
    <3>. QED
      BY <1>3, <2>1, <3>1, <3>3, <3>4 DEF DemandInv
  <2>5. CASE kind = "password"
    <3>1. /\ Answered("password")' # {}
          /\ Answered("me")' = Answered("me") /\ Answered("login")' = Answered("login")
          /\ loading' => Open("password")' = {}
      BY <1>4, <2>1, <2>2, <2>5 DEF Kinds
    <3>2. ~loading
      BY <1>2, <2>5 DEF Open, DemandInv
    <3>3. Answered("me") = {}
      BY <3>2 DEF Answered, Open, IInv, CallsFit, Fits
    <3>4. ~NobodyHasToken
      BY <1>2, <1>8 DEF NobodyHasToken, Good
    <3>. QED
      BY <1>3, <2>1, <3>1, <3>3, <3>4 DEF DemandInv
  <2>. QED
    BY <1>8, <2>3, <2>4, <2>5 DEF Kinds
<1>. QED
  BY <1>5, <1>6, <1>7, <1>8

\* A change of a page that is gone: the page on the screen is not told of it,
\* unless its /me is answered later.
LEMMA StrayDemands ==
  ASSUME IInv, DemandInv, NEW t \in stray, ServeStray(t) PROVE DemandInv'
<1>1. UNCHANGED <<user, token, loading, calls, store, issued>>
  BY DEF ServeStray
<1>2. \A kind \in Kinds : Answered(kind)' = Answered(kind) /\ Open(kind)' = Open(kind)
  BY <1>1 DEF Answered, Open
<1>3. NobodyHasToken' = NobodyHasToken
  BY <1>1 DEF NobodyHasToken
<1>6. loading' => Open("password")' = {}
  BY <1>1, <1>2 DEF DemandInv, Kinds
<1>4. CASE UNCHANGED <<due, untold>>
  BY <1>1, <1>2, <1>3, <1>4, <1>6, QuietKept DEF Kinds
<1>5. ASSUME Good(t), due' = [due EXCEPT ![t.of] = FALSE],
             untold' = (untold \/ (due[t.of] /\ \A c \in Open("me") : c.got # Sent))
      PROVE  DemandInv'
  <2>1. t \in Token /\ t.of \in User /\ due \in [User -> BOOLEAN]
    BY <1>5 DEF IInv, TypeOK, Good, Token
  <2>2. CASE ~due[t.of]
    <3>1. due' = due
      BY <1>5, <2>1, <2>2
    <3>. QED
      BY <1>1, <1>2, <1>3, <1>5, <1>6, <2>2, <3>1, QuietKept DEF Kinds
  <2>3. CASE due[t.of] /\ \A c \in Open("me") : c.got # Sent
    <3>1. untold'
      BY <1>5, <2>3
    <3>. QED
      BY <1>1, <1>2, <1>3, <3>1 DEF DemandInv, Kinds
  <2>4. CASE \E c \in Open("me") : c.got = Sent
    <3>1. Answered("me") = {} /\ loading /\ Answered("login") = {}
      BY <2>4 DEF Answered, Open, Sent, IInv, CallsFit, Fits
    <3>. QED
      BY <1>1, <1>2, <1>3, <3>1 DEF DemandInv, Kinds
  <2>. QED
    BY <2>2, <2>3, <2>4
<1>. QED
  BY <1>4, <1>5 DEF ServeStray

\* The tab takes an answer: a demand of the server's, or the end of one.
LEMMA DeliverDemands ==
  ASSUME IInv, DemandInv, NEW kind \in Kinds, Deliver(kind) PROVE DemandInv'
<1>1. PICK c \in Open(kind) :
        /\ c.got # Sent
        /\ kind \in {"caps", "caps0"} => DeliverCaps(c)
        /\ kind = "me" => DeliverMe(c)
        /\ kind = "login" => DeliverLogin(c)
        /\ kind = "password" => DeliverPassword(c)
        /\ kind = "api" => DeliverApi(c)
        /\ UNCHANGED <<server, failures>>
  BY DEF Deliver, Kinds
<1>2. c \in calls /\ c.kind = kind /\ Fits(c) /\ store \in Storage
  BY DEF Open, IInv, CallsFit, TypeOK
<1>3. UNCHANGED <<due, issued>>
  BY <1>1 DEF server
<1>4. ASSUME calls' = calls \ {c}
      PROVE  /\ \A e \in Kinds : Answered(e)' \subseteq Answered(e)
             /\ Open("password") = {} => Open("password")' = {}
  BY <1>4 DEF Answered, Open
<1>5. CASE kind \in {"caps", "caps0"}
  <2>1. calls' = calls \ {c} /\ UNCHANGED <<user, token, loading, untold>>
    BY <1>1, <1>5 DEF DeliverCaps
  <2>2. store'.token = store.token
    BY <1>1, <1>2, <1>5 DEF DeliverCaps, Storage
  <2>. QED
    BY <1>2, <1>3, <1>5, <2>1, <2>2, DropQuiet DEF NobodyHasToken
<1>6. CASE kind = "api"
  <2>1. calls' = calls \ {c} /\ UNCHANGED <<user, token, loading, untold>>
    BY <1>1, <1>6 DEF DeliverApi, view
  <2>2. store'.token \in {store.token, None}
    BY <1>1, <1>2, <1>6, SignedOutWhole DEF DeliverApi, handleUnauthorized
  <2>. QED
    BY <1>2, <1>3, <1>6, <2>1, <2>2, DropQuiet DEF NobodyHasToken
<1>7. CASE kind = "me"
  <2>1. DeliverMe(c) /\ calls' = calls \ {c} /\ loading' = FALSE /\ loading
    BY <1>1, <1>2, <1>7 DEF DeliverMe, FinallyLoading, Fits
  <2>2. CASE c.got.tag # "ok"
    <3>1. user' = None /\ token' = None /\ store'.token = None
      BY <2>1, <2>2, LogoutType DEF DeliverMe, IInv
    <3>2. Answered("me")' = {} /\ Answered("login")' = {}
      BY <1>2, <1>7, <2>1, AuthenticatedAlone DEF Answered, Open, IInv, CallsFit
    <3>. QED
      BY <1>2, <1>3, <1>7, <2>1, <3>1, <3>2, DropQuiet
  <2>3. CASE c.got.tag = "ok"
    <3>1. user' = c.got.value /\ UNCHANGED <<token, untold, store>>
      BY <2>1, <2>3 DEF DeliverMe
    <3>2. c \in Answered("me")
      BY <1>2, <1>7, <2>3 DEF Answered, Open
    <3>3. NobodyHasToken => NobodyHasToken'
      BY <2>1, <3>1 DEF NobodyHasToken
    <3>4. /\ Answered("me")' \subseteq Answered("me") /\ Answered("login")' \subseteq Answered("login")
      BY <1>4, <2>1 DEF Kinds
    <3>5. issued' = 1 /\ ~untold' => (user'.first => due'[user'.id])
      BY <1>3, <3>1, <3>2 DEF DemandInv
    <3>. QED
      BY <1>3, <2>1, <3>1, <3>3, <3>4, <3>5 DEF DemandInv
  <2>. QED
    BY <2>2, <2>3
<1>8. CASE kind = "login"
  <2>1. /\ DeliverLogin(c) /\ user = None /\ token = None
        /\ ~loading /\ loading' = loading /\ untold' = untold
    BY <1>1, <1>2, <1>8 DEF Fits, DeliverLogin
  <2>2. CASE c.got.tag # "ok"
    <3>1. calls' = calls \ {c} /\ UNCHANGED <<user, token, untold, store>>
      BY <2>1, <2>2 DEF DeliverLogin
    <3>. QED
      BY <1>2, <1>3, <1>8, <2>1, <3>1, DropQuiet DEF NobodyHasToken
  <2>3. CASE c.got.tag = "ok"
    <3> DEFINE t == c.got.value.token
    <3>1. user' = c.got.value.user /\ calls' = (calls \ {c}) \cup {Call("caps", t)}
      BY <2>1, <2>3 DEF DeliverLogin
    <3>2. /\ Call("caps", t).kind = "caps" /\ Call("caps", t).got.tag # "ok"
      BY DEF Call, Sent
    <3>3. c \in Answered("login") /\ issued # 0
      BY <1>2, <1>8, <2>3 DEF Answered, Open, DemandInv
    <3>4. Answered("login")' = {}
      <4>1. \A d \in calls : d.kind = "login" => d = c
        BY <1>2, <1>8 DEF IInv, CallsFit, Open
      <4>. QED
        BY <3>1, <3>2, <4>1 DEF Answered, Open
    <3>5. Answered("me")' \subseteq Answered("me")
      BY <3>1, <3>2 DEF Answered, Open
    <3>6. issued' = 1 /\ ~untold' => (user'.first => due'[user'.id])
      BY <1>3, <2>1, <3>1, <3>3 DEF DemandInv
    <3>. QED
      BY <1>3, <2>1, <3>3, <3>4, <3>5, <3>6 DEF DemandInv
  <2>. QED
    BY <2>2, <2>3
<1>9. CASE kind = "password"
  <2>1. /\ calls' = calls \ {c} /\ UNCHANGED <<token, loading, untold, store>>
        /\ user' = IF c.got.tag = "ok" /\ user # None THEN [user EXCEPT !.first = FALSE] ELSE user
    BY <1>1, <1>9 DEF DeliverPassword
  <2>2. CASE c.got.tag # "ok"
    BY <1>2, <1>3, <2>1, <2>2, DropQuiet DEF NobodyHasToken
  <2>3. CASE c.got.tag = "ok"
    <3>1. user' = None \/ ~user'.first
      <4>1. user # None => ~([user EXCEPT !.first = FALSE]).first
        BY DEF IInv, TypeOK, Person
      <4>. QED
        BY <2>1, <2>3, <4>1
    <3>2. NobodyHasToken => NobodyHasToken'
      BY <2>1 DEF NobodyHasToken
    <3>3. /\ Answered("me")' \subseteq Answered("me") /\ Answered("login")' \subseteq Answered("login")
          /\ Open("password") = {} => Open("password")' = {}
      BY <1>4, <2>1 DEF Kinds
    <3>. QED
      BY <1>3, <2>1, <3>1, <3>2, <3>3 DEF DemandInv
  <2>. QED
    BY <2>2, <2>3
<1>. QED
  BY <1>5, <1>6, <1>7, <1>8, <1>9 DEF Kinds

\* Every step keeps it.
LEMMA DemandsKept == IInv /\ DemandInv /\ [Next]_vars => DemandInv'
<1>. SUFFICES ASSUME IInv, DemandInv, [Next]_vars PROVE DemandInv'
  OBVIOUS
<1>1. ASSUME NEW c \in calls, TurnDown(c) \/ Lose(c) PROVE DemandInv'
  <2>1. PICK answer \in {Refused, Lost} :
          /\ Replies(c, answer)
          /\ UNCHANGED <<user, token, loading, store, server>>
          /\ (untold' = untold /\ c.got = Sent) \/ untold'
    BY <1>1 DEF TurnDown, Lose, Elsewhere, view
  <2>. QED
    BY <2>1, PlainAnswers, ReplyQuiet DEF server
<1>2. CASE UNCHANGED vars
  BY <1>2, DropQuiet DEF vars, view, server, NobodyHasToken
<1>. QED
  BY <1>1, <1>2, LoadDemands, TabDemands, OutsideDemands, ServeDemands, StrayDemands,
     DeliverDemands DEF Next

\* It holds at first.
LEMMA InitDemands == Init => DemandInv
BY DEF Init, DemandInv, NobodyHasToken, Answered, Open

-----------------------------------------------------------------------------
(* The theorems.                                                            *)

\* In every behaviour of the tab.
THEOREM Invariance == Spec => []IInv
BY InitInv, InvKept, PTL DEF Spec

\* What the tab holds, stores and awaits has its types, whoever signs in where.
THEOREM TypeCorrect == Spec => []TypeOK
<1>1. IInv => TypeOK
  BY DEF IInv
<1>. QED
  BY <1>1, Invariance, PTL

\* Sessions are whole, in memory and in storage: no interleaving of sign-ins,
\* sign-outs, reloads, other tabs and late answers joins a user to another's
\* token, for any number of people, tokens and requests in flight.
THEOREM WholeSessions == Spec => []SessionsAreWhole
<1>1. IInv => SessionsAreWhole
  BY DEF IInv, BothWhole, SessionsAreWhole
<1>. QED
  BY <1>1, Invariance, PTL

\* The idle warning and its countdown are always of an idle session.
THEOREM WarningsEnd == Spec => []WarningIsOfIdleSession
<1>1. IInv => WarningIsOfIdleSession
  BY DEF IInv
<1>. QED
  BY <1>1, Invariance, PTL

\* The demand for a new password is the server's: for any number of people,
\* tokens, polls, reloads and requests in flight, of this page and of those
\* before it, a tab whose one session no other has followed sends nobody to
\* change a password that the server no longer wants changed, unless a change
\* was made that the page was not told of.
THEOREM DemandsAreTheServers == Spec => []DemandIsTheServers
<1>1. DemandInv => DemandIsTheServers
  BY DEF DemandInv, DemandIsTheServers, Answered, isAuthenticated
<1>2. Init => IInv /\ DemandInv
  BY InitInv, InitDemands
<1>3. IInv /\ DemandInv /\ [Next]_vars => (IInv /\ DemandInv)'
  BY InvKept, DemandsKept
<1>. QED
  BY <1>1, <1>2, <1>3, PTL DEF Spec
==============================================================================
