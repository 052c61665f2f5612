--------------------------- MODULE AccountsProofs ---------------------------
(***************************************************************************)
(* For any number of browsers, addresses, passwords, requests under way    *)
(* and faults: what a page shows of the user is whose session it has, and  *)
(* the account endpoints are atomic.                                       *)
(***************************************************************************)
EXTENDS Accounts, TLAPS

(* What holds of a request whatever the rest of the state.                 *)
Sane(q) ==
  /\ q \in Request
  /\ q.at # "idle" => q.from \in Browsers
  /\ q.at = "create" => q.kind = "register" /\ q.valid
  /\ q.at \in {"sent", "create"} =>
       /\ q.kind \in {"login", "check", "reset"} \/ (q.kind = "register" /\ q.valid) =>
            q.email \in Spellings
       /\ q.kind \in {"login", "reset"} \/ (q.kind = "register" /\ q.valid) =>
            q.password \in Passwords
  /\ q.status \in {"ok", "created"} => q.who # None
  /\ q.kind = "me" => q.tie \in {"guard", "none"}
  /\ q.tie = "guard" => q.kind = "me"
  /\ q.tie # "none" => q.at # "idle"

(* A guard waits only while its navigation is the last one of its browser, *)
(* so the session it asked about is still the one there is, or has lapsed. *)
Guarded(q) ==
  q.tie = "guard" =>
    /\ page[q.from] # "dashboard"
    /\ q.at = "sent" => q.token = cookie[q.from]
    /\ q.status = "ok" => q.who = cookie[q.from] \/ lapsed[q.from]

Orderly == \A s \in Slots : Sane(req[s]) /\ Guarded(req[s])

IInv == TypeOK /\ Orderly /\ ScreenNamesItsSession

USE NormalAssumption, NoneAssumption, FaultsAssumption

LEMMA NoRequestIsSane == Sane(NoRequest) /\ Guarded(NoRequest)
BY DEF Sane, Guarded, NoRequest, Request, Kinds

LEMMA IInvInit == Init => IInv
<1> SUFFICES ASSUME Init PROVE IInv
  OBVIOUS
<1>1. NoRequest \in Request
  BY NoRequestIsSane DEF Sane
<1>2. TypeOK
  BY <1>1 DEF Init, TypeOK, Pages
<1>3. Orderly
  BY NoRequestIsSane DEF Init, Orderly, Guarded, NoRequest, Sane
<1> QED
  BY <1>2, <1>3 DEF IInv, Init, ScreenNamesItsSession

-----------------------------------------------------------------------------
(* Untie changes what a request is tied to, and for its browser leaves no  *)
(* guard.                                                                  *)
LEMMA UntieOnlyTie ==
  ASSUME NEW q, Sane(q), NEW b \in Browsers, NEW p
  PROVE  /\ Sane(Untie(b, p, q))
         /\ Untie(b, p, q).tie = "guard" => q.from # b /\ Untie(b, p, q) = q
         /\ Public(Untie(b, p, q)) = Public(q)
<1>1. CASE q.from = b /\ q.tie = "page" /\ page[b] # p
  <2>1. Untie(b, p, q) = [q EXCEPT !.tie = "service"]
    BY <1>1 DEF Untie
  <2> QED
    BY <1>1, <2>1 DEF Sane, Request, Public
<1>2. CASE q.from = b /\ q.tie = "guard"
  <2>1. Untie(b, p, q) = [q EXCEPT !.tie = "none"]
    BY <1>2 DEF Untie
  <2> QED
    BY <1>2, <2>1 DEF Sane, Request, Public
<1>3. CASE ~(q.from = b /\ q.tie = "page" /\ page[b] # p) /\ ~(q.from = b /\ q.tie = "guard")
  <2>1. Untie(b, p, q) = q
    BY <1>3 DEF Untie
  <2> QED
    BY <1>3, <2>1
<1> QED
  BY <1>1, <1>2, <1>3

(* A navigation, with one request answered: the guards that remain are of  *)
(* other browsers, for which nothing has changed.                          *)
LEMMA NavigateKeeps ==
  ASSUME IInv, NEW b \in Browsers, NEW p \in Pages, NEW s \in Slots, NEW reqs,
         reqs \in {req, Over(s), [req EXCEPT ![s].tie = "none"]},
         Navigate(b, p, reqs),
         \A c \in Browsers \ {b} : cookie'[c] = cookie[c] /\ lapsed'[c] = lapsed[c]
  PROVE  /\ page' \in [Browsers -> Pages] /\ req' \in [Slots -> Request] /\ Orderly'
         /\ page'[b] = p /\ \A c \in Browsers \ {b} : page'[c] = page[c]
<1>1. page' = [page EXCEPT ![b] = p] /\ req' = [t \in Slots |-> Untie(b, p, reqs[t])]
  BY DEF Navigate
<1>2. \A t \in Slots : Sane(reqs[t]) /\ (reqs[t].tie = "guard" => reqs[t] = req[t])
  <2> TAKE t \in Slots
  <2>1. CASE reqs[t] = req[t]
    BY <2>1 DEF IInv, Orderly
  <2>2. CASE t = s /\ reqs = Over(s)
    BY <2>2, NoRequestIsSane DEF Over, IInv, TypeOK, NoRequest
  <2>3. CASE t = s /\ reqs = [req EXCEPT ![s].tie = "none"]
    BY <2>3 DEF IInv, TypeOK, Orderly, Sane, Request
  <2> QED
    BY <2>1, <2>2, <2>3 DEF Over, IInv, TypeOK
<1>3. ASSUME NEW t \in Slots PROVE Sane(req'[t]) /\ Guarded(req[t])' /\ req'[t] \in Request
  <2>1. req'[t] = Untie(b, p, reqs[t]) /\ Sane(reqs[t]) /\ Sane(req[t]) /\ Guarded(req[t])
    BY <1>1, <1>2 DEF IInv, Orderly
  <2>2. Sane(req'[t])
    BY <2>1, UntieOnlyTie
  <2>3. ASSUME req'[t].tie = "guard" PROVE Guarded(req[t])'
    <3>1. req'[t] = reqs[t] /\ reqs[t] = req[t] /\ req[t].from # b
      BY <1>2, <2>1, <2>3, UntieOnlyTie
    <3>2. req[t].from \in Browsers \ {b}
      BY <2>1, <2>3, <3>1 DEF Sane
    <3>3. page'[req[t].from] = page[req[t].from]
      BY <1>1, <3>2 DEF IInv, TypeOK
    <3> QED
      BY <2>1, <2>3, <3>1, <3>2, <3>3 DEF Guarded
  <2>4. Guarded(req[t])'
    BY <2>3 DEF Guarded
  <2> QED
    BY <2>2, <2>4 DEF Sane
<1> QED
  BY <1>1, <1>3 DEF Orderly, IInv, TypeOK

(* One request changes, and is not tied to a guard unless its browser,     *)
(* page and session are as they were.                                      *)
LEMMA OneRequestKeeps ==
  ASSUME IInv, NEW s \in Slots, NEW q, req' = [req EXCEPT ![s] = q], Sane(q),
         UNCHANGED <<jar, page>>, Guarded(q)
  PROVE  req' \in [Slots -> Request] /\ Orderly'
<1>1. q \in Request
  BY DEF Sane
<1>2. ASSUME NEW t \in Slots PROVE Sane(req'[t]) /\ Guarded(req[t])'
  BY <1>2 DEF IInv, TypeOK, Orderly, Guarded, jar
<1> QED
  BY <1>1, <1>2 DEF IInv, TypeOK, Orderly

LEMMA AnswerKeeps ==
  ASSUME IInv, NEW s \in Slots, NEW status \in Statuses, NEW who \in Spellings \cup {None},
         req[s].at \in {"sent", "create"}, Answer(s, status, who),
         status \in {"ok", "created"} => who # None,
         req[s].kind = "me" /\ status = "ok" => req[s].at = "sent" /\ who = req[s].token
  PROVE  /\ req' \in [Slots -> Request] /\ Orderly'
         /\ \A t \in Slots \ {s} : req'[t] = req[t]
         /\ req'[s].at = "answered" /\ req'[s].status = status /\ req'[s].who = who
<1> DEFINE q == Answered(req[s], status, who)
<1>1. req' = [req EXCEPT ![s] = q] /\ UNCHANGED <<jar, page>>
  BY DEF Answer, app
<1>2. Sane(req[s]) /\ Guarded(req[s])
  BY DEF IInv, Orderly
<1>4. Sane(q)
  BY <1>2 DEF Sane, Request, Answered
<1>5. Guarded(q)
  BY <1>2 DEF Guarded, Sane, Answered
<1>6. req' \in [Slots -> Request] /\ Orderly'
  BY <1>1, <1>4, <1>5, OneRequestKeeps
<1>7. req'[s] = q /\ \A t \in Slots \ {s} : req'[t] = req[t]
  BY <1>1 DEF IInv, TypeOK
<1> QED
  BY <1>6, <1>7 DEF Answered

-----------------------------------------------------------------------------
LEMMA ServerStep ==
  ASSUME IInv, NEW s \in Slots, Server(s)
  PROVE  IInv'
<1> DEFINE email == Normal[req[s].email]
<1>0. Sane(req[s])
  BY DEF IInv, Orderly
<1>1. ASSUME NEW status \in Statuses, NEW who \in Spellings \cup {None},
             req[s].at \in {"sent", "create"}, Answer(s, status, who),
             status \in {"ok", "created"} => who # None,
             req[s].kind = "me" /\ status = "ok" => req[s].at = "sent" /\ who = req[s].token,
             rows' \in [Spellings -> Passwords \cup {None}], Works \/ Fault
      PROVE  IInv'
  <2>1. req' \in [Slots -> Request] /\ Orderly'
    BY <1>1, AnswerKeeps
  <2>2. faults' \in 0 .. MaxFaults
    BY <1>1 DEF Works, Fault, IInv, TypeOK
  <2>3. UNCHANGED <<cookie, lapsed, user, page>>
    BY <1>1 DEF Answer, jar, app
  <2> QED
    BY <1>1, <2>1, <2>2, <2>3 DEF IInv, TypeOK, ScreenNamesItsSession
<1>2. CASE Refuse(s)
  BY <1>1, <1>2 DEF Refuse, Serving, Statuses, IInv, TypeOK
<1>3. CASE EmailExists(s)
  <2>1. CASE Answer(s, "taken", None) /\ Works
    BY <1>1, <1>3, <2>1 DEF EmailExists, Serving, Statuses, IInv, TypeOK, HasRow
  <2>2. CASE Answer(s, "error", None) /\ Fault
    BY <1>1, <1>3, <2>2 DEF EmailExists, Serving, Statuses, IInv, TypeOK, HasRow
  <2>3. CASE req' = [req EXCEPT ![s].at = "create"] /\ Works /\ UNCHANGED <<jar, app>>
    <3> DEFINE q == [req[s] EXCEPT !.at = "create"]
    <3>1. req' = [req EXCEPT ![s] = q]
      BY <2>3 DEF IInv, TypeOK
    <3>2. Sane(q)
      BY <1>0, <1>3 DEF EmailExists, Serving, Sane, Request, HasRow
    <3>3. Guarded(q)
      BY <1>0, <1>3 DEF EmailExists, Serving, Guarded, Sane, Request, HasRow
    <3>4. req' \in [Slots -> Request] /\ Orderly'
      BY <2>3, <3>1, <3>2, <3>3, OneRequestKeeps DEF app
    <3> QED
      BY <1>3, <2>3, <3>4 DEF EmailExists, IInv, TypeOK, ScreenNamesItsSession, Works, jar, app, HasRow
  <2> QED
    BY <1>3, <2>1, <2>2, <2>3 DEF EmailExists, HasRow
<1>4. CASE Create(s)
  <2>1. email \in Spellings /\ req[s].password \in Passwords /\ req[s].kind # "me"
    BY <1>0, <1>4 DEF Create, Sane, Request, Insert, HasRow
  <2>2. rows' \in [Spellings -> Passwords \cup {None}]
    BY <1>4, <2>1 DEF Create, IInv, TypeOK, Insert, HasRow
  <2> QED
    BY <1>1, <1>4, <2>1, <2>2 DEF Create, Statuses, Insert, HasRow
<1>5. CASE Login(s)
  <2>1. email \in Spellings
    BY <1>0, <1>5 DEF Login, Serving, Sane, Verifies
  <2> QED
    BY <1>1, <1>5, <2>1 DEF Login, Serving, Statuses, IInv, TypeOK, Verifies
<1>6. CASE CheckEmail(s)
  BY <1>1, <1>6 DEF CheckEmail, Serving, Statuses, IInv, TypeOK, HasRow
<1>7. CASE ResetPassword(s)
  <2>1. email \in Spellings /\ req[s].password \in Passwords
    BY <1>0, <1>7 DEF ResetPassword, Serving, Sane, UpdatePassword, HasRow
  <2>2. rows' \in [Spellings -> Passwords \cup {None}]
    BY <1>7, <2>1 DEF ResetPassword, IInv, TypeOK, UpdatePassword, HasRow
  <2> QED
    BY <1>1, <1>7, <2>1, <2>2 DEF ResetPassword, Serving, Statuses, UpdatePassword, HasRow
<1>8. CASE Me(s)
  <2>1. req[s].token \in Spellings \cup {None}
    BY <1>0 DEF Sane, Request
  <2> QED
    BY <1>1, <1>8, <2>1 DEF Me, Recognised, Serving, Statuses, IInv, TypeOK, HasRow
<1>9. CASE Logout(s)
  BY <1>1, <1>9 DEF Logout, Serving, Statuses, IInv, TypeOK
<1> QED
  BY <1>2, <1>3, <1>4, <1>5, <1>6, <1>7, <1>8, <1>9 DEF Server

LEMMA AsksStep ==
  ASSUME IInv, NEW s \in Slots, NEW b \in Browsers, Asks(s, b)
  PROVE  IInv'
<1>1. ASSUME NEW q, Send(s, q), Sane(q), q.tie # "guard" PROVE IInv'
  <2>1. Guarded(q)
    BY <1>1 DEF Guarded
  <2>2. req' \in [Slots -> Request] /\ Orderly'
    BY <1>1, <2>1, OneRequestKeeps DEF Send, app
  <2> QED
    BY <1>1, <2>2 DEF Send, jar, app, IInv, TypeOK, ScreenNamesItsSession
<1>2. ASSUME NEW e \in Spellings, NEW w \in Passwords, NEW kind \in {"login", "register", "reset"}
      PROVE  Sane(Asked(b, "page", kind, e, w)) /\ Asked(b, "page", kind, e, w).tie # "guard"
  BY <1>2 DEF Asked, Sane, Request, Kinds
<1>3. CASE SubmitLogin(s, b) \/ SubmitPassword(s, b)
  BY <1>1, <1>2, <1>3 DEF SubmitLogin, SubmitPassword
<1>4. CASE SubmitRegister(s, b)
  <2> DEFINE q == [Asked(b, "page", "register", None, None) EXCEPT !.valid = FALSE]
  <2>1. Sane(q) /\ q.tie # "guard"
    BY DEF Asked, Sane, Request, Kinds
  <2> QED
    BY <1>1, <1>2, <1>4, <2>1 DEF SubmitRegister
<1>5. CASE SubmitEmail(s, b)
  <2>1. ASSUME NEW e \in Spellings
        PROVE  Sane(Asked(b, "page", "check", e, None))
               /\ Asked(b, "page", "check", e, None).tie # "guard"
    BY <2>1 DEF Asked, Sane, Request, Kinds
  <2> QED
    BY <1>1, <1>5, <2>1 DEF SubmitEmail
<1>6. CASE ClickLogout(s, b)
  <2>1. Sane(Asked(b, "service", "logout", None, None))
        /\ Asked(b, "service", "logout", None, None).tie # "guard"
    BY DEF Asked, Sane, Request, Kinds
  <2> QED
    BY <1>1, <1>6, <2>1 DEF ClickLogout
<1>7. CASE OpenDashboard(s, b)
  <2>0. UNCHANGED <<rows, cookie, lapsed, user, faults>>
    BY <1>7 DEF OpenDashboard, jar
  <2>1. CASE user[b] # None /\ Navigate(b, "dashboard", req)
    <3>1. /\ page' \in [Browsers -> Pages] /\ req' \in [Slots -> Request] /\ Orderly'
          /\ page'[b] = "dashboard" /\ \A c \in Browsers \ {b} : page'[c] = page[c]
      BY <2>0, <2>1, NavigateKeeps DEF Pages
    <3> QED
      BY <2>0, <2>1, <3>1 DEF IInv, TypeOK, ScreenNamesItsSession
  <2>2. CASE ~(user[b] # None /\ Navigate(b, "dashboard", req))
    <3> DEFINE me == [Asked(b, "guard", "me", None, None) EXCEPT !.token = cookie[b]]
    <3>1. /\ req' = [t \in Slots |-> IF t = s THEN me ELSE Untie(b, page[b], req[t])]
          /\ UNCHANGED page /\ page[b] # "dashboard"
      BY <1>7, <2>2 DEF OpenDashboard
    <3>2. cookie[b] \in Spellings \cup {None}
      BY DEF IInv, TypeOK
    <3>3. Sane(me) /\ me.from = b /\ me.token = cookie[b] /\ me.status = "none"
      BY <3>2 DEF Asked, Sane, Request, Kinds
    <3>4. Guarded(me)
      BY <3>1, <3>3 DEF Guarded
    <3> HIDE DEF me
    <3>5. ASSUME NEW t \in Slots PROVE Sane(req'[t]) /\ Guarded(req[t])'
      <4>1. CASE t = s
        BY <2>0, <3>1, <3>3, <3>4, <4>1 DEF Guarded
      <4>2. CASE t # s
        <5>1. req'[t] = Untie(b, page[b], req[t]) /\ Sane(req[t]) /\ Guarded(req[t])
          BY <3>1, <4>2 DEF IInv, Orderly
        <5>2. Sane(req'[t]) /\ (req'[t].tie = "guard" => req'[t] = req[t])
          BY <5>1, UntieOnlyTie
        <5> QED
          BY <2>0, <3>1, <5>1, <5>2 DEF Guarded
      <4> QED
        BY <4>1, <4>2
    <3>6. Orderly' /\ req' \in [Slots -> Request]
      BY <3>1, <3>5 DEF Orderly, Sane
    <3> QED
      BY <2>0, <3>1, <3>6 DEF IInv, TypeOK, ScreenNamesItsSession
  <2> QED
    BY <2>1, <2>2
<1> QED
  BY <1>3, <1>4, <1>5, <1>6, <1>7, <1>2, <1>1 DEF Asks

LEMMA BrowserStep ==
  ASSUME IInv, NEW b \in Browsers, Visit(b) \/ Reload(b) \/ Expire(b)
  PROVE  IInv'
<1>1. CASE Visit(b)
  <2>1. PICK p \in {"login", "register", "forgot"} : Navigate(b, p, req)
    BY <1>1 DEF Visit
  <2>3. UNCHANGED <<rows, cookie, lapsed, user, faults>>
    BY <1>1 DEF Visit, jar
  <2>4. /\ page' \in [Browsers -> Pages] /\ req' \in [Slots -> Request] /\ Orderly'
        /\ page'[b] = p /\ \A c \in Browsers \ {b} : page'[c] = page[c]
    <3>1. CASE Slots = {}
      BY <2>1, <3>1 DEF Navigate, Orderly, IInv, TypeOK, Pages
    <3>2. ASSUME NEW s \in Slots PROVE <2>4!:
      BY <2>1, <2>3, NavigateKeeps DEF Pages
    <3> QED
      BY <3>1, <3>2
  <2> QED
    BY <2>3, <2>4 DEF IInv, TypeOK, ScreenNamesItsSession
<1>2. CASE Reload(b)
  <2>1. ASSUME NEW t \in Slots PROVE Sane(req'[t]) /\ Guarded(req[t])'
    <3>1. Sane(req[t]) /\ Guarded(req[t])
      BY DEF IInv, Orderly
    <3>2. CASE req[t].from = b
      <4>1. req'[t] = [req[t] EXCEPT !.tie = "none"]
        BY <1>2, <3>2 DEF Reload
      <4> QED
        BY <3>1, <4>1 DEF Sane, Guarded, Request
    <3>3. CASE req[t].from # b
      <4>1. req'[t] = req[t] /\ page'[req[t].from] = page[req[t].from]
            /\ UNCHANGED <<cookie, lapsed>>
        BY <1>2, <3>3 DEF Reload, jar, IInv, TypeOK
      <4> QED
        BY <3>1, <4>1 DEF Guarded
    <3> QED
      BY <3>2, <3>3
  <2>2. Orderly' /\ req' \in [Slots -> Request]
    BY <1>2, <2>1 DEF Reload, Orderly, Sane
  <2> QED
    BY <1>2, <2>2 DEF Reload, jar, IInv, TypeOK, ScreenNamesItsSession, Pages
<1>3. CASE Expire(b)
  <2>1. ASSUME NEW t \in Slots PROVE Sane(req'[t]) /\ Guarded(req[t])'
    <3>1. Sane(req[t]) /\ Guarded(req[t])
      BY DEF IInv, Orderly
    <3>2. CASE req[t].from = b
      <4>1. req'[t] = [req[t] EXCEPT !.token = None]
        BY <1>3, <3>2 DEF Expire
      <4>2. req'[t].from = b /\ req'[t].token = None /\ req'[t].tie = req[t].tie
        BY <3>1, <3>2, <4>1 DEF Sane, Request
      <4>3. Sane(req'[t])
        BY <3>1, <4>1 DEF Sane, Request
      <4>4. cookie'[b] = None /\ lapsed'[b] = TRUE /\ UNCHANGED page
        BY <1>3 DEF Expire, app, IInv, TypeOK
      <4> QED
        BY <3>1, <3>2, <4>2, <4>3, <4>4 DEF Guarded
    <3>3. CASE req[t].from # b
      <4>1. req'[t] = req[t] /\ UNCHANGED page
            /\ cookie'[req[t].from] = cookie[req[t].from]
            /\ lapsed'[req[t].from] = lapsed[req[t].from]
        BY <1>3, <3>3 DEF Expire, app, IInv, TypeOK
      <4> QED
        BY <3>1, <4>1 DEF Guarded
    <3> QED
      BY <3>2, <3>3
  <2>2. Orderly' /\ req' \in [Slots -> Request]
    BY <1>3, <2>1 DEF Expire, Orderly, Sane
  <2> QED
    BY <1>3, <2>2 DEF Expire, app, IInv, TypeOK, ScreenNamesItsSession
<1> QED
  BY <1>1, <1>2, <1>3

LEMMA HearsStep ==
  ASSUME IInv, NEW s \in Slots, Hears(s)
  PROVE  IInv'
<1> DEFINE b == req[s].from
<1>0. Sane(req[s]) /\ Guarded(req[s])
  BY DEF IInv, Orderly
<1>1. ASSUME NEW statuses, NEW kinds, Arrives(s, kinds, statuses)
      PROVE  b \in Browsers /\ req[s].who \in Spellings \cup {None}
  BY <1>0, <1>1 DEF Arrives, Sane, Request
<1>2. CASE SignedIn(s)
  <2>1. b \in Browsers /\ req[s].who \in Spellings
    <3>1. Arrives(s, {"login", "register"}, {"ok", "created"})
      BY <1>2 DEF SignedIn
    <3> QED
      BY <1>0, <1>1, <3>1 DEF Arrives, Sane
  <2>2. /\ cookie' = [cookie EXCEPT ![b] = req[s].who] /\ lapsed' = [lapsed EXCEPT ![b] = FALSE]
        /\ user' = [user EXCEPT ![b] = req[s].who]
        /\ Navigate(b, "dashboard", Over(s)) /\ UNCHANGED <<rows, faults>>
    BY <1>2 DEF SignedIn, SetCookie
  <2>3. \A c \in Browsers \ {b} : cookie'[c] = cookie[c] /\ lapsed'[c] = lapsed[c]
    BY <2>2 DEF IInv, TypeOK
  <2>4. /\ page' \in [Browsers -> Pages] /\ req' \in [Slots -> Request] /\ Orderly'
        /\ page'[b] = "dashboard" /\ \A c \in Browsers \ {b} : page'[c] = page[c]
    BY <2>1, <2>2, <2>3, NavigateKeeps DEF Pages
  <2> QED
    BY <2>1, <2>2, <2>4 DEF IInv, TypeOK, ScreenNamesItsSession
<1>3. ASSUME req' = Over(s), UNCHANGED <<rows, jar, user, faults>>,
             page' = page \/ (b \in Browsers /\
                              \E p \in Pages \ {"dashboard"} : page' = [page EXCEPT ![b] = p])
      PROVE  IInv'
  <2>1. ASSUME NEW t \in Slots PROVE Sane(req'[t]) /\ Guarded(req[t])'
    <3>1. CASE t = s
      <4>1. req'[t] = NoRequest
        BY <1>3, <3>1 DEF Over, IInv, TypeOK
      <4> QED
        BY <4>1, NoRequestIsSane DEF Guarded, NoRequest
    <3>2. CASE t # s
      <4>1. req'[t] = req[t] /\ Sane(req[t]) /\ Guarded(req[t])
        BY <1>3, <3>2 DEF Over, IInv, TypeOK, Orderly
      <4>2. req[t].tie = "guard" => req[t].from \in Browsers
        BY <4>1 DEF Sane
      <4>3. \A c \in Browsers : page'[c] = "dashboard" => page[c] = "dashboard"
        BY <1>3 DEF IInv, TypeOK
      <4> QED
        BY <1>3, <4>1, <4>2, <4>3 DEF Guarded, jar
    <3> QED
      BY <3>1, <3>2
  <2>2. Orderly' /\ req' \in [Slots -> Request]
    BY <1>3, <2>1 DEF Over, Orderly, Sane, IInv, TypeOK
  <2>3. page' \in [Browsers -> Pages]
        /\ \A c \in Browsers : page'[c] = "dashboard" => page[c] = "dashboard"
    BY <1>3 DEF IInv, TypeOK
  <2> QED
    BY <1>3, <2>2, <2>3 DEF jar, IInv, TypeOK, ScreenNamesItsSession
<1>4. CASE FormAnswered(s) \/ Forget(s)
  BY <1>3, <1>4 DEF FormAnswered, Forget, app
<1>5. CASE EmailFound(s)
  BY <1>1, <1>3, <1>5 DEF EmailFound, Pages
<1>6. CASE PasswordReset(s)
  BY <1>1, <1>3, <1>6 DEF PasswordReset, Pages
<1>7. CASE GuardPasses(s)
  <2>1. b \in Browsers /\ req[s].who \in Spellings
        /\ (req[s].who = cookie[b] \/ lapsed[b])
    <3>1. Arrives(s, {"me"}, {"ok"})
      BY <1>7 DEF GuardPasses
    <3> QED
      BY <1>0, <1>1, <3>1 DEF Arrives, Sane, Guarded
  <2>2. user' = [user EXCEPT ![b] = req[s].who] /\ Navigate(b, "dashboard", Over(s))
        /\ UNCHANGED <<rows, cookie, lapsed, faults>>
    BY <1>7 DEF GuardPasses, jar
  <2>3. /\ page' \in [Browsers -> Pages] /\ req' \in [Slots -> Request] /\ Orderly'
        /\ page'[b] = "dashboard" /\ \A c \in Browsers \ {b} : page'[c] = page[c]
    BY <2>1, <2>2, NavigateKeeps DEF Pages
  <2> QED
    BY <2>1, <2>2, <2>3 DEF IInv, TypeOK, ScreenNamesItsSession
<1>8. ASSUME NEW reqs, reqs \in {Over(s), [req EXCEPT ![s].tie = "none"]}, SentToLogin(b, reqs),
             b \in Browsers, UNCHANGED rows, faults' \in 0 .. MaxFaults,
             cookie' \in [Browsers -> Spellings \cup {None}], lapsed' \in [Browsers -> BOOLEAN],
             \A c \in Browsers \ {b} : cookie'[c] = cookie[c] /\ lapsed'[c] = lapsed[c]
      PROVE  IInv'
  <2>1. user' = [user EXCEPT ![b] = None] /\ Navigate(b, "login", reqs)
    BY <1>8 DEF SentToLogin
  <2>2. /\ page' \in [Browsers -> Pages] /\ req' \in [Slots -> Request] /\ Orderly'
        /\ page'[b] = "login" /\ \A c \in Browsers \ {b} : page'[c] = page[c]
    BY <1>8, <2>1, NavigateKeeps DEF Pages
  <2> QED
    BY <1>8, <2>1, <2>2 DEF IInv, TypeOK, ScreenNamesItsSession
<1>9. CASE GuardRefuses(s)
  BY <1>1, <1>8, <1>9 DEF GuardRefuses, jar, IInv, TypeOK
<1>10. CASE LoggedOut(s)
  <2>1. /\ b \in Browsers /\ SentToLogin(b, Over(s))
        /\ cookie' = [cookie EXCEPT ![b] = None] /\ lapsed' = [lapsed EXCEPT ![b] = FALSE]
        /\ UNCHANGED <<rows, faults>>
    BY <1>1, <1>10 DEF LoggedOut, SetCookie
  <2> QED
    BY <1>8, <2>1 DEF IInv, TypeOK
<1>11. CASE NetworkError(s)
  <2>1. b \in Browsers /\ faults' \in 0 .. MaxFaults /\ UNCHANGED <<rows, jar>>
    BY <1>0, <1>11 DEF NetworkError, Free, Fault, Sane, IInv, TypeOK
  <2>2. CASE SentToLogin(b, [req EXCEPT ![s].tie = "none"])
    BY <1>8, <2>1, <2>2 DEF jar, IInv, TypeOK
  <2>3. CASE req' = [req EXCEPT ![s].tie = "none"] /\ UNCHANGED app
    <3> DEFINE q == [req[s] EXCEPT !.tie = "none"]
    <3>1. req' = [req EXCEPT ![s] = q]
      BY <2>3 DEF IInv, TypeOK
    <3>2. Sane(q) /\ Guarded(q)
      BY <1>0 DEF Sane, Guarded, Request
    <3>3. req' \in [Slots -> Request] /\ Orderly'
      BY <2>1, <2>3, <3>1, <3>2, OneRequestKeeps DEF app
    <3> QED
      BY <2>1, <2>3, <3>3 DEF jar, app, IInv, TypeOK, ScreenNamesItsSession
  <2> QED
    BY <1>11, <2>2, <2>3 DEF NetworkError
<1> QED
  BY <1>2, <1>4, <1>5, <1>6, <1>7, <1>9, <1>10, <1>11 DEF Hears

LEMMA IInvStep ==
  ASSUME IInv, [Next]_vars
  PROVE  IInv'
<1>1. CASE UNCHANGED vars
  <2>1. UNCHANGED <<rows, req, cookie, lapsed, user, page, faults>>
    BY <1>1 DEF vars, jar, app
  <2> QED
    BY <2>1 DEF IInv, TypeOK, Orderly, Guarded, ScreenNamesItsSession
<1> QED
  BY <1>1, ServerStep, AsksStep, BrowserStep, HearsStep DEF Next

LEMMA IInvAlways == Spec => []IInv
BY IInvInit, IInvStep, PTL DEF Spec

(* Every variable of Accounts keeps its type.                              *)
THEOREM TypeCorrect == Spec => []TypeOK
<1>1. IInv => TypeOK
  BY DEF IInv
<1> QED
  BY <1>1, IInvAlways, PTL

(* Whatever order the answers of login, register, logout and me arrive in, *)
(* the user on the screen is the one whose session the browser has.        *)
THEOREM SessionOnScreen == Spec => []ScreenNamesItsSession
<1>1. IInv => ScreenNamesItsSession
  BY DEF IInv
<1> QED
  BY <1>1, IInvAlways, PTL

-----------------------------------------------------------------------------
(* The refinement                                                          *)

LEMMA NormalForm == \A e \in Spellings : Normal[e] \in Addresses /\ Addresses \subseteq Spellings
BY DEF Addresses

LEMMA PublicKept ==
  ASSUME UNCHANGED rows, \A t \in Slots : Public(req'[t]) = Public(req[t])
  PROVE  UNCHANGED D!vars
BY DEF D!vars, accounts, asked

(* A request ends, and only the ties of others change.                     *)
LEMMA OneCloses ==
  ASSUME NEW s \in Slots, UNCHANGED rows, req'[s] = NoRequest,
         \A t \in Slots \ {s} : Public(req'[t]) = Public(req[t])
  PROVE  D!Next
<1>1. asked'[s].at = "idle"
  BY DEF asked, Public, NoRequest
<1>2. \A t \in Slots \ {s} : asked'[t] = asked[t]
  BY DEF asked
<1>3. UNCHANGED accounts
  BY DEF accounts
<1> QED
  BY <1>1, <1>2, <1>3 DEF D!Next, D!Close

LEMMA OneOpens ==
  ASSUME NEW s \in Slots, UNCHANGED rows, req[s].at = "idle", req'[s].at = "sent",
         \A t \in Slots \ {s} : Public(req'[t]) = Public(req[t])
  PROVE  D!Next
<1>1. asked[s].at = "idle" /\ asked'[s].at = "sent"
  BY DEF asked, Public
<1>2. \A t \in Slots \ {s} : asked'[t] = asked[t]
  BY DEF asked
<1>3. UNCHANGED accounts
  BY DEF accounts
<1> QED
  BY <1>1, <1>2, <1>3 DEF D!Next, D!Open

LEMMA ServerImplements ==
  ASSUME IInv, NEW s \in Slots, Server(s)
  PROVE  [D!Next]_(D!vars)
<1> DEFINE q == req[s]
           email == Normal[q.email]
<1>0. Sane(q)
  BY DEF IInv, Orderly
<1>a. q.email \in Spellings => asked[s].address = email /\ email \in Addresses
      /\ accounts[email] = rows[email]
  BY NormalForm DEF asked, Public, accounts
<1>b. /\ asked[s].kind = q.kind /\ asked[s].password = q.password /\ asked[s].valid = q.valid
      /\ asked[s].token = q.token /\ (q.at \in {"sent", "create"} => asked[s].at = "sent")
  BY DEF asked, Public
<1>c. ASSUME NEW status \in Statuses, NEW who, Answer(s, status, who),
             status \notin {"created", "ok"} => who = None
      PROVE  /\ asked'[s].at = "answered" /\ asked'[s].status = status /\ asked'[s].who = who
             /\ \A t \in Slots \ {s} : asked'[t] = asked[t]
  BY <1>c DEF Answer, Answered, asked, Public, IInv, TypeOK
<1>d. UNCHANGED rows => UNCHANGED accounts
  BY DEF accounts
<1>e. ASSUME q.email \in Spellings, rows' = [rows EXCEPT ![email] = q.password]
      PROVE  D!Set(asked[s])
  <2>1. accounts' = [accounts EXCEPT ![email] = q.password]
    BY <1>e, NormalForm DEF accounts, IInv, TypeOK
  <2> QED
    BY <1>a, <1>b, <1>e, <2>1 DEF D!Set
<1> HIDE DEF email
<1>1. CASE Refuse(s)
  <2>1. q.at = "sent" /\ q.kind = "register" /\ ~q.valid /\ Answer(s, "bad", None)
        /\ UNCHANGED rows
    BY <1>1 DEF Refuse, Serving
  <2>2. D!Decide(s)
    BY <1>b, <1>c, <1>d, <2>1 DEF D!Decide, D!Registered, Statuses
  <2> QED
    BY <1>c, <2>1, <2>2 DEF D!Next, Statuses
<1>2. CASE EmailExists(s)
  <2>1. q.at = "sent" /\ q.kind = "register" /\ q.valid /\ q.email \in Spellings /\ UNCHANGED rows
    BY <1>0, <1>2 DEF EmailExists, Serving, Sane, HasRow
  <2>2. CASE rows[email] # None /\ Answer(s, "taken", None)
    <3>1. D!Decide(s)
      BY <1>a, <1>b, <1>c, <1>d, <2>1, <2>2 DEF D!Decide, D!Registered, Statuses
    <3> QED
      BY <1>c, <2>2, <3>1 DEF D!Next, Statuses
  <2>3. CASE Answer(s, "error", None)
    <3>1. D!Decide(s)
      BY <1>a, <1>b, <1>c, <1>d, <2>1, <2>3 DEF D!Decide, D!Registered, Statuses
    <3> QED
      BY <1>c, <2>3, <3>1 DEF D!Next, Statuses
  <2>4. CASE req' = [req EXCEPT ![s].at = "create"]
    <3>1. \A t \in Slots : Public(req'[t]) = Public(req[t])
      BY <1>0, <2>1, <2>4 DEF Public, IInv, TypeOK, Sane, Request
    <3> QED
      BY <2>1, <3>1, PublicKept
  <2> QED
    BY <1>2, <2>2, <2>3, <2>4 DEF EmailExists, email, HasRow
<1>3. CASE Create(s)
  <2>1. q.at = "create" /\ q.kind = "register" /\ q.valid /\ q.email \in Spellings
    BY <1>0, <1>3 DEF Create, Sane, Insert, HasRow
  <2>2. CASE Answer(s, "created", email) /\ rows[email] = None
             /\ rows' = [rows EXCEPT ![email] = q.password]
    <3>1. D!Set(asked[s])
      BY <1>e, <2>1, <2>2
    <3>2. D!Decide(s)
      BY <1>a, <1>b, <1>c, <2>1, <2>2, <3>1 DEF D!Decide, D!Registered, Statuses
    <3> QED
      BY <1>c, <2>2, <3>2 DEF D!Next, Statuses
  <2>3. CASE Answer(s, "error", None)
    <3>1. UNCHANGED rows \/ (rows[email] = None /\ rows' = [rows EXCEPT ![email] = q.password])
      BY <1>3 DEF Create, email, Insert, HasRow
    <3>2. UNCHANGED accounts \/ (accounts[asked[s].address] = None /\ D!Set(asked[s]))
      BY <1>a, <1>d, <1>e, <2>1, <3>1
    <3>3. D!Decide(s)
      BY <1>b, <1>c, <2>1, <2>3, <3>2 DEF D!Decide, D!Registered, Statuses
    <3> QED
      BY <1>c, <2>3, <3>3 DEF D!Next, Statuses
  <2> QED
    BY <1>3, <2>2, <2>3 DEF Create, email, Insert, HasRow
<1>4. CASE Login(s)
  <2>1. q.at = "sent" /\ q.kind = "login" /\ q.email \in Spellings /\ UNCHANGED rows
    BY <1>0, <1>4 DEF Login, Serving, Sane, Verifies
  <2>2. \E status \in Statuses, who \in Spellings \cup {None} :
          /\ Answer(s, status, who)
          /\ \/ rows[email] = q.password /\ status = "ok" /\ who = email
             \/ rows[email] # q.password /\ status = "denied" /\ who = None
             \/ status = "error" /\ who = None
    BY <1>4, <2>1 DEF Login, Statuses, email, Verifies
  <2>3. D!Decide(s)
    BY <1>a, <1>b, <1>c, <1>d, <2>1, <2>2 DEF D!Decide, D!LoggedIn
  <2> QED
    BY <1>c, <2>2, <2>3 DEF D!Next
<1>5. CASE CheckEmail(s)
  <2>1. q.at = "sent" /\ q.kind = "check" /\ q.email \in Spellings /\ UNCHANGED rows
    BY <1>0, <1>5 DEF CheckEmail, Serving, Sane, HasRow
  <2>2. \E status \in Statuses :
          /\ Answer(s, status, None)
          /\ \/ status = IF rows[email] # None THEN "exists" ELSE "absent"
             \/ status = "error"
          /\ status \notin {"created", "ok"}
    BY <1>5, <2>1 DEF CheckEmail, Statuses, email, HasRow
  <2>3. D!Decide(s)
    BY <1>a, <1>b, <1>c, <1>d, <2>1, <2>2 DEF D!Decide, D!Checked
  <2> QED
    BY <1>c, <2>2, <2>3 DEF D!Next
<1>6. CASE ResetPassword(s)
  <2>1. q.at = "sent" /\ q.kind = "reset" /\ q.email \in Spellings
    BY <1>0, <1>6 DEF ResetPassword, Serving, Sane, UpdatePassword, HasRow
  <2>2. \E status \in {"reset", "unknown", "error"} :
          /\ Answer(s, status, None)
          /\ \/ status = "reset" /\ rows[email] # None
                /\ rows' = [rows EXCEPT ![email] = q.password]
             \/ status = "unknown" /\ rows[email] = None /\ UNCHANGED rows
             \/ status = "error" /\ rows[email] # None
                /\ rows' = [rows EXCEPT ![email] = q.password]
             \/ status = "error" /\ UNCHANGED rows
    BY <1>6, <2>1 DEF ResetPassword, email, UpdatePassword, HasRow
  <2>3. D!Decide(s)
    BY <1>a, <1>b, <1>c, <1>d, <1>e, <2>1, <2>2 DEF D!Decide, D!Reset, Statuses
  <2> QED
    BY <1>c, <2>2, <2>3 DEF D!Next, Statuses
<1>7. CASE Me(s)
  <2>1. q.at = "sent" /\ q.kind = "me" /\ UNCHANGED rows
    BY <1>7 DEF Me, Serving
  <2>2. \/ Answer(s, "ok", q.token) /\ q.token # None
        \/ Answer(s, "denied", None)
    BY <1>7 DEF Me, Recognised, HasRow
  <2>3. D!Decide(s)
    BY <1>b, <1>c, <1>d, <2>1, <2>2 DEF D!Decide, D!Recognised, Statuses
  <2> QED
    BY <1>c, <2>2, <2>3 DEF D!Next, Statuses
<1>8. CASE Logout(s)
  <2>1. q.at = "sent" /\ q.kind = "logout" /\ UNCHANGED rows /\ Answer(s, "out", None)
    BY <1>8 DEF Logout, Serving
  <2>2. D!Decide(s)
    BY <1>b, <1>c, <1>d, <2>1 DEF D!Decide, Statuses
  <2> QED
    BY <1>c, <2>1, <2>2 DEF D!Next, Statuses
<1> QED
  BY <1>1, <1>2, <1>3, <1>4, <1>5, <1>6, <1>7, <1>8 DEF Server

LEMMA AsksImplements ==
  ASSUME IInv, NEW s \in Slots, NEW b \in Browsers, Asks(s, b)
  PROVE  [D!Next]_(D!vars)
<1>1. ASSUME NEW q, q.at = "sent", Send(s, q) PROVE D!Next
  <2>1. UNCHANGED rows /\ req[s].at = "idle" /\ req'[s] = q
        /\ \A t \in Slots \ {s} : req'[t] = req[t]
    BY <1>1 DEF Send, Free, IInv, TypeOK
  <2> QED
    BY <1>1, <2>1, OneOpens
<1>2. \A tie, kind, e, w : Asked(b, tie, kind, e, w).at = "sent"
  BY DEF Asked
<1>3. CASE SubmitRegister(s, b)
  <2> DEFINE q == [Asked(b, "page", "register", None, None) EXCEPT !.valid = FALSE]
  <2>1. q.at = "sent"
    BY DEF Asked
  <2>2. Send(s, q) \/ \E e \in Spellings, w \in Passwords : Send(s, Asked(b, "page", "register", e, w))
    BY <1>3 DEF SubmitRegister
  <2> HIDE DEF q
  <2> QED
    BY <1>1, <1>2, <2>1, <2>2
<1>4. CASE SubmitLogin(s, b) \/ SubmitEmail(s, b) \/ SubmitPassword(s, b) \/ ClickLogout(s, b)
  BY <1>1, <1>2, <1>4 DEF SubmitLogin, SubmitEmail, SubmitPassword, ClickLogout
<1>5. CASE OpenDashboard(s, b)
  <2>0. UNCHANGED rows
    BY <1>5 DEF OpenDashboard
  <2>1. \A t \in Slots : \A p : Public(Untie(b, p, req[t])) = Public(req[t])
    BY UntieOnlyTie DEF IInv, Orderly
  <2>2. CASE Navigate(b, "dashboard", req)
    BY <2>0, <2>1, <2>2, PublicKept DEF Navigate
  <2>3. CASE ~Navigate(b, "dashboard", req)
    <3> DEFINE me == [Asked(b, "guard", "me", None, None) EXCEPT !.token = cookie[b]]
    <3>1. /\ req' = [t \in Slots |-> IF t = s THEN me ELSE Untie(b, page[b], req[t])]
          /\ Free(s)
      BY <1>5, <2>3 DEF OpenDashboard
    <3>2. me.at = "sent"
      BY DEF Asked
    <3> HIDE DEF me
    <3> QED
      BY <2>0, <2>1, <3>1, <3>2, OneOpens DEF Free
  <2> QED
    BY <2>2, <2>3
<1> QED
  BY <1>3, <1>4, <1>5 DEF Asks

LEMMA BrowserImplements ==
  ASSUME IInv, NEW b \in Browsers, Visit(b) \/ Reload(b) \/ Expire(b)
  PROVE  [D!Next]_(D!vars)
<1>1. CASE Visit(b)
  <2>1. \A t \in Slots : \A p : Public(Untie(b, p, req[t])) = Public(req[t])
    BY UntieOnlyTie DEF IInv, Orderly
  <2> QED
    BY <1>1, <2>1, PublicKept DEF Visit, Navigate
<1>2. CASE Reload(b)
  <2>1. \A t \in Slots : Public(req'[t]) = Public(req[t])
    BY <1>2 DEF Reload, Public, IInv, TypeOK, Request
  <2> QED
    BY <1>2, <2>1, PublicKept DEF Reload
<1>3. CASE Expire(b)
  <2>1. ASSUME NEW t \in Slots
        PROVE  asked'[t] \in {asked[t], [asked[t] EXCEPT !.token = None]}
    <3>1. CASE req[t].from = b
      <4>1. req[t] \in Request /\ req'[t] = [req[t] EXCEPT !.token = None]
        BY <1>3, <3>1 DEF Expire, IInv, TypeOK
      <4>2. Public(req'[t]) = [Public(req[t]) EXCEPT !.token = None]
        BY <4>1 DEF Public, Request
      <4> QED
        BY <4>2 DEF asked
    <3>2. CASE req[t].from # b
      BY <1>3, <3>2 DEF Expire, asked
    <3> QED
      BY <3>1, <3>2
  <2>2. UNCHANGED accounts
    BY <1>3 DEF Expire, accounts
  <2> QED
    BY <2>1, <2>2 DEF D!Next, D!Lapse
<1> QED
  BY <1>1, <1>2, <1>3

LEMMA HearsImplements ==
  ASSUME IInv, NEW s \in Slots, Hears(s)
  PROVE  [D!Next]_(D!vars)
<1> DEFINE unheard == [req EXCEPT ![s].tie = "none"]
<1>0. UNCHANGED rows
  BY DEF Hears, SignedIn, FormAnswered, EmailFound, PasswordReset, GuardPasses, GuardRefuses, 
     LoggedOut, NetworkError, Forget
<1>1. Over(s)[s] = NoRequest /\ \A t \in Slots \ {s} : Over(s)[t] = req[t]
  BY DEF Over, IInv, TypeOK
<1>2. CASE req' = Over(s)
  BY <1>0, <1>1, <1>2, OneCloses
<1>3. \A t \in Slots : Public(unheard[t]) = Public(req[t]) /\ Sane(unheard[t])
  BY DEF Public, IInv, TypeOK, Orderly, Sane, Request
<1>4. \A q, b, p : Sane(q) /\ b \in Browsers => Public(Untie(b, p, q)) = Public(q)
  BY UntieOnlyTie
<1>5. \A b, p : Untie(b, p, NoRequest) = NoRequest
  BY DEF Untie, NoRequest
<1>6. req[s].at # "idle" => req[s].from \in Browsers
  BY DEF IInv, Orderly, Sane
<1>7. ASSUME NEW p, req[s].from \in Browsers, Navigate(req[s].from, p, Over(s)) PROVE D!Next
  <2>1. req'[s] = NoRequest
    BY <1>1, <1>5, <1>7 DEF Navigate
  <2>2. \A t \in Slots \ {s} : Public(req'[t]) = Public(req[t])
    BY <1>1, <1>4, <1>7 DEF Navigate, IInv, Orderly
  <2> QED
    BY <1>0, <2>1, <2>2, OneCloses
<1>8. CASE SignedIn(s) \/ GuardPasses(s) \/ GuardRefuses(s) \/ LoggedOut(s)
  BY <1>6, <1>7, <1>8 DEF SignedIn, GuardPasses, GuardRefuses, LoggedOut, SentToLogin, Arrives
<1>9. CASE NetworkError(s)
  <2>1. CASE req' = unheard
    BY <1>0, <1>3, <2>1, PublicKept
  <2>2. ASSUME Navigate(req[s].from, "login", unheard) PROVE UNCHANGED D!vars
    BY <1>0, <1>3, <1>4, <1>6, <1>9, <2>2, PublicKept DEF Navigate, NetworkError, Free
  <2> QED
    BY <1>9, <2>1, <2>2 DEF NetworkError, SentToLogin
<1> QED
  BY <1>2, <1>8, <1>9 DEF Hears, FormAnswered, EmailFound, PasswordReset, Forget

LEMMA InitImplements == Init => D!Init
BY DEF Init, D!Init, accounts, asked, Public, NoRequest, Addresses

LEMMA NextImplements ==
  ASSUME IInv, [Next]_vars
  PROVE  [D!Next]_(D!vars)
<1>1. CASE UNCHANGED vars
  BY <1>1, PublicKept DEF vars
<1> QED
  BY <1>1, ServerImplements, AsksImplements, BrowserImplements, HearsImplements DEF Next

(* Register, Login, CheckEmail and ResetPassword are atomic: one account   *)
(* per address and one 201 for it, and answers that some moment between    *)
(* the request and the answer makes true.                                  *)
THEOREM DirectoryImplemented == Spec => ImplementsDirectory
BY InitImplements, NextImplements, IInvAlways, PTL DEF Spec, ImplementsDirectory, D!Spec
=============================================================================
