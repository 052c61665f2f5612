------------------------------ MODULE Accounts ------------------------------
(***************************************************************************)
(* Accounts and sessions: the handlers of internal/auth, one database call *)
(* per step, against browsers that run the Angular application: its pages, *)
(* authGuard, and AuthService with the user it shows.  Requests of a       *)
(* browser overlap, and their answers arrive in any order or not at all.   *)
(*                                                                         *)
(* A browser has one tab.  A password stands for itself, and its argon2    *)
(* hash for what verifies it.                                              *)
(***************************************************************************)
EXTENDS Naturals

CONSTANTS Browsers,   \* people, each with a cookie and one tab
          Spellings,  \* e-mail addresses as they are typed
          Normal,     \* strings.ToLower(strings.TrimSpace(...)) of each
          Passwords,
          Slots,      \* requests under way at a time
          MaxFaults,  \* bound: failing calls and lost answers
          None        \* no password, account, token or browser

Addresses == {Normal[e] : e \in Spellings}

ASSUME NormalAssumption ==
  /\ Normal \in [Spellings -> Spellings]
  /\ \A e \in Spellings : Normal[Normal[e]] = Normal[e]
ASSUME NoneAssumption == None \notin Spellings \cup Passwords \cup Browsers
ASSUME FaultsAssumption == MaxFaults \in Nat

VARIABLES
  rows,    \* users: the password hash of each e-mail, None without a row
  req,     \* the requests under way
  cookie,  \* auth_token of each browser: whose session it is
  lapsed,  \* the browser's last session expired
  user,    \* AuthService.user
  page,    \* the page shown
  faults   \* faults that have happened

app == <<user, page>>
jar == <<cookie, lapsed>>
vars == <<rows, req, jar, app, faults>>

-----------------------------------------------------------------------------
(* Requests.  tie says what an answer still reaches: the page that sent    *)
(* it, the guard that waits for it, only the service, or nothing.          *)
Kinds == {"register", "login", "check", "reset", "me", "logout"}
Statuses == {"created", "taken", "bad", "ok", "denied", "exists", "absent", "reset", "unknown",
             "out", "error"}

Request ==
  [at : {"idle", "sent", "create", "answered"}, kind : Kinds \cup {"none"},
   from : Browsers \cup {None}, tie : {"page", "guard", "service", "none"},
   email : Spellings \cup {None}, password : Passwords \cup {None}, valid : BOOLEAN,
   token : Spellings \cup {None}, status : Statuses \cup {"none"}, who : Spellings \cup {None}]

NoRequest ==
  [at |-> "idle", kind |-> "none", from |-> None, tie |-> "none", email |-> None,
   password |-> None, valid |-> TRUE, token |-> None, status |-> "none", who |-> None]

Pages == {"login", "register", "forgot", "newpassword", "done", "dashboard"}

TypeOK ==
  /\ rows \in [Spellings -> Passwords \cup {None}]
  /\ req \in [Slots -> Request]
  /\ cookie \in [Browsers -> Spellings \cup {None}]
  /\ lapsed \in [Browsers -> BOOLEAN]
  /\ user \in [Browsers -> Spellings \cup {None}]
  /\ page \in [Browsers -> Pages]
  /\ faults \in 0 .. MaxFaults

Init ==
  /\ rows = [e \in Spellings |-> None]
  /\ req = [s \in Slots |-> NoRequest]
  /\ cookie = [b \in Browsers |-> None]
  /\ lapsed = [b \in Browsers |-> FALSE]
  /\ user = [b \in Browsers |-> None]
  /\ page = [b \in Browsers |-> "login"]
  /\ faults = 0

Works == UNCHANGED faults
Fault == faults < MaxFaults /\ faults' = faults + 1

-----------------------------------------------------------------------------
(* The table of users: a row stands for its password, as hashed.           *)

HasRow(email) == rows[email] # None

Verifies(email, password) == rows[email] = password

(* The e-mail column is UNIQUE: an insert that finds a row fails.          *)
Insert(email, password) ==
  ~HasRow(email) /\ rows' = [rows EXCEPT ![email] = password]

UpdatePassword(email, password) ==
  HasRow(email) /\ rows' = [rows EXCEPT ![email] = password]

-----------------------------------------------------------------------------
(* The handlers, one database call per step                                *)

Serving(s, kind) == req[s].at = "sent" /\ req[s].kind = kind

(* An answer, and who it names, if anyone.  What was asked is forgotten.   *)
Answered(q, status, who) ==
  [at |-> "answered", kind |-> q.kind, from |-> q.from, tie |-> q.tie, email |-> None,
   password |-> None, valid |-> TRUE, token |-> None, status |-> status, who |-> who]

Answer(s, status, who) ==
  /\ req' = [req EXCEPT ![s] = Answered(req[s], status, who)]
  /\ UNCHANGED <<jar, app>>

Refuse(s) ==
  /\ Serving(s, "register") /\ ~req[s].valid
  /\ Answer(s, "bad", None)
  /\ Works /\ UNCHANGED rows

(* EmailExists, for Register.                                              *)
EmailExists(s) ==
  /\ Serving(s, "register") /\ req[s].valid
  /\ \/ /\ HasRow(Normal[req[s].email])
        /\ Answer(s, "taken", None) /\ Works
     \/ /\ ~HasRow(Normal[req[s].email])
        /\ req' = [req EXCEPT ![s].at = "create"]
        /\ Works /\ UNCHANGED <<jar, app>>
     \/ Answer(s, "error", None) /\ Fault
  /\ UNCHANGED rows

(* Variant: the insert replaces a row that has appeared meanwhile.         *)
CreateReplaces(s) ==
  /\ req[s].at = "create"
  /\ rows' = [rows EXCEPT ![Normal[req[s].email]] = req[s].password]
  /\ Answer(s, "created", Normal[req[s].email]) /\ Works

Create(s) ==
  LET email == Normal[req[s].email]
  IN  /\ req[s].at = "create"
      /\ \/ /\ Insert(email, req[s].password)
            /\ \/ Answer(s, "created", email) /\ Works
               \/ Answer(s, "error", None) /\ Fault
         \/ /\ HasRow(email)
            /\ Answer(s, "error", None)
            /\ Works /\ UNCHANGED rows
         \/ /\ Answer(s, "error", None)
            /\ Fault /\ UNCHANGED rows

Login(s) ==
  LET email == Normal[req[s].email]
  IN  /\ Serving(s, "login")
      /\ \/ /\ Verifies(email, req[s].password)
            /\ Answer(s, "ok", email) /\ Works
         \/ /\ ~Verifies(email, req[s].password)
            /\ Answer(s, "denied", None) /\ Works
         \/ Answer(s, "error", None) /\ Fault
      /\ UNCHANGED rows

CheckEmail(s) ==
  /\ Serving(s, "check")
  /\ \/ /\ Answer(s, IF HasRow(Normal[req[s].email]) THEN "exists" ELSE "absent", None)
        /\ Works
     \/ Answer(s, "error", None) /\ Fault
  /\ UNCHANGED rows

(* UPDATE ... WHERE email: no row affected means no account.               *)
ResetPassword(s) ==
  LET email == Normal[req[s].email]
  IN  /\ Serving(s, "reset")
      /\ \/ /\ UpdatePassword(email, req[s].password)
            /\ \/ Answer(s, "reset", None) /\ Works
               \/ Answer(s, "error", None) /\ Fault
         \/ /\ ~HasRow(email)
            /\ Answer(s, "unknown", None)
            /\ Works /\ UNCHANGED rows
         \/ /\ Answer(s, "error", None)
            /\ Fault /\ UNCHANGED rows

(* The token is there and not expired, and its user has a row.             *)
Recognised(token) == token # None /\ HasRow(token)

(* UserFromRequest says "not authenticated" of a query that fails too.     *)
Me(s) ==
  /\ Serving(s, "me")
  /\ \/ /\ Recognised(req[s].token)
        /\ Answer(s, "ok", req[s].token) /\ Works
     \/ /\ ~Recognised(req[s].token)
        /\ Answer(s, "denied", None) /\ Works
     \/ Answer(s, "denied", None) /\ Fault
  /\ UNCHANGED rows

Logout(s) ==
  /\ Serving(s, "logout")
  /\ Answer(s, "out", None)
  /\ Works /\ UNCHANGED rows

Server(s) == \/ Refuse(s) \/ EmailExists(s) \/ Create(s) \/ Login(s) \/ CheckEmail(s)
             \/ ResetPassword(s) \/ Me(s) \/ Logout(s)

-----------------------------------------------------------------------------
(* Pages and requests of a browser                                         *)

(* To go from one page to another leaves its form behind, whose request    *)
(* goes on; any navigation makes the router drop a guard that waits.       *)
Untie(b, p, q) ==
  CASE q.from = b /\ q.tie = "page" /\ page[b] # p -> [q EXCEPT !.tie = "service"]
    [] q.from = b /\ q.tie = "guard" -> [q EXCEPT !.tie = "none"]
    [] OTHER -> q

(* The browser shows p; nothing else has happened to requests but reqs.    *)
Navigate(b, p, reqs) ==
  /\ page' = [page EXCEPT ![b] = p]
  /\ req' = [s \in Slots |-> Untie(b, p, reqs[s])]

Free(s) == req[s].at = "idle"

Asked(b, tie, kind, email, password) ==
  [at |-> "sent", kind |-> kind, from |-> b, tie |-> tie, email |-> email,
   password |-> password, valid |-> TRUE, token |-> None, status |-> "none", who |-> None]

Send(s, q) ==
  /\ Free(s)
  /\ req' = [req EXCEPT ![s] = q]
  /\ UNCHANGED <<rows, jar, app, faults>>

(* The button of a form is disabled until its request is answered.         *)
Ready(b, p) == page[b] = p /\ \A s \in Slots : req[s].from = b => req[s].tie # "page"

SubmitLogin(s, b) ==
  /\ Ready(b, "login")
  /\ \E e \in Spellings, w \in Passwords : Send(s, Asked(b, "page", "login", e, w))

(* A name of two blanks passes the form, and not Register.                 *)
SubmitRegister(s, b) ==
  /\ Ready(b, "register")
  /\ \/ \E e \in Spellings, w \in Passwords : Send(s, Asked(b, "page", "register", e, w))
     \/ Send(s, [Asked(b, "page", "register", None, None) EXCEPT !.valid = FALSE])

SubmitEmail(s, b) ==
  /\ Ready(b, "forgot")
  /\ \E e \in Spellings : Send(s, Asked(b, "page", "check", e, None))

(* The field may have been edited while its check was under way, so the    *)
(* address need not be the one that was found to exist.                    *)
SubmitPassword(s, b) ==
  /\ Ready(b, "newpassword")
  /\ \E e \in Spellings, w \in Passwords : Send(s, Asked(b, "page", "reset", e, w))

ClickLogout(s, b) ==
  /\ page[b] = "dashboard"
  /\ Send(s, Asked(b, "service", "logout", None, None))

(* authGuard: a user that is known is let in, else loadCurrentUser asks,   *)
(* in place of an earlier navigation that waits.                           *)
OpenDashboard(s, b) ==
  /\ page[b] # "dashboard"
  /\ \/ /\ user[b] # None
        /\ Navigate(b, "dashboard", req)
     \/ /\ user[b] = None /\ Free(s)
        /\ LET me == [Asked(b, "guard", "me", None, None) EXCEPT !.token = cookie[b]]
           IN  req' = [t \in Slots |-> IF t = s THEN me ELSE Untie(b, page[b], req[t])]
        /\ UNCHANGED page
  /\ UNCHANGED <<rows, jar, user, faults>>

(* Links, and the back button.                                             *)
Visit(b) ==
  /\ \E p \in {"login", "register", "forgot"} \ {page[b]} : Navigate(b, p, req)
  /\ UNCHANGED <<rows, jar, user, faults>>

(* The application starts anew, and hears no answer to what was asked.     *)
Reload(b) ==
  /\ user' = [user EXCEPT ![b] = None]
  /\ page' = [page EXCEPT ![b] = "login"]
  /\ req' = [s \in Slots |-> IF req[s].from = b THEN [req[s] EXCEPT !.tie = "none"] ELSE req[s]]
  /\ UNCHANGED <<rows, jar, faults>>

(* The cookie and the token in it end together, an hour after they began.  *)
Expire(b) ==
  /\ cookie[b] # None
  /\ cookie' = [cookie EXCEPT ![b] = None]
  /\ lapsed' = [lapsed EXCEPT ![b] = TRUE]
  /\ req' = [s \in Slots |-> IF req[s].from = b THEN [req[s] EXCEPT !.token = None] ELSE req[s]]
  /\ UNCHANGED <<rows, app, faults>>

-----------------------------------------------------------------------------
(* Answers.  The browser applies Set-Cookie before the application hears.  *)

Arrives(s, kinds, statuses) ==
  /\ req[s].at = "answered" /\ req[s].tie # "none"
  /\ req[s].kind \in kinds /\ req[s].status \in statuses

Over(s) == [req EXCEPT ![s] = NoRequest]

SetCookie(b, who) ==
  /\ cookie' = [cookie EXCEPT ![b] = who]
  /\ lapsed' = [lapsed EXCEPT ![b] = FALSE]

(* login and register of AuthService, and of the pages, wherever the user  *)
(* has gone meanwhile.                                                     *)
SignedIn(s) ==
  LET b == req[s].from
  IN  /\ Arrives(s, {"login", "register"}, {"ok", "created"})
      /\ SetCookie(b, req[s].who)
      /\ user' = [user EXCEPT ![b] = req[s].who]
      /\ Navigate(b, "dashboard", Over(s))
      /\ UNCHANGED <<rows, faults>>

(* An answer the page shows, and whose form may be submitted again.        *)
FormAnswered(s) ==
  /\ Arrives(s, {"login", "register", "check", "reset"}, Statuses \ {"ok", "created"})
  /\ ~(req[s].tie = "page" /\ req[s].status \in {"exists", "reset"})
  /\ req' = Over(s)
  /\ UNCHANGED <<rows, jar, app, faults>>

EmailFound(s) ==
  /\ Arrives(s, {"check"}, {"exists"}) /\ req[s].tie = "page"
  /\ page' = [page EXCEPT ![req[s].from] = "newpassword"]
  /\ req' = Over(s)
  /\ UNCHANGED <<rows, jar, user, faults>>

PasswordReset(s) ==
  /\ Arrives(s, {"reset"}, {"reset"}) /\ req[s].tie = "page"
  /\ page' = [page EXCEPT ![req[s].from] = "done"]
  /\ req' = Over(s)
  /\ UNCHANGED <<rows, jar, user, faults>>

(* loadCurrentUser, and what the guard makes of it.                        *)
GuardPasses(s) ==
  LET b == req[s].from
  IN  /\ Arrives(s, {"me"}, {"ok"})
      /\ user' = [user EXCEPT ![b] = req[s].who]
      /\ Navigate(b, "dashboard", Over(s))
      /\ UNCHANGED <<rows, jar, faults>>

SentToLogin(b, reqs) ==
  /\ user' = [user EXCEPT ![b] = None]
  /\ Navigate(b, "login", reqs)

GuardRefuses(s) ==
  /\ Arrives(s, {"me"}, {"denied"})
  /\ SentToLogin(req[s].from, Over(s))
  /\ UNCHANGED <<rows, jar, faults>>

(* Variant: the user is left as it was.                                    *)
LoggedOutKeepsUser(s) ==
  LET b == req[s].from
  IN  /\ Arrives(s, {"logout"}, {"out"})
      /\ SetCookie(b, None)
      /\ Navigate(b, "login", Over(s))
      /\ UNCHANGED <<rows, user, faults>>

LoggedOut(s) ==
  LET b == req[s].from
  IN  /\ Arrives(s, {"logout"}, {"out"})
      /\ SetCookie(b, None)
      /\ SentToLogin(b, Over(s))
      /\ UNCHANGED <<rows, faults>>

(* The application is told of a network error, and the server goes on with *)
(* the request if it has reached it.  finishLogout runs without an answer. *)
NetworkError(s) ==
  LET b == req[s].from
      unheard == [req EXCEPT ![s].tie = "none"]
  IN  /\ ~Free(s) /\ req[s].tie # "none"
      /\ Fault
      /\ \/ req[s].kind \in {"me", "logout"} /\ SentToLogin(b, unheard)
         \/ req[s].kind \notin {"me", "logout"} /\ req' = unheard /\ UNCHANGED app
      /\ UNCHANGED <<rows, jar>>

(* A request nobody waits for never reached the server, or is answered.    *)
Forget(s) ==
  /\ req[s].tie = "none" /\ req[s].at \in {"sent", "answered"}
  /\ req' = Over(s)
  /\ UNCHANGED <<rows, jar, app, faults>>

-----------------------------------------------------------------------------
Hears(s) == \/ SignedIn(s) \/ FormAnswered(s) \/ EmailFound(s) \/ PasswordReset(s)
            \/ GuardPasses(s) \/ GuardRefuses(s) \/ LoggedOut(s)
            \/ NetworkError(s) \/ Forget(s)

Asks(s, b) == \/ SubmitLogin(s, b) \/ SubmitRegister(s, b) \/ SubmitEmail(s, b)
              \/ SubmitPassword(s, b) \/ ClickLogout(s, b) \/ OpenDashboard(s, b)

Next ==
  \/ \E s \in Slots : Server(s) \/ Hears(s)
  \/ \E s \in Slots, b \in Browsers : Asks(s, b)
  \/ \E b \in Browsers : Visit(b) \/ Reload(b) \/ Expire(b)

Spec == Init /\ [][Next]_vars

-----------------------------------------------------------------------------
(* Properties                                                              *)

(* What the dashboard says of the user is whose session its requests go    *)
(* out with, until that session expires: however the answers of login,     *)
(* register, logout and me overtake each other, and whatever page they     *)
(* find (AuthService, authGuard, SetAuthCookie, ClearAuthCookie).          *)
ScreenNamesItsSession ==
  \A b \in Browsers :
    /\ user[b] # None => cookie[b] = user[b] \/ lapsed[b]
    /\ page[b] = "dashboard" => user[b] # None

(* The account endpoints are atomic: Register's two queries and the UNIQUE *)
(* column amount to one account per address and one 201 for it; no login,  *)
(* check or reset contradicts the accounts of every moment it was under    *)
(* way, however the address was spelled.                                   *)
accounts == [a \in Addresses |-> rows[a]]

Public(q) ==
  [at |-> IF q.at = "create" THEN "sent" ELSE q.at, kind |-> q.kind,
   address |-> IF q.email = None THEN None ELSE Normal[q.email],
   password |-> q.password, valid |-> q.valid, token |-> q.token,
   status |-> q.status, who |-> q.who]

asked == [s \in Slots |-> Public(req[s])]

D == INSTANCE Directory

ImplementsDirectory == D!Spec
=============================================================================
