----------------------------- MODULE Directory -----------------------------
(***************************************************************************)
(* What the account endpoints promise: every request under way is decided  *)
(* at one moment between its arrival and its answer, against the accounts  *)
(* of that moment, and nothing else ever changes an account.  There is one *)
(* account per address.  An "error" answer says nothing about whether the  *)
(* request took effect.                                                    *)
(***************************************************************************)
CONSTANTS Slots,   \* requests under way at a time
          None     \* no password, no account

VARIABLES
  accounts,  \* the password of each address, None without an account
  asked      \* the requests under way

vars == <<accounts, asked>>

Init ==
  /\ \A a \in DOMAIN accounts : accounts[a] = None
  /\ \A s \in Slots : asked[s].at = "idle"

(* A request arrives; one that has no listener any more goes away.         *)
Open(s) ==
  /\ asked[s].at = "idle" /\ asked'[s].at = "sent"
  /\ UNCHANGED accounts

Close(s) ==
  /\ asked'[s].at = "idle"
  /\ UNCHANGED accounts

Set(q) == accounts' = [accounts EXCEPT ![q.address] = q.password]

Registered(q, status, who) ==
  LET free == accounts[q.address] = None
  IN  \/ q.valid /\ free /\ status = "created" /\ who = q.address /\ Set(q)
      \/ q.valid /\ ~free /\ status = "taken" /\ UNCHANGED accounts
      \/ ~q.valid /\ status = "bad" /\ UNCHANGED accounts
      \/ q.valid /\ status = "error" /\ (UNCHANGED accounts \/ (free /\ Set(q)))

LoggedIn(q, status, who) ==
  /\ \/ accounts[q.address] = q.password /\ status = "ok" /\ who = q.address
     \/ accounts[q.address] # q.password /\ status = "denied"
     \/ status = "error"
  /\ UNCHANGED accounts

Checked(q, status) ==
  /\ \/ status = IF accounts[q.address] = None THEN "absent" ELSE "exists"
     \/ status = "error"
  /\ UNCHANGED accounts

Reset(q, status) ==
  LET known == accounts[q.address] # None
  IN  \/ known /\ status = "reset" /\ Set(q)
      \/ ~known /\ status = "unknown" /\ UNCHANGED accounts
      \/ status = "error" /\ (UNCHANGED accounts \/ (known /\ Set(q)))

Recognised(q, status, who) ==
  /\ \/ q.token # None /\ status = "ok" /\ who = q.token
     \/ status = "denied"
  /\ UNCHANGED accounts

(* Only an answer that opens a session or shows a user names an account.   *)
Decide(s) ==
  LET q == asked[s]   status == asked'[s].status   who == asked'[s].who
  IN  /\ q.at = "sent" /\ asked'[s].at = "answered"
      /\ status \notin {"created", "ok"} => who = None
      /\ \/ q.kind = "register" /\ Registered(q, status, who)
         \/ q.kind = "login" /\ LoggedIn(q, status, who)
         \/ q.kind = "check" /\ Checked(q, status)
         \/ q.kind = "reset" /\ Reset(q, status)
         \/ q.kind = "me" /\ Recognised(q, status, who)
         \/ q.kind = "logout" /\ status = "out" /\ UNCHANGED accounts

(* Tokens of requests under way expire.                                    *)
Lapse ==
  /\ \A s \in Slots : asked'[s] \in {asked[s], [asked[s] EXCEPT !.token = None]}
  /\ UNCHANGED accounts

Next == Lapse \/ \E s \in Slots :
          /\ \A other \in Slots \ {s} : asked'[other] = asked[other]
          /\ Open(s) \/ Close(s) \/ Decide(s)

Spec == Init /\ [][Next]_vars
=============================================================================
