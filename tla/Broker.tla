------------------------------- MODULE Broker -------------------------------
(***************************************************************************)
(* The broker object of queue.go, which caches one connection and one      *)
(* channel to RabbitMQ and opens them again when they are found closed,    *)
(* under its two users: the API, whose request handlers publish with two   *)
(* attempts and drop the cached channel after a failed one; and a worker,  *)
(* whose goroutines publish retries on the channel its loop consumes from  *)
(* and subscribes again after the link is lost.                            *)
(*                                                                         *)
(* A connection may be dead before the process notices (broken).  Names of *)
(* connections and channels are used again once nothing refers to them.    *)
(***************************************************************************)
EXTENDS Integers, FiniteSets

CONSTANTS Callers,    \* request handlers, or the worker's goroutines
          MaxFaults   \* bound: links lost, channels closed, setups refused

ASSUME CallersAssumption == IsFiniteSet(Callers)
ASSUME FaultsAssumption == MaxFaults \in Nat

VARIABLES
  role,       \* whose broker object this is
  up,         \* RabbitMQ can be reached
  conns,      \* state of each connection
  chans,      \* the connection of each open channel, Nil when closed
  conn, ch,   \* broker.conn, broker.ch
  pc, try,    \* where each caller is, and at which attempt
  held,       \* the channel channel() gave it
  cost,       \* attempts the troubles it met since it began may have cost it
  loop, sub,  \* the worker's loop, and the channel it consumes from
  stopping,   \* the context is cancelled; or the server is shutting down
  closed,     \* broker.close has been called
  faults      \* faults that have happened

library == <<conns, chans>>
link == <<library, conn, ch>>
calls == <<pc, try, held, cost>>
worker == <<loop, sub>>
vars == <<role, up, link, calls, worker, stopping, closed, faults>>

-----------------------------------------------------------------------------
Nil == 0
Conns == 1 .. 2
Channels == 1 .. Cardinality(Callers) + 2

TypeOK ==
  /\ role \in {"api", "worker"}
  /\ {up, stopping, closed} \subseteq BOOLEAN
  /\ conns \in [Conns -> {"open", "broken", "closed"}]
  /\ chans \in [Channels -> Conns \cup {Nil}]
  /\ conn \in Conns \cup {Nil} /\ ch \in Channels \cup {Nil}
  /\ pc \in [Callers -> {"idle", "channel", "publish", "reset", "ok", "failed"}]
  /\ try \in [Callers -> {1, 2}]
  /\ held \in [Callers -> Channels \cup {Nil}]
  /\ cost \in [Callers -> 0 .. 2]
  /\ loop \in {"none", "drain", "reset", "wait", "consume", "exited"}
  /\ sub \in Channels \cup {Nil}
  /\ faults \in 0 .. MaxFaults

(* NewPublisher, or NewConsumer and the first subscription, have worked.   *)
Init ==
  /\ role \in {"api", "worker"}
  /\ up = TRUE
  /\ conns = [k \in Conns |-> IF k = 1 THEN "open" ELSE "closed"]
  /\ chans = [c \in Channels |-> IF c = 1 THEN 1 ELSE Nil]
  /\ conn = 1 /\ ch = 1
  /\ pc = [w \in Callers |-> "idle"]
  /\ try = [w \in Callers |-> 1]
  /\ held = [w \in Callers |-> Nil]
  /\ cost = [w \in Callers |-> 0]
  /\ loop = IF role = "worker" THEN "drain" ELSE "none"
  /\ sub = IF role = "worker" THEN 1 ELSE Nil
  /\ stopping = FALSE /\ closed = FALSE
  /\ faults = 0

IsClosed(c) == chans[c] = Nil
Sound(c) == ~IsClosed(c) /\ conns[chans[c]] = "open"

InCall(w) == pc[w] \in {"channel", "publish", "reset"}
Capped(n) == IF n > 2 THEN 2 ELSE n
Charge(S, n) ==
  cost' = [w \in Callers |-> IF w \in S /\ InCall(w) THEN Capped(cost[w] + n) ELSE cost[w]]

Unheld(c) == c # ch /\ c # sub /\ IsClosed(c) /\ \A w \in Callers : held[w] # c
FreshChannel == CHOOSE c \in Channels : Unheld(c)
FreshConn == CHOOSE k \in Conns : conns[k] = "closed" /\ k # conn

(* Closing a connection closes its channels.                               *)
CloseConns(S) ==
  /\ conns' = [k \in Conns |-> IF k \in S THEN "closed" ELSE conns[k]]
  /\ chans' = [c \in Channels |-> IF chans[c] \in S THEN Nil ELSE chans[c]]

-----------------------------------------------------------------------------
(* The broker object.  Each is one step: it holds the mutex throughout.    *)

Cached == ch # Nil /\ ~IsClosed(ch)
Connected == conn # Nil /\ conns[conn] # "closed"

(* Variant: the cached channel is not asked whether it is closed.          *)
ReuseUnchecked(got) == ch # Nil /\ got = ch /\ UNCHANGED link

Reuse(got) == Cached /\ got = ch /\ UNCHANGED link

DialFails(got) ==
  /\ ~Cached /\ ~Connected /\ ~up
  /\ got = Nil
  /\ conn' = Nil /\ ch' = Nil
  /\ UNCHANGED library

(* The connection reports itself open and gives no channel: it is dropped. *)
CorpseDropped(got) ==
  /\ ~Cached /\ Connected /\ conns[conn] = "broken"
  /\ got = Nil
  /\ CloseConns({conn})
  /\ conn' = Nil /\ ch' = Nil

Reach(k) == IF Connected THEN k = conn /\ conns[k] = "open" ELSE up /\ k = FreshConn

Opened(got) ==
  /\ ~Cached
  /\ \E k \in Conns :
       /\ Reach(k)
       /\ got \in Channels /\ got = FreshChannel
       /\ conns' = [conns EXCEPT ![k] = "open"]
       /\ chans' = [chans EXCEPT ![got] = k]
       /\ conn' = k /\ ch' = got

(* setup fails: the channel is closed again, the connection kept.          *)
SetupFails(got) ==
  /\ ~Cached
  /\ \E k \in Conns :
       /\ Reach(k)
       /\ conns' = [conns EXCEPT ![k] = "open"]
       /\ conn' = k
  /\ got = Nil /\ ch' = Nil
  /\ UNCHANGED chans

(* channel(), called by the callers of S, gives got or, for Nil, an error. *)
Channel(got, S) ==
  \/ /\ Reuse(got) \/ DialFails(got) \/ CorpseDropped(got) \/ Opened(got)
     /\ UNCHANGED <<cost, faults>>
  \/ /\ SetupFails(got)
     /\ faults < MaxFaults /\ faults' = faults + 1
     /\ Charge(S, 1)

(* Variant: the channel is forgotten and not closed.                       *)
ResetForgets(S) ==
  /\ ch' = Nil
  /\ UNCHANGED <<library, conn, cost>>

(* reset(), called by the callers of S.  Whoever else was given the cached *)
(* channel loses it.                                                       *)
Reset(S) ==
  /\ chans' = [c \in Channels |-> IF c = ch THEN Nil ELSE chans[c]]
  /\ ch' = Nil
  /\ Charge({w \in Callers \ S : held[w] = ch /\ Cached}, 1)
  /\ UNCHANGED <<conns, conn>>

(* Publisher.Close and Consumer.Close, from main.                          *)
Close ==
  /\ stopping /\ ~closed
  /\ closed' = TRUE
  /\ IF conn # Nil THEN CloseConns({conn}) ELSE UNCHANGED library
  /\ conn' = Nil /\ ch' = Nil
  /\ Charge(Callers, 1)
  /\ UNCHANGED <<role, up, pc, try, held, worker, stopping, faults>>

-----------------------------------------------------------------------------
(* Publishing.  A goroutine of the worker publishes while it handles a     *)
(* delivery of a subscription that lived when it was taken.                *)

Begin(w) ==
  /\ ~InCall(w)
  /\ role = "worker" => loop = "drain" /\ ~IsClosed(sub)
  /\ pc' = [pc EXCEPT ![w] = "channel"]
  /\ try' = [try EXCEPT ![w] = 1]
  /\ cost' = [cost EXCEPT ![w] =
                IF up /\ \A k \in Conns : conns[k] # "broken" THEN 0 ELSE 2]
  /\ UNCHANGED <<role, up, link, held, worker, stopping, closed, faults>>

(* Enqueue has a second attempt, the worker's publish has not.             *)
AttemptFails(w) ==
  LET again == role = "api" /\ try[w] = 1
  IN  /\ pc' = [pc EXCEPT ![w] = IF again THEN "channel" ELSE "failed"]
      /\ try' = [try EXCEPT ![w] = IF again THEN 2 ELSE 1]

GetChannel(w) ==
  /\ pc[w] = "channel"
  /\ \E got \in Channels \cup {Nil} :
       /\ Channel(got, {w})
       /\ held' = [held EXCEPT ![w] = got]
       /\ IF got = Nil THEN AttemptFails(w)
                       ELSE pc' = [pc EXCEPT ![w] = "publish"] /\ UNCHANGED try
  /\ UNCHANGED <<role, up, worker, stopping, closed>>

(* On a broken link the frame may be written all the same, and is lost.    *)
PublishWorks(w) ==
  /\ pc[w] = "publish"
  /\ ~IsClosed(held[w])
  /\ pc' = [pc EXCEPT ![w] = "ok"]
  /\ try' = [try EXCEPT ![w] = 1]
  /\ held' = [held EXCEPT ![w] = Nil]
  /\ UNCHANGED <<role, up, link, cost, worker, stopping, closed, faults>>

PublishFails(w) ==
  /\ pc[w] = "publish"
  /\ ~Sound(held[w])
  /\ held' = [held EXCEPT ![w] = Nil]
  /\ pc' = [pc EXCEPT ![w] = IF role = "api" THEN "reset" ELSE "failed"]
  /\ UNCHANGED <<role, up, link, try, cost, worker, stopping, closed, faults>>

ResetAfterFailure(w) ==
  /\ pc[w] = "reset"
  /\ Reset({w})
  /\ AttemptFails(w)
  /\ UNCHANGED <<role, up, held, worker, stopping, closed, faults>>

-----------------------------------------------------------------------------
(* Consumer.Start's loop                                                   *)

NoCall == UNCHANGED <<pc, try, held>>

(* drain returns when the deliveries end, or the context, and every        *)
(* goroutine is through with the delivery it holds.                        *)
DrainReturns ==
  /\ loop = "drain"
  /\ IsClosed(sub) \/ stopping
  /\ \A w \in Callers : ~InCall(w)
  /\ loop' = IF stopping THEN "exited" ELSE "reset"
  /\ UNCHANGED <<role, up, link, calls, sub, stopping, closed, faults>>

DropSession ==
  /\ loop = "reset"
  /\ Reset({})
  /\ loop' = "wait" /\ sub' = Nil
  /\ NoCall
  /\ UNCHANGED <<role, up, stopping, closed, faults>>

(* Variant: the first attempt that fails ends the loop.                    *)
ResubscribeOnce ==
  /\ loop = "wait"
  /\ \E got \in Channels \cup {Nil} :
       /\ Channel(got, {})
       /\ sub' = got
       /\ loop' = IF got = Nil THEN "exited" ELSE "consume"
  /\ NoCall
  /\ UNCHANGED <<role, up, stopping, closed>>

(* resubscribe, after its delay.                                           *)
Resubscribe ==
  /\ loop = "wait"
  /\ \/ /\ stopping
        /\ loop' = "exited"
        /\ UNCHANGED <<link, cost, sub, faults>>
     \/ /\ ~stopping
        /\ \E got \in Channels \cup {Nil} :
             /\ Channel(got, {})
             /\ sub' = got
             /\ loop' = IF got = Nil THEN "reset" ELSE "consume"
  /\ NoCall
  /\ UNCHANGED <<role, up, stopping, closed>>

Consume ==
  /\ loop = "consume"
  /\ loop' = IF Sound(sub) THEN "drain" ELSE "reset"
  /\ UNCHANGED <<role, up, link, calls, sub, stopping, closed, faults>>

-----------------------------------------------------------------------------
(* RabbitMQ, the network, and main                                         *)

Fault == faults < MaxFaults /\ faults' = faults + 1

Live == {k \in Conns : conns[k] # "closed"}

(* The link is lost, noticed at once or not, and RabbitMQ stays reachable  *)
(* or not.  One trouble may cost one attempt; an outage, and a connection  *)
(* that does not know it is dead, may cost both.                           *)
LinkLost ==
  /\ up /\ Fault
  /\ \E noticed, back \in BOOLEAN :
       /\ up' = back
       /\ IF noticed THEN CloseConns(Live)
          ELSE /\ conns' = [k \in Conns |-> IF k \in Live THEN "broken" ELSE conns[k]]
               /\ UNCHANGED chans
       /\ Charge(Callers, IF noticed /\ back THEN 1 ELSE 2)
  /\ NoCall
  /\ UNCHANGED <<role, conn, ch, worker, stopping, closed>>

Notice ==
  /\ \E k \in Conns : conns[k] = "broken"
  /\ CloseConns({k \in Conns : conns[k] = "broken"})
  /\ UNCHANGED <<role, up, conn, ch, calls, worker, stopping, closed, faults>>

(* RabbitMQ closes a channel and leaves its connection.                    *)
ChannelClosed ==
  /\ Fault
  /\ \E c \in Channels :
       /\ ~IsClosed(c)
       /\ chans' = [chans EXCEPT ![c] = Nil]
  /\ Charge(Callers, 1)
  /\ NoCall
  /\ UNCHANGED <<role, up, conns, conn, ch, worker, stopping, closed>>

Recover ==
  /\ ~up
  /\ up' = TRUE
  /\ UNCHANGED <<role, link, calls, worker, stopping, closed, faults>>

Stop ==
  /\ ~stopping
  /\ stopping' = TRUE
  /\ UNCHANGED <<role, up, link, calls, worker, closed, faults>>

-----------------------------------------------------------------------------
Call(w) == GetChannel(w) \/ PublishWorks(w) \/ PublishFails(w) \/ ResetAfterFailure(w)

Loop == DrainReturns \/ DropSession \/ Resubscribe \/ Consume

Next ==
  \/ \E w \in Callers : Begin(w) \/ Call(w)
  \/ Loop
  \/ LinkLost \/ Notice \/ ChannelClosed \/ Recover
  \/ Stop \/ Close

Spec == Init /\ [][Next]_vars

(* Goroutines run, heartbeats find a dead link, and an outage ends.        *)
Fairness == /\ \A w \in Callers : WF_vars(Call(w))
            /\ WF_vars(Loop) /\ WF_vars(Notice) /\ WF_vars(Recover)

FairSpec == Spec /\ Fairness

-----------------------------------------------------------------------------
(* Properties                                                              *)

(* The only connection and the only channel the process has open are those *)
(* the broker object holds: whoever redials, resets or fails half-way, in  *)
(* whatever order, leaves none behind (channel, reset, close).             *)
NothingLeaked ==
  /\ \A k \in Conns : conns[k] # "closed" => k = conn
  /\ \A c \in Channels : ~IsClosed(c) => c = ch

(* Enqueue's two attempts: it fails only if, since it began, enough went   *)
(* wrong to cost both of them.  A channel or connection that was found     *)
(* closed while it sat idle costs none.                                    *)
FailureHasCause ==
  role = "api" => \A w \in Callers : pc[w] = "failed" => cost[w] = 2

(* A worker that has lost its subscription consumes again, unless it stops *)
(* (Start, drain, resubscribe).                                            *)
ConsumesAgain ==
  role = "worker" => []<>(stopping \/ (loop = "drain" /\ Sound(sub)))
=============================================================================
