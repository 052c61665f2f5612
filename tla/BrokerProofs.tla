---------------------------- MODULE BrokerProofs ----------------------------
(***************************************************************************)
(* For any number of callers and of faults: the process has nothing open   *)
(* that its broker object does not hold, and Enqueue's second attempt is   *)
(* spent on nothing but a trouble of its own.                              *)
(***************************************************************************)
EXTENDS Broker, FiniteSetTheorems, TLAPS

LEMMA ChargeType ==
  ASSUME TypeOK, NEW S, NEW n \in 1 .. 2, Charge(S, n)
  PROVE  cost' \in [Callers -> 0 .. 2]
BY DEF TypeOK, Charge, Capped

LEMMA ChannelType ==
  ASSUME TypeOK, NEW got \in Channels \cup {Nil}, NEW S, Channel(got, S)
  PROVE  /\ conns' \in [Conns -> {"open", "broken", "closed"}]
         /\ chans' \in [Channels -> Conns \cup {Nil}]
         /\ conn' \in Conns \cup {Nil} /\ ch' \in Channels \cup {Nil}
         /\ cost' \in [Callers -> 0 .. 2]
         /\ faults' \in 0 .. MaxFaults
<1> USE DEF TypeOK
<1>1. CASE Reuse(got) /\ UNCHANGED <<cost, faults>>
  BY <1>1 DEF Reuse, link, library
<1>2. CASE DialFails(got) /\ UNCHANGED <<cost, faults>>
  BY <1>2 DEF DialFails, library
<1>3. CASE CorpseDropped(got) /\ UNCHANGED <<cost, faults>>
  BY <1>3 DEF CorpseDropped, CloseConns
<1>4. CASE Opened(got) /\ UNCHANGED <<cost, faults>>
  BY <1>4 DEF Opened
<1>5. CASE SetupFails(got) /\ faults < MaxFaults /\ faults' = faults + 1 /\ Charge(S, 1)
  <2>1. cost' \in [Callers -> 0 .. 2]
    BY <1>5, ChargeType
  <2>2. faults' \in 0 .. MaxFaults
    BY <1>5, FaultsAssumption
  <2> QED
    BY <1>5, <2>1, <2>2 DEF SetupFails
<1> QED
  BY <1>1, <1>2, <1>3, <1>4, <1>5 DEF Channel

LEMMA TypeInit == Init => TypeOK
<1>1. Cardinality(Callers) \in Nat
  BY CallersAssumption, FS_CardinalityType
<1>2. 1 \in Conns /\ 1 \in Channels
  BY <1>1 DEF Conns, Channels
<1>3. 0 \in 0 .. MaxFaults
  BY FaultsAssumption
<1> SUFFICES ASSUME Init PROVE TypeOK
  OBVIOUS
<1>4. conns \in [Conns -> {"open", "broken", "closed"}]
  BY DEF Init
<1>5. chans \in [Channels -> Conns \cup {Nil}]
  BY <1>2 DEF Init
<1>6. pc \in [Callers -> {"idle", "channel", "publish", "reset", "ok", "failed"}]
      /\ try \in [Callers -> {1, 2}] /\ held \in [Callers -> Channels \cup {Nil}]
      /\ cost \in [Callers -> 0 .. 2]
  BY DEF Init
<1>7. {up, stopping, closed} \subseteq BOOLEAN
  BY DEF Init
<1>8. /\ loop \in {"none", "drain", "reset", "wait", "consume", "exited"}
      /\ sub \in Channels \cup {Nil}
      /\ role \in {"api", "worker"}
  BY <1>2 DEF Init
<1> QED
  BY <1>2, <1>3, <1>4, <1>5, <1>6, <1>7, <1>8 DEF Init, TypeOK

LEMMA TypeStep ==
  ASSUME TypeOK, [Next]_vars
  PROVE  TypeOK'
<1> USE DEF TypeOK
<1>1. ASSUME NEW w \in Callers, Begin(w) PROVE TypeOK'
  BY <1>1 DEF Begin, link, library, worker
<1>2. ASSUME NEW w \in Callers, GetChannel(w) PROVE TypeOK'
  <2>1. PICK got \in Channels \cup {Nil} :
          /\ Channel(got, {w})
          /\ held' = [held EXCEPT ![w] = got]
          /\ IF got = Nil THEN AttemptFails(w)
                          ELSE pc' = [pc EXCEPT ![w] = "publish"] /\ UNCHANGED try
    BY <1>2 DEF GetChannel
  <2>2. pc' \in [Callers -> {"idle", "channel", "publish", "reset", "ok", "failed"}]
        /\ try' \in [Callers -> {1, 2}]
    BY <2>1 DEF AttemptFails
  <2> QED
    BY <1>2, <2>1, <2>2, ChannelType DEF GetChannel, worker
<1>3. ASSUME NEW w \in Callers, PublishWorks(w) PROVE TypeOK'
  BY <1>3 DEF PublishWorks, link, library, worker
<1>4. ASSUME NEW w \in Callers, PublishFails(w) PROVE TypeOK'
  BY <1>4 DEF PublishFails, link, library, worker
<1>5. ASSUME NEW w \in Callers, ResetAfterFailure(w) PROVE TypeOK'
  <2>1. cost' \in [Callers -> 0 .. 2]
    BY <1>5, ChargeType DEF ResetAfterFailure, Reset
  <2> QED
    BY <1>5, <2>1 DEF ResetAfterFailure, Reset, AttemptFails, worker
<1>6. CASE DrainReturns
  BY <1>6 DEF DrainReturns, link, library, calls
<1>7. CASE DropSession
  <2>1. cost' \in [Callers -> 0 .. 2]
    BY <1>7, ChargeType DEF DropSession, Reset
  <2> QED
    BY <1>7, <2>1 DEF DropSession, Reset, NoCall
<1>8. CASE Resubscribe
  <2>1. CASE stopping /\ loop' = "exited" /\ UNCHANGED <<link, cost, sub, faults>>
    BY <1>8, <2>1 DEF Resubscribe, NoCall, link, library
  <2>2. ASSUME NEW got \in Channels \cup {Nil}, Channel(got, {}), sub' = got,
               loop' = IF got = Nil THEN "reset" ELSE "consume"
        PROVE  TypeOK'
    BY <1>8, <2>2, ChannelType DEF Resubscribe, NoCall
  <2> QED
    BY <1>8, <2>1, <2>2 DEF Resubscribe
<1>9. CASE Consume
  BY <1>9 DEF Consume, link, library, calls
<1>10. CASE LinkLost
  <2>1. cost' \in [Callers -> 0 .. 2]
    BY <1>10, ChargeType DEF LinkLost
  <2>2. faults' \in 0 .. MaxFaults
    BY <1>10, FaultsAssumption DEF LinkLost, Fault
  <2> QED
    BY <1>10, <2>1, <2>2 DEF LinkLost, CloseConns, NoCall, worker
<1>11. CASE Notice
  BY <1>11 DEF Notice, CloseConns, calls, worker
<1>12. CASE ChannelClosed
  <2>1. cost' \in [Callers -> 0 .. 2]
    BY <1>12, ChargeType DEF ChannelClosed
  <2>2. faults' \in 0 .. MaxFaults
    BY <1>12, FaultsAssumption DEF ChannelClosed, Fault
  <2> QED
    BY <1>12, <2>1, <2>2 DEF ChannelClosed, NoCall, worker
<1>13. CASE Recover \/ Stop
  BY <1>13 DEF Recover, Stop, link, library, calls, worker
<1>14. CASE Close
  <2>1. cost' \in [Callers -> 0 .. 2]
    BY <1>14, ChargeType DEF Close
  <2> QED
    BY <1>14, <2>1 DEF Close, CloseConns, library, worker
<1>15. CASE UNCHANGED vars
  BY <1>15 DEF vars, link, library, calls, worker
<1> QED
  BY <1>1, <1>2, <1>3, <1>4, <1>5, <1>6, <1>7, <1>8, <1>9, <1>10, <1>11, <1>12, <1>13,
     <1>14, <1>15 DEF Next, Call, Loop

(* Every variable of the broker object and its callers keeps its type.     *)
THEOREM TypeCorrect == Spec => []TypeOK
BY TypeInit, TypeStep, PTL DEF Spec

-----------------------------------------------------------------------------
(* An open channel is one of a connection that is not closed.              *)
Attached == \A c \in Channels : ~IsClosed(c) => conns[chans[c]] # "closed"

Tidy == NothingLeaked /\ Attached

LEMMA NilIsNone == Nil \notin Conns /\ Nil \notin Channels
BY DEF Nil, Conns, Channels

LEMMA TidyInit == Init => Tidy
BY NilIsNone DEF Init, Tidy, NothingLeaked, Attached, IsClosed, Conns

LEMMA ChannelIsTidy ==
  ASSUME TypeOK, Tidy, NEW got \in Channels \cup {Nil}, NEW S, Channel(got, S)
  PROVE  Tidy'
<1> USE NilIsNone DEF TypeOK, Tidy, NothingLeaked, Attached, IsClosed
<1>1. CASE Reuse(got)
  BY <1>1 DEF Reuse, link, library
<1>2. CASE DialFails(got)
  BY <1>2 DEF DialFails, library, Cached, Connected
<1>3. CASE CorpseDropped(got)
  BY <1>3 DEF CorpseDropped, CloseConns, Cached
<1>4. CASE Opened(got)
  <2>1. PICK k \in Conns : /\ Reach(k)
                           /\ conns' = [conns EXCEPT ![k] = "open"]
                           /\ chans' = [chans EXCEPT ![got] = k]
                           /\ conn' = k /\ ch' = got
    BY <1>4 DEF Opened
  <2>2. \A c \in Channels : IsClosed(c)
    BY <1>4 DEF Opened, Cached
  <2>3. \A j \in Conns \ {k} : conns[j] = "closed"
    BY <2>1 DEF Reach, Connected
  <2>4. \A c \in Channels : chans'[c] # Nil => c = got /\ (got \in Channels => chans'[c] = k)
    BY <2>1, <2>2
  <2>5. \A j \in Conns : conns'[j] # "closed" => j = k
    BY <2>1, <2>3
  <2>6. conns'[k] = "open"
    BY <2>1
  <2> QED
    BY <2>1, <2>4, <2>5, <2>6
<1>5. CASE SetupFails(got)
  <2>1. PICK k \in Conns : /\ Reach(k)
                           /\ conns' = [conns EXCEPT ![k] = "open"]
                           /\ conn' = k /\ UNCHANGED chans /\ ch' = Nil
    BY <1>5 DEF SetupFails
  <2>2. \A c \in Channels : IsClosed(c)
    BY <1>5 DEF SetupFails, Cached
  <2>3. \A j \in Conns \ {k} : conns[j] = "closed"
    BY <2>1 DEF Reach, Connected
  <2> QED
    BY <2>1, <2>2, <2>3
<1> QED
  BY <1>1, <1>2, <1>3, <1>4, <1>5 DEF Channel

LEMMA TidyStep ==
  ASSUME TypeOK, Tidy, [Next]_vars
  PROVE  Tidy'
<1> USE NilIsNone DEF Tidy, NothingLeaked, Attached, IsClosed
<1>1. ASSUME UNCHANGED link PROVE Tidy'
  BY <1>1 DEF link, library
<1>2. ASSUME NEW S, Reset(S) PROVE Tidy'
  BY <1>2 DEF Reset, TypeOK
<1>3. ASSUME NEW w \in Callers, Begin(w) \/ PublishWorks(w) \/ PublishFails(w)
      PROVE  Tidy'
  BY <1>1, <1>3 DEF Begin, PublishWorks, PublishFails
<1>4. ASSUME NEW w \in Callers, GetChannel(w) PROVE Tidy'
  BY <1>4, ChannelIsTidy DEF GetChannel
<1>5. ASSUME NEW w \in Callers, ResetAfterFailure(w) PROVE Tidy'
  BY <1>2, <1>5 DEF ResetAfterFailure
<1>6. CASE DrainReturns \/ Consume \/ Recover \/ Stop
  BY <1>1, <1>6 DEF DrainReturns, Consume, Recover, Stop
<1>7. CASE DropSession
  BY <1>2, <1>7 DEF DropSession
<1>8. CASE Resubscribe
  BY <1>1, <1>8, ChannelIsTidy DEF Resubscribe
<1>9. ASSUME NEW S, CloseConns(S), UNCHANGED <<conn, ch>> PROVE Tidy'
  BY <1>9 DEF CloseConns, TypeOK
<1>10. CASE LinkLost
  <2>1. ASSUME conns' = [k \in Conns |-> IF k \in Live THEN "broken" ELSE conns[k]],
               UNCHANGED <<chans, conn, ch>>
        PROVE  Tidy'
    BY <2>1 DEF TypeOK, Live
  <2> QED
    BY <1>9, <1>10, <2>1 DEF LinkLost
<1>11. CASE Notice
  BY <1>9, <1>11 DEF Notice
<1>12. CASE ChannelClosed
  BY <1>12 DEF ChannelClosed, TypeOK
<1>13. CASE Close
  <2>1. CASE conn = Nil
    BY <1>13, <2>1 DEF Close, library, TypeOK
  <2>2. CASE conn # Nil
    <3>1. \A k \in Conns : conns'[k] = "closed"
      BY <1>13, <2>2 DEF Close, CloseConns, TypeOK
    <3>2. \A c \in Channels : chans'[c] = Nil
      BY <1>13, <2>2 DEF Close, CloseConns, TypeOK
    <3> QED
      BY <3>1, <3>2
  <2> QED
    BY <2>1, <2>2
<1>14. CASE UNCHANGED vars
  BY <1>1, <1>14 DEF vars
<1> QED
  BY <1>3, <1>4, <1>5, <1>6, <1>7, <1>8, <1>10, <1>11, <1>12, <1>13, <1>14 DEF Next, Call, Loop

(* Whoever redials, resets or fails half-way, in whatever order: no        *)
(* connection and no channel is open that the broker object does not hold. *)
THEOREM NoLeak == Spec => []NothingLeaked
<1>1. Tidy => NothingLeaked
  BY DEF Tidy
<1> QED
  BY <1>1, TypeInit, TypeStep, TidyInit, TidyStep, PTL DEF Spec

-----------------------------------------------------------------------------
(* What each caller's progress has cost it: an attempt already lost, one   *)
(* that will be lost because the channel it holds is closed, and both as   *)
(* long as RabbitMQ cannot be reached or a dead connection is not noticed. *)
Trouble == ~up \/ \E k \in Conns : conns[k] = "broken"

Paid(w) ==
  /\ InCall(w) => /\ cost[w] >= try[w] - 1
                  /\ Trouble => cost[w] = 2
  /\ pc[w] = "publish" => held[w] # Nil /\ (IsClosed(held[w]) => cost[w] >= try[w])
  /\ pc[w] = "reset" => cost[w] >= try[w]
  /\ pc[w] = "failed" => cost[w] = 2

AllPaid == role = "api" => \A w \in Callers : Paid(w)

LEMMA PaidInit == Init => AllPaid
BY DEF Init, AllPaid, Paid, InCall

LEMMA ChargeCosts ==
  ASSUME TypeOK, NEW S, NEW n \in 1 .. 2, Charge(S, n), NEW w \in Callers
  PROVE  /\ cost'[w] \in 0 .. 2 /\ cost'[w] >= cost[w]
         /\ w \in S /\ InCall(w) => cost'[w] >= n /\ (cost[w] >= 1 => cost'[w] = 2)
BY DEF TypeOK, Charge, Capped

(* A caller that others, or the world, act around.                         *)
LEMMA PaidKept ==
  ASSUME TypeOK, NEW w \in Callers, Paid(w),
         pc'[w] = pc[w], try'[w] = try[w], held'[w] = held[w],
         cost'[w] \in 0 .. 2, cost'[w] >= cost[w],
         InCall(w) /\ Trouble' => Trouble \/ cost'[w] = 2,
         pc[w] = "publish" /\ chans'[held[w]] = Nil =>
            chans[held[w]] = Nil \/ (cost'[w] >= 1 /\ (cost[w] >= 1 => cost'[w] = 2))
  PROVE  Paid(w)'
<1>1. cost[w] \in 0 .. 2 /\ try[w] \in {1, 2}
  BY DEF TypeOK
<1>2. InCall(w)' <=> InCall(w)
  BY DEF InCall
<1>3. InCall(w) => cost'[w] >= try'[w] - 1 /\ (Trouble' => cost'[w] = 2)
  BY <1>1 DEF Paid
<1>4. pc[w] = "publish" => held[w] # Nil /\ (chans'[held[w]] = Nil => cost'[w] >= try[w])
  BY <1>1 DEF Paid, IsClosed, InCall
<1>5. /\ pc[w] = "reset" => cost'[w] >= try[w]
      /\ pc[w] = "failed" => cost'[w] = 2
  BY <1>1 DEF Paid
<1> QED
  BY <1>2, <1>3, <1>4, <1>5 DEF Paid, IsClosed

LEMMA AllKept ==
  ASSUME TypeOK, AllPaid, UNCHANGED <<role, pc, try, held, cost>>,
         Trouble' => Trouble,
         \A w \in Callers : pc[w] = "publish" /\ chans'[held[w]] = Nil => chans[held[w]] = Nil
  PROVE  AllPaid'
<1> SUFFICES ASSUME role = "api", NEW w \in Callers PROVE Paid(w)'
  BY DEF AllPaid
<1>1. cost'[w] \in 0 .. 2 /\ cost'[w] >= cost[w]
  BY DEF TypeOK
<1> QED
  BY <1>1, PaidKept DEF AllPaid

(* channel() costs nobody but its caller, and gives what is open.          *)
LEMMA ChannelGives ==
  ASSUME TypeOK, Tidy, NEW got \in Channels \cup {Nil}, NEW S, Channel(got, S), UNCHANGED up
  PROVE  /\ Trouble' => Trouble
         /\ \A c \in Channels : chans'[c] = Nil => chans[c] = Nil
         /\ got # Nil => chans'[got] # Nil
         /\ \/ UNCHANGED cost /\ (got = Nil => Trouble)
            \/ got = Nil /\ Charge(S, 1)
<1> USE NilIsNone DEF TypeOK, Tidy, NothingLeaked, IsClosed, Trouble
<1>1. CASE Reuse(got) /\ UNCHANGED <<cost, faults>>
  BY <1>1 DEF Reuse, Cached, link, library
<1>2. CASE DialFails(got) /\ UNCHANGED <<cost, faults>>
  BY <1>2 DEF DialFails, library
<1>3. CASE CorpseDropped(got) /\ UNCHANGED <<cost, faults>>
  <2>1. \A c \in Channels : chans[c] = Nil
    BY <1>3 DEF CorpseDropped, Cached
  <2>2. conn \in Conns
    BY <1>3 DEF CorpseDropped, Connected
  <2> QED
    BY <1>3, <2>1, <2>2 DEF CorpseDropped, CloseConns
<1>4. CASE Opened(got) /\ UNCHANGED <<cost, faults>>
  <2>1. \A c \in Channels : chans[c] = Nil
    BY <1>4 DEF Opened, Cached
  <2>2. PICK k \in Conns : /\ Reach(k) /\ got \in Channels
                           /\ conns' = [conns EXCEPT ![k] = "open"]
                           /\ chans' = [chans EXCEPT ![got] = k]
    BY <1>4 DEF Opened
  <2> QED
    BY <1>4, <2>1, <2>2
<1>5. CASE SetupFails(got) /\ Charge(S, 1)
  BY <1>5 DEF SetupFails
<1> QED
  BY <1>1, <1>2, <1>3, <1>4, <1>5 DEF Channel

LEMMA PaidGetChannel ==
  ASSUME TypeOK, Tidy, AllPaid, NEW w \in Callers, GetChannel(w)
  PROVE  AllPaid'
<1> SUFFICES ASSUME role = "api", NEW v \in Callers PROVE Paid(v)'
  BY DEF AllPaid, GetChannel
<1>1. PICK got \in Channels \cup {Nil} :
        /\ Channel(got, {w})
        /\ held' = [held EXCEPT ![w] = got]
        /\ IF got = Nil THEN AttemptFails(w)
                        ELSE pc' = [pc EXCEPT ![w] = "publish"] /\ UNCHANGED try
  BY DEF GetChannel
<1>2. /\ Trouble' => Trouble
      /\ \A c \in Channels : chans'[c] = Nil => chans[c] = Nil
      /\ got # Nil => chans'[got] # Nil
      /\ \/ UNCHANGED cost /\ (got = Nil => Trouble)
         \/ got = Nil /\ Charge({w}, 1)
  BY <1>1, ChannelGives DEF GetChannel
<1>3. Paid(v)
  BY DEF AllPaid, GetChannel
<1>4. cost[v] \in 0 .. 2 /\ try[v] \in {1, 2} /\ role' = role
  BY DEF TypeOK, GetChannel
<1>5. cost'[v] \in 0 .. 2 /\ cost'[v] >= cost[v]
  BY <1>2, <1>4, ChargeCosts
<1>6. CASE v # w
  <2>1. pc'[v] = pc[v] /\ try'[v] = try[v] /\ held'[v] = held[v]
    BY <1>1, <1>6 DEF AttemptFails, TypeOK
  <2>2. pc[v] = "publish" => held[v] \in Channels
    BY <1>3 DEF Paid, TypeOK
  <2> QED
    BY <1>2, <1>3, <1>5, <2>1, <2>2, PaidKept
<1>7. CASE v = w
  <2>1. pc[w] = "channel" /\ InCall(w)
    BY DEF GetChannel, InCall
  <2>2. cost[w] >= try[w] - 1 /\ (Trouble => cost[w] = 2)
    BY <1>3, <1>7, <2>1 DEF Paid
  <2>3. CASE got # Nil
    <3>1. pc'[w] = "publish" /\ try'[w] = try[w] /\ held'[w] = got
      BY <1>1, <2>3 DEF TypeOK
    <3>2. UNCHANGED cost
      BY <1>2, <2>3
    <3> QED
      BY <1>2, <1>7, <2>2, <2>3, <3>1, <3>2 DEF Paid, InCall, IsClosed
  <2>4. CASE got = Nil
    <3>1. cost'[w] >= 1 /\ (cost[w] >= 1 => cost'[w] = 2)
      <4>1. CASE UNCHANGED cost /\ Trouble
        BY <2>2, <4>1
      <4>2. CASE Charge({w}, 1)
        BY <2>1, <4>2, ChargeCosts
      <4> QED
        BY <1>2, <2>4, <4>1, <4>2
    <3>2. CASE try[w] = 1
      <4>1. pc'[w] = "channel" /\ try'[w] = 2
        BY <1>1, <2>4, <3>2 DEF AttemptFails, TypeOK
      <4>2. Trouble' => cost'[w] = 2
        BY <1>2, <2>2, <3>1
      <4> QED
        BY <1>7, <3>1, <4>1, <4>2 DEF Paid, InCall
    <3>3. CASE try[w] = 2
      <4>1. pc'[w] = "failed"
        BY <1>1, <2>4, <3>3 DEF AttemptFails, TypeOK
      <4>2. cost'[w] = 2
        BY <2>2, <3>1, <3>3, <1>4, <1>7
      <4> QED
        BY <1>7, <4>1, <4>2 DEF Paid, InCall
    <3> QED
      BY <1>4, <1>7, <3>2, <3>3
  <2> QED
    BY <2>3, <2>4
<1> QED
  BY <1>6, <1>7

(* reset() closes the cached channel under whoever was given it.           *)
LEMMA ResetCosts ==
  ASSUME TypeOK, Tidy, NEW S, Reset(S), NEW w \in Callers, w \notin S, Paid(w),
         UNCHANGED <<up, role>>, pc'[w] = pc[w], try'[w] = try[w], held'[w] = held[w]
  PROVE  Paid(w)'
<1>1. cost'[w] \in 0 .. 2 /\ cost'[w] >= cost[w]
  BY ChargeCosts DEF Reset
<1>2. Trouble' => Trouble
  BY DEF Reset, Trouble
<1>3. ASSUME pc[w] = "publish", chans'[held[w]] = Nil, chans[held[w]] # Nil
      PROVE  cost'[w] >= 1 /\ (cost[w] >= 1 => cost'[w] = 2)
  <2>1. held[w] \in Channels
    BY <1>3 DEF Paid, TypeOK
  <2>2. held[w] = ch /\ Cached
    BY <1>3, <2>1, NilIsNone DEF Tidy, NothingLeaked, IsClosed, Cached
  <2>3. w \in {v \in Callers \ S : held[v] = ch /\ Cached} /\ InCall(w)
    BY <1>3, <2>2 DEF InCall
  <2> QED
    BY <2>3, ChargeCosts DEF Reset
<1> QED
  BY <1>1, <1>2, <1>3, PaidKept

LEMMA PaidReset ==
  ASSUME TypeOK, Tidy, AllPaid, NEW w \in Callers, ResetAfterFailure(w)
  PROVE  AllPaid'
<1> SUFFICES ASSUME role = "api", NEW v \in Callers PROVE Paid(v)'
  BY DEF AllPaid, ResetAfterFailure
<1>1. Paid(v) /\ role = "api"
  BY DEF AllPaid, ResetAfterFailure
<1>2. CASE v # w
  <2>1. pc'[v] = pc[v] /\ try'[v] = try[v] /\ held'[v] = held[v]
    BY <1>2 DEF ResetAfterFailure, AttemptFails, TypeOK
  <2> QED
    BY <1>1, <1>2, <2>1, ResetCosts DEF ResetAfterFailure
<1>3. CASE v = w
  <2>1. cost[w] >= try[w] /\ (Trouble => cost[w] = 2)
    BY <1>1, <1>3 DEF ResetAfterFailure, Paid, InCall
  <2>2. cost'[w] \in 0 .. 2 /\ cost'[w] >= cost[w] /\ cost[w] \in 0 .. 2
    BY ChargeCosts DEF ResetAfterFailure, Reset, TypeOK
  <2>3. Trouble' => Trouble
    BY DEF ResetAfterFailure, Reset, Trouble
  <2>4. CASE try[w] = 1
    <3>1. pc'[w] = "channel" /\ try'[w] = 2
      BY <1>1, <2>4 DEF ResetAfterFailure, AttemptFails, TypeOK
    <3> QED
      BY <1>3, <2>1, <2>2, <2>3, <2>4, <3>1 DEF Paid, InCall
  <2>5. CASE try[w] = 2
    <3>1. pc'[w] = "failed"
      BY <2>5 DEF ResetAfterFailure, AttemptFails, TypeOK
    <3> QED
      BY <1>3, <2>1, <2>2, <2>5, <3>1 DEF Paid, InCall
  <2> QED
    BY <2>4, <2>5 DEF TypeOK
<1> QED
  BY <1>2, <1>3

LEMMA PaidPublish ==
  ASSUME TypeOK, Tidy, AllPaid, NEW w \in Callers, Begin(w) \/ PublishWorks(w) \/ PublishFails(w)
  PROVE  AllPaid'
<1> SUFFICES ASSUME role = "api", NEW v \in Callers PROVE Paid(v)'
  BY DEF AllPaid, Begin, PublishWorks, PublishFails
<1>1. Paid(v) /\ role = "api" /\ UNCHANGED <<up, link>>
  BY DEF AllPaid, Begin, PublishWorks, PublishFails
<1>2. Trouble' <=> Trouble
  BY <1>1 DEF Trouble, link, library
<1>3. cost[v] \in 0 .. 2 /\ try[v] \in {1, 2}
  BY DEF TypeOK
<1>4. CASE v # w
  <2>1. pc'[v] = pc[v] /\ try'[v] = try[v] /\ held'[v] = held[v] /\ cost'[v] = cost[v]
    BY <1>4 DEF Begin, PublishWorks, PublishFails, TypeOK
  <2> QED
    BY <1>1, <1>2, <1>3, <2>1, PaidKept DEF link, library
<1>5. CASE v = w /\ Begin(w)
  <2>1. pc'[w] = "channel" /\ try'[w] = 1
        /\ cost'[w] = IF Trouble THEN 2 ELSE 0
    BY <1>5 DEF Begin, TypeOK, Trouble
  <2> QED
    BY <1>2, <1>5, <2>1 DEF Paid
<1>6. CASE v = w /\ PublishWorks(w)
  <2>1. pc'[w] = "ok"
    BY <1>6 DEF PublishWorks, TypeOK
  <2> QED
    BY <1>6, <2>1 DEF Paid, InCall
<1>7. CASE v = w /\ PublishFails(w)
  <2>1. pc'[w] = "reset" /\ try'[w] = try[w] /\ cost'[w] = cost[w]
    BY <1>1, <1>7 DEF PublishFails, TypeOK
  <2>2. held[w] \in Channels /\ (Trouble => cost[w] = 2)
    BY <1>1, <1>7 DEF PublishFails, Paid, TypeOK, InCall
  <2>3. CASE IsClosed(held[w])
    BY <1>1, <1>2, <1>3, <1>7, <2>1, <2>2, <2>3 DEF PublishFails, Paid, InCall
  <2>4. CASE ~IsClosed(held[w])
    <3>1. chans[held[w]] \in Conns /\ conns[chans[held[w]]] = "broken"
      BY <1>7, <2>2, <2>4 DEF PublishFails, Sound, IsClosed, Tidy, Attached, TypeOK
    <3>2. Trouble
      BY <3>1 DEF Trouble
    <3> QED
      BY <1>2, <1>3, <1>7, <2>1, <2>2, <3>2 DEF Paid, InCall
  <2> QED
    BY <2>3, <2>4
<1> QED
  BY <1>4, <1>5, <1>6, <1>7

(* A trouble all callers may have to pay for.                              *)
LEMMA PaidTrouble ==
  ASSUME TypeOK, AllPaid, NEW n \in 1 .. 2, Charge(Callers, n), Trouble' => Trouble \/ n = 2,
         UNCHANGED <<role, pc, try, held>>
  PROVE  AllPaid'
<1> SUFFICES ASSUME role = "api", NEW w \in Callers PROVE Paid(w)'
  BY DEF AllPaid
<1>1. cost'[w] \in 0 .. 2 /\ cost'[w] >= cost[w]
      /\ (InCall(w) => cost'[w] >= n /\ (cost[w] >= 1 => cost'[w] = 2))
  BY ChargeCosts
<1>2. pc[w] = "publish" => InCall(w)
  BY DEF InCall
<1> QED
  BY <1>1, <1>2, PaidKept DEF AllPaid

LEMMA PaidStep ==
  ASSUME TypeOK, Tidy, AllPaid, [Next]_vars
  PROVE  AllPaid'
<1>1. ASSUME role # "api", role' = role PROVE AllPaid'
  BY <1>1 DEF AllPaid
<1>2. ASSUME UNCHANGED <<role, link, calls, up>> PROVE AllPaid'
  BY <1>2, AllKept DEF link, library, calls, Trouble
<1>3. ASSUME NEW w \in Callers, Begin(w) \/ Call(w) PROVE AllPaid'
  BY <1>3, PaidGetChannel, PaidPublish, PaidReset DEF Call
<1>4. CASE DrainReturns \/ Consume \/ Stop
  BY <1>2, <1>4 DEF DrainReturns, Consume, Stop
<1>5. CASE Resubscribe \/ DropSession
  <2>1. ASSUME NEW w \in Callers PROVE role = "api" => Paid(w)
    BY DEF AllPaid
  <2> SUFFICES ASSUME role = "api", NEW w \in Callers PROVE Paid(w)'
    BY <1>5 DEF AllPaid, Resubscribe, DropSession
  <2>2. pc'[w] = pc[w] /\ try'[w] = try[w] /\ held'[w] = held[w] /\ role' = role
    BY <1>5 DEF Resubscribe, DropSession, NoCall
  <2>3. CASE DropSession
    BY <2>1, <2>2, <2>3, ResetCosts DEF DropSession
  <2>4. ASSUME UNCHANGED link, UNCHANGED cost, UNCHANGED up PROVE Paid(w)'
    <3>1. cost'[w] \in 0 .. 2 /\ cost'[w] >= cost[w]
      BY <2>4 DEF TypeOK
    <3> QED
      BY <2>1, <2>2, <2>4, <3>1, PaidKept DEF link, library, Trouble
  <2>5. ASSUME NEW got \in Channels \cup {Nil}, Channel(got, {}), UNCHANGED up PROVE Paid(w)'
    <3>1. /\ Trouble' => Trouble
          /\ \A c \in Channels : chans'[c] = Nil => chans[c] = Nil
          /\ UNCHANGED cost \/ Charge({}, 1)
      BY <2>5, ChannelGives
    <3>2. cost'[w] \in 0 .. 2 /\ cost'[w] >= cost[w]
      BY <3>1, ChargeCosts DEF TypeOK
    <3>3. pc[w] = "publish" => held[w] \in Channels
      BY <2>1 DEF Paid, TypeOK
    <3> QED
      BY <2>1, <2>2, <3>1, <3>2, <3>3, PaidKept
  <2> QED
    BY <1>5, <2>3, <2>4, <2>5 DEF Resubscribe
<1>6. CASE LinkLost
  <2>1. PICK noticed, back \in BOOLEAN :
          /\ up' = back
          /\ IF noticed THEN CloseConns(Live)
             ELSE /\ conns' = [k \in Conns |-> IF k \in Live THEN "broken" ELSE conns[k]]
                  /\ UNCHANGED chans
          /\ Charge(Callers, IF noticed /\ back THEN 1 ELSE 2)
    BY <1>6 DEF LinkLost
  <2>2. CASE noticed /\ back
    <3>1. ~Trouble'
      BY <2>1, <2>2 DEF CloseConns, Live, Trouble, TypeOK
    <3> QED
      BY <1>6, <2>1, <2>2, <3>1, PaidTrouble DEF LinkLost, NoCall
  <2>3. CASE ~(noticed /\ back)
    BY <1>6, <2>1, <2>3, PaidTrouble DEF LinkLost, NoCall
  <2> QED
    BY <2>2, <2>3
<1>7. CASE Notice
  <2> SUFFICES ASSUME role = "api", NEW w \in Callers PROVE Paid(w)'
    BY <1>7 DEF AllPaid, Notice
  <2>1. Trouble /\ Paid(w) /\ UNCHANGED calls
    BY <1>7 DEF AllPaid, Notice, Trouble
  <2>2. pc[w] = "publish" => cost[w] = 2 /\ try[w] \in {1, 2} /\ held[w] # Nil
    BY <2>1 DEF Paid, InCall, TypeOK
  <2> QED
    BY <2>1, <2>2 DEF Paid, InCall, calls
<1>8. CASE ChannelClosed
  <2>1. Trouble' <=> Trouble
    BY <1>8 DEF ChannelClosed, Trouble
  <2> QED
    BY <1>8, <2>1, PaidTrouble DEF ChannelClosed, NoCall
<1>9. CASE Recover
  <2>1. Trouble' => Trouble
    BY <1>9 DEF Recover, Trouble, link, library
  <2> QED
    BY <1>9, <2>1, AllKept DEF Recover, link, library, calls
<1>10. CASE Close
  <2>1. Trouble' => Trouble
    BY <1>10 DEF Close, CloseConns, Trouble, library, TypeOK
  <2> QED
    BY <1>10, <2>1, PaidTrouble DEF Close
<1>11. CASE UNCHANGED vars
  BY <1>2, <1>11 DEF vars
<1> QED
  BY <1>3, <1>4, <1>5, <1>6, <1>7, <1>8, <1>9, <1>10, <1>11 DEF Next, Loop

(* Enqueue never fails for a channel or a connection that was found closed *)
(* while it sat idle: whenever it fails, what went wrong since it began    *)
(* was enough to cost both of its attempts.                                *)
THEOREM EnqueueFailsWithCause == Spec => []FailureHasCause
<1>1. AllPaid => FailureHasCause
  BY DEF AllPaid, Paid, FailureHasCause
<1> QED
  BY <1>1, TypeInit, TypeStep, TidyInit, TidyStep, PaidInit, PaidStep, PTL DEF Spec
=============================================================================
