---------------------------- MODULE BeaconProofs ----------------------------
(***************************************************************************)
(* The two promises of Beacon for any expiry, update period and latency    *)
(* that fit.                                                               *)
(***************************************************************************)
EXTENDS Beacon, TLAPS

(* How long the thread may stay at what it is doing.                       *)
InTime ==
    /\ pc \in {"connecting", "looping", "setting", "set"} => timer <= Latency
    /\ pc = "waiting" => timer <= Update

(* The key outlives what is left of this step and of those before the next *)
(* SETEX.                                                                  *)
Outlives ==
    /\ pc = "connecting" => ~ isSet
    /\ pc = "ended" => stop
    /\ (isSet /\ ~ stop) =>
         /\ pc \in {"looping", "setting"} => ttl > timer
         /\ pc = "set" => ttl > timer + Update + Latency
         /\ pc = "waiting" => ttl > timer + Latency

(* After clear() at most the SETEX that was on its way is still carried    *)
(* out, within Latency.                                                    *)
LastSet ==
    /\ ~ stop => quiet = 0
    /\ (stop /\ pc = "setting") => quiet + timer <= Latency
    /\ stop => (ttl = 0 \/ quiet + ttl <= Expire + Latency)

Inv == TypeOK /\ InTime /\ Outlives /\ LastSet

(* What is left of a step and what has passed since clear() do not grow    *)
(* together: a tick adds to the one and takes from the other.              *)
LEMMA TickKeepsSum ==
    ASSUME NEW passed \in Nat, NEW passedNext \in Nat,
           NEW left \in Nat, NEW leftNext \in Nat, NEW bound \in Nat,
           passedNext = passed \/ passedNext = passed + 1,
           left > 0, leftNext = left - 1, passed + left <= bound
    PROVE  passedNext + leftNext <= bound
  OBVIOUS

LEMMA InvInit == Init => Inv
<1> SUFFICES ASSUME Init
             PROVE  Inv
    OBVIOUS
<1>1. ~ stop /\ ~ isSet /\ stop \in BOOLEAN /\ isSet \in BOOLEAN
    BY DEF Init
<1>2. pc = "connecting" /\ timer = Latency /\ ttl = 0 /\ quiet = 0
    BY DEF Init
<1> QED
    BY <1>1, <1>2, BeaconConstants DEF Inv, TypeOK, InTime, Outlives, LastSet, Settled

LEMMA InvNext == Inv /\ [Next]_vars => Inv'
<1> SUFFICES ASSUME Inv, [Next]_vars
             PROVE  Inv'
    OBVIOUS
<1> USE BeaconConstants DEF Inv, TypeOK, InTime, Outlives, LastSet, Settled
<1>1. CASE Connect
    BY <1>1 DEF Connect
<1>2. CASE Look
    BY <1>2 DEF Look
<1>3. CASE SetKey
    BY <1>3 DEF SetKey
<1>4. CASE Sleep
    BY <1>4 DEF Sleep
<1>5. CASE Wake
    BY <1>5 DEF Wake
<1>6. CASE Fail
    BY <1>6 DEF Fail
<1>7. CASE Clear
    BY <1>7 DEF Clear
<1>8. CASE Tick
  <2>1. /\ timer' \in Nat /\ timer' <= timer
        /\ timer > 0 => timer' = timer - 1
        /\ pc \notin {"ended", "failed"} => timer > 0
    BY <1>8 DEF Tick
  <2>2. /\ ttl' \in 0 .. Expire
        /\ ttl > 0 => ttl' = ttl - 1
        /\ ttl = 0 => ttl' = 0
    BY <1>8 DEF Tick
  <2>3. /\ quiet' \in 0 .. Settled
        /\ ~ stop => quiet' = quiet
        /\ quiet' = quiet \/ quiet' = quiet + 1
    BY <1>8 DEF Tick
  <2>4. stop' = stop /\ pc' = pc /\ isSet' = isSet
    BY <1>8 DEF Tick
  <2>5. TypeOK' /\ InTime'
    BY <2>1, <2>2, <2>3, <2>4
  <2>6. Outlives'
    <3>1. CASE isSet /\ ~ stop
      <4>1. pc \in {"looping", "setting"} => ttl' > timer'
        BY <2>1, <2>2, <3>1
      <4>2. pc = "set" => ttl' > timer' + Update + Latency
        BY <2>1, <2>2, <3>1
      <4>3. pc = "waiting" => ttl' > timer' + Latency
        BY <2>1, <2>2, <3>1
      <4> QED
        BY <2>4, <3>1, <4>1, <4>2, <4>3
    <3>2. CASE ~ (isSet /\ ~ stop)
        BY <2>4, <3>2
    <3> QED
        BY <3>1, <3>2
  <2>7. LastSet'
    <3> quiet \in Nat /\ quiet' \in Nat /\ ttl \in Nat /\ ttl' \in Nat
        BY <2>2, <2>3
    <3>1. CASE stop
      <4>0. /\ pc = "setting" => quiet + timer <= Latency
            /\ ttl = 0 \/ quiet + ttl <= Expire + Latency
        BY <3>1
      <4>1. pc = "setting" => quiet' + timer' <= Latency
        BY <2>1, <2>3, <4>0, TickKeepsSum
      <4>2. ASSUME ttl > 0
            PROVE  quiet' + ttl' <= Expire + Latency
        <5>1. ttl' = ttl - 1 /\ quiet + ttl <= Expire + Latency
            BY <2>2, <4>0, <4>2
        <5>2. Expire + Latency \in Nat
            OBVIOUS
        <5> HIDE DEF Inv, TypeOK, InTime, Outlives, LastSet, Settled
        <5> QED
            BY <2>3, <4>2, <5>1, <5>2, TickKeepsSum
      <4>3. ttl' = 0 \/ quiet' + ttl' <= Expire + Latency
        <5>1. CASE ttl = 0
            BY <2>2, <5>1
        <5>2. CASE ttl > 0
            BY <4>2, <5>2
        <5>3. ttl = 0 \/ ttl > 0
            OBVIOUS
        <5> QED
            BY <5>1, <5>2, <5>3, Zenon
      <4> QED
        BY <2>4, <3>1, <4>1, <4>3
    <3>2. CASE ~ stop
        BY <2>3, <2>4, <3>2
    <3> QED
        BY <3>1, <3>2
  <2> QED
    BY <2>5, <2>6, <2>7
<1>9. CASE UNCHANGED vars
    BY <1>9 DEF vars
<1> QED
    BY <1>1, <1>2, <1>3, <1>4, <1>5, <1>6, <1>7, <1>8, <1>9 DEF Next

LEMMA InvAlways == Spec => []Inv
  BY InvInit, InvNext, PTL DEF Spec

(* Beacon.cpp keeps the key alive from its first SETEX until clear() or a  *)
(* Redis failure, for every choice of the two periods that leaves room for *)
(* two exchanges with Redis.                                               *)
THEOREM BeaconIsSeen == Spec => []KeyKeptAlive
<1>1. Inv => KeyKeptAlive
    BY BeaconConstants DEF Inv, TypeOK, InTime, Outlives, KeyKeptAlive
<1> QED
    BY <1>1, InvAlways, PTL

(* After clear() the key is gone once one exchange with Redis and the      *)
(* expiry have passed, even when the notification found nobody waiting.    *)
THEOREM ClearedBeaconGoes == Spec => []KeyGoesAfterClear
<1>1. Inv => KeyGoesAfterClear
    BY BeaconConstants DEF Inv, TypeOK, LastSet, KeyGoesAfterClear, Settled
<1> QED
    BY <1>1, InvAlways, PTL
=============================================================================
