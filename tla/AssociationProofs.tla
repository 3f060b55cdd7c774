-------------------------- MODULE AssociationProofs --------------------------
(***************************************************************************)
(* Proofs about Association, for every key, fault and bound: a forwarder   *)
(* that serves can be reached, the threads start() woke are gone when it   *)
(* returns, and the loss of the archiver is noticed in time.               *)
(*                                                                         *)
(* The timing argument is a budget: how long a thread's key has been gone  *)
(* plus what is left of its timer never exceeds what its place in the loop *)
(* allows.                                                                 *)
(***************************************************************************)
EXTENDS Association, TLAPS

(* A later start() has taken over, or is about to.                         *)
Superseded(n) == starting \/ \E m \in Thread : m > n /\ pc[m] # "off"

(* Threads are started in order.                                           *)
InOrder == \A m, n \in Thread : (m < n /\ pc[m] = "off") => pc[n] = "off"

(* Outside start() no thread finds the flag raised.                        *)
FlagDown == \A n \in Thread : (pc[n] # "off" /\ ~ starting) => ~ stop

(* Nothing is missed while the key is there or the thread is not.          *)
MissedOnlyWhenGone ==
    \A n \in Thread : (pc[n] = "off" \/ ttl[watching[n]] > 0) => missed[n] = 0

(* A woken thread has ended, or looks at the flag before start() goes on.  *)
WokenInTime ==
    \A n \in notified :
        /\ Superseded(n)
        /\ \/ pc[n] = "ended"
           \/ starting /\ stop /\ pc[n] = "looping" /\ timer[n] < sleep

(* Who ends without calling register_fwd was told to.                      *)
EndsForAReason ==
    \A n \in Thread : (pc[n] = "ended" /\ n \notin executed) => Superseded(n)

(* The budget.                                                             *)
InBudget ==
    \A n \in Thread : n \notin notified =>
        /\ pc[n] \in {"connecting", "looping", "asking", "there", "gone"} =>
              timer[n] <= Latency
        /\ pc[n] = "there" => missed[n] + timer[n] <= Latency
        /\ pc[n] = "waiting" => missed[n] + timer[n] <= Latency + Expire
        /\ pc[n] \in Live => missed[n] + timer[n] <= Expire + 2 * Latency

WatcherInv ==
    /\ TypeOK /\ InOrder /\ FlagDown /\ MissedOnlyWhenGone
    /\ WokenInTime /\ EndsForAReason /\ InBudget

(* Reachable, from the moment register_fwd has been called.                *)
OfficeInv ==
    /\ entries \in Nat /\ asked \in Nat
    /\ stage \in {"opening", "serving"} =>
        \/ cut \/ entries > 0 \/ asked > 0 \/ starting
        \/ \E n \in Thread : Latest(n) /\ pc[n] \in Live

Inv == WatcherInv /\ OfficeInv

-----------------------------------------------------------------------------
LEMMA TimeIsNat == 0 \in 0 .. TooLong /\ TooLong \in Nat
BY WatcherConstants DEF WatcherConstants, TooLong

(* What holds when no thread has been started holds whatever the rest is.  *)
LEMMA WatcherInit == Init => WatcherInv
<1> SUFFICES ASSUME Init PROVE WatcherInv
  OBVIOUS
<1>1. TypeOK
  <2>1. ttl \in [Key -> 0 .. KeyTime]
    BY WatcherConstants DEF Init, WatcherConstants
  <2>2. sleep \in 0 .. Pause
    BY WatcherConstants DEF Init, WatcherConstants
  <2>3. QED
    BY <2>1, <2>2, TimeIsNat DEF Init, TypeOK
<1>2. QED
  BY <1>1 DEF Init, WatcherInv, InOrder, FlagDown, MissedOnlyWhenGone,
              WokenInTime, EndsForAReason, InBudget, Live

LEMMA WatcherStutter == WatcherInv /\ UNCHANGED watcher => WatcherInv'
BY DEF watcher, threads, ghosts, WatcherInv, TypeOK, InOrder, FlagDown,
       MissedOnlyWhenGone, WokenInTime, EndsForAReason, InBudget, Superseded

LEMMA ThreadsDie == WatcherInv /\ NoThreads => WatcherInv'
<1> SUFFICES ASSUME WatcherInv, NoThreads PROVE WatcherInv'
  OBVIOUS
<1>1. TypeOK'
  <2>1. sleep' \in 0 .. Pause
    BY WatcherConstants DEF NoThreads, WatcherConstants
  <2>2. QED
    BY <2>1, TimeIsNat DEF NoThreads, WatcherInv, TypeOK
<1>2. QED
  BY <1>1 DEF NoThreads, WatcherInv, InOrder, FlagDown, MissedOnlyWhenGone,
              WokenInTime, EndsForAReason, InBudget, Live

LEMMA StepOfClear == WatcherInv /\ Clear => WatcherInv'
<1> SUFFICES ASSUME WatcherInv, Clear PROVE WatcherInv'
  OBVIOUS
<1> USE WatcherConstants DEF WatcherInv, Clear
<1>1. TypeOK'
  <2>1. pc' \in [Thread -> Live \cup {"off", "ended", "failed"}]
    BY DEF TypeOK, Live
  <2>2. timer' \in [Thread -> Nat]
    BY DEF TypeOK, WatcherConstants
  <2>3. notified' \subseteq Thread
    BY DEF TypeOK
  <2>4. sleep' \in 0 .. Pause
    BY DEF WatcherConstants
  <2>5. QED
    BY <2>1, <2>2, <2>3, <2>4 DEF TypeOK
<1>2. InOrder' /\ FlagDown' /\ MissedOnlyWhenGone'
  BY DEF TypeOK, Live, InOrder, FlagDown, MissedOnlyWhenGone
<1>3. WokenInTime'
  BY DEF TypeOK, Live, WokenInTime, Superseded
<1>4. EndsForAReason'
  BY DEF EndsForAReason, Superseded
<1>5. InBudget'
  BY DEF TypeOK, Live, InBudget
<1>6. QED
  BY <1>1, <1>2, <1>3, <1>4, <1>5

LEMMA Earlier ==
  ASSUME NEW m \in Thread, NEW n \in Thread, InOrder, pc[m] # "off", pc[n] = "off"
  PROVE  m < n
BY WatcherConstants DEF InOrder, Thread, WatcherConstants

LEMMA StepOfSpawn ==
  ASSUME NEW n \in Thread, WatcherInv, Spawn(n)
  PROVE  WatcherInv' /\ Latest(n)' /\ pc'[n] \in Live
<1> USE WatcherConstants DEF WatcherInv, Spawn
<1>1. TypeOK'
  BY DEF TypeOK, Live, ghosts, WatcherConstants
<1>2. InOrder' /\ FlagDown' /\ MissedOnlyWhenGone'
  BY DEF TypeOK, Live, InOrder, FlagDown, MissedOnlyWhenGone, ghosts
<1>3. WokenInTime'
  <2>1. SUFFICES ASSUME NEW m \in notified PROVE Superseded(m)' /\ pc'[m] = "ended"
    BY DEF WokenInTime, ghosts
  <2>2. m \in Thread /\ pc[m] = "ended"
    BY DEF WokenInTime, TypeOK
  <2>3. m < n
    BY <2>2, Earlier
  <2>4. QED
    BY <2>2, <2>3 DEF Superseded, TypeOK
<1>4. EndsForAReason'
  <2>1. SUFFICES ASSUME NEW m \in Thread, pc'[m] = "ended", m \notin executed
                 PROVE  Superseded(m)'
    BY DEF EndsForAReason, ghosts
  <2>2. pc[m] # "off"
    BY <2>1 DEF TypeOK
  <2>3. m < n
    BY <2>2, Earlier
  <2>4. QED
    BY <2>2, <2>3 DEF Superseded, TypeOK
<1>5. InBudget'
  BY DEF TypeOK, Live, InBudget, MissedOnlyWhenGone, ghosts
<1>6. Latest(n)' /\ pc'[n] \in Live
  BY DEF Latest, InOrder, TypeOK, Live
<1>7. QED
  BY <1>1, <1>2, <1>3, <1>4, <1>5, <1>6

(* A step of a thread that was started neither starts nor stops another.   *)
LEMMA StepOfThread ==
  ASSUME NEW n \in Thread, WatcherInv,
         Connect(n) \/ Look(n) \/ Ask(n) \/ Sleep(n) \/ Wake(n) \/ Execute(n) \/ Fail(n)
  PROVE  WatcherInv'
<1> USE WatcherConstants DEF WatcherInv, WatcherConstants
<1>1. PICK from \in Live, to \in (Live \cup {"ended", "failed"}) : Goes(n, from, to)
  BY DEF Connect, Look, Ask, Sleep, Wake, Execute, Fail, Live
<1>2. timer' \in [Thread -> Nat] /\ executed' \subseteq Thread /\ executed \subseteq executed'
  BY DEF Connect, Look, Ask, Sleep, Wake, Execute, Fail, TypeOK
<1>3. TypeOK'
  BY <1>1, <1>2 DEF Goes, TypeOK, Live
<1>4. InOrder' /\ FlagDown' /\ MissedOnlyWhenGone'
  BY <1>1 DEF Goes, TypeOK, Live, InOrder, FlagDown, MissedOnlyWhenGone
<1>5. \A m \in Thread : Superseded(m) => Superseded(m)'
  BY <1>1 DEF Goes, TypeOK, Live, Superseded
<1>6. CASE Connect(n)
  <2>1. WokenInTime'
    BY <1>5, <1>6 DEF Connect, Goes, TypeOK, WokenInTime
  <2>2. EndsForAReason'
    BY <1>5, <1>6 DEF Connect, Goes, TypeOK, EndsForAReason
  <2>3. InBudget'
    BY <1>6 DEF Connect, Goes, TypeOK, InBudget, Live
  <2>4. QED
    BY <1>3, <1>4, <2>1, <2>2, <2>3
<1>7. CASE Look(n)
  <2>1. WokenInTime'
    BY <1>5, <1>7 DEF Look, Goes, TypeOK, WokenInTime
  <2>2. EndsForAReason'
    BY <1>5, <1>7 DEF Look, Goes, TypeOK, EndsForAReason, FlagDown, Superseded
  <2>3. InBudget'
    BY <1>7 DEF Look, Goes, TypeOK, InBudget, Live
  <2>4. QED
    BY <1>3, <1>4, <2>1, <2>2, <2>3
<1>8. CASE Ask(n)
  <2>1. WokenInTime'
    BY <1>5, <1>8 DEF Ask, Goes, TypeOK, WokenInTime
  <2>2. EndsForAReason'
    BY <1>5, <1>8 DEF Ask, Goes, TypeOK, EndsForAReason
  <2>3. InBudget'
    BY <1>8 DEF Ask, Goes, TypeOK, InBudget, Live, MissedOnlyWhenGone
  <2>4. QED
    BY <1>3, <1>4, <2>1, <2>2, <2>3
<1>9. CASE Sleep(n)
  <2>1. WokenInTime'
    BY <1>5, <1>9 DEF Sleep, Goes, TypeOK, WokenInTime
  <2>2. EndsForAReason'
    BY <1>5, <1>9 DEF Sleep, Goes, TypeOK, EndsForAReason
  <2>3. InBudget'
    BY <1>9 DEF Sleep, Goes, TypeOK, InBudget, Live, TooLong
  <2>4. QED
    BY <1>3, <1>4, <2>1, <2>2, <2>3
<1>10. CASE Wake(n)
  <2>1. WokenInTime'
    BY <1>5, <1>10 DEF Wake, Goes, TypeOK, WokenInTime
  <2>2. EndsForAReason'
    BY <1>5, <1>10 DEF Wake, Goes, TypeOK, EndsForAReason
  <2>3. InBudget'
    BY <1>10 DEF Wake, Goes, TypeOK, InBudget, Live, TooLong
  <2>4. QED
    BY <1>3, <1>4, <2>1, <2>2, <2>3
<1>11. CASE Execute(n)
  <2>1. WokenInTime'
    BY <1>5, <1>11 DEF Execute, Goes, TypeOK, WokenInTime
  <2>2. EndsForAReason'
    BY <1>5, <1>11 DEF Execute, Goes, TypeOK, EndsForAReason
  <2>3. InBudget'
    BY <1>11 DEF Execute, Goes, TypeOK, InBudget, Live
  <2>4. QED
    BY <1>3, <1>4, <2>1, <2>2, <2>3
<1>12. CASE Fail(n)
  <2>1. WokenInTime'
    BY <1>5, <1>12 DEF Fail, Goes, TypeOK, WokenInTime
  <2>2. EndsForAReason'
    BY <1>5, <1>12 DEF Fail, Goes, TypeOK, EndsForAReason
  <2>3. InBudget'
    BY <1>12 DEF Fail, Goes, TypeOK, InBudget, Live
  <2>4. QED
    BY <1>3, <1>4, <2>1, <2>2, <2>3
<1>13. QED
  BY <1>6, <1>7, <1>8, <1>9, <1>10, <1>11, <1>12

LEMMA StepOfRefresh ==
  ASSUME NEW k \in Key, WatcherInv, Refresh(k)
  PROVE  WatcherInv'
<1> USE WatcherConstants DEF WatcherInv, Refresh, WatcherConstants, threads
<1>1. TypeOK'
  <2>1. ttl' \in [Key -> 0 .. KeyTime]
    BY DEF TypeOK
  <2>2. missed' \in [Thread -> 0 .. TooLong]
    BY TimeIsNat DEF TypeOK
  <2>3. QED
    BY <2>1, <2>2 DEF TypeOK
<1>2. InOrder' /\ FlagDown' /\ WokenInTime' /\ EndsForAReason'
  BY DEF InOrder, FlagDown, WokenInTime, EndsForAReason, Superseded
<1>3. MissedOnlyWhenGone'
  BY DEF MissedOnlyWhenGone, TypeOK
<1>4. InBudget'
  <2>1. \A n \in Thread : missed'[n] = missed[n] \/ missed'[n] = 0
    BY DEF TypeOK
  <2>2. \A n \in Thread : timer[n] \in Nat /\ missed[n] \in Nat
    BY TimeIsNat DEF TypeOK
  <2>3. \A n \in Thread : missed'[n] + timer[n] <= missed[n] + timer[n]
    BY <2>1, <2>2
  <2>4. QED
    BY <2>1, <2>2, <2>3, TimeIsNat DEF InBudget, Live
<1>5. QED
  BY <1>1, <1>2, <1>3, <1>4

(* What is left of a running thread's timer goes down with every tick.     *)
LEMMA StepOfTick == WatcherInv /\ Tick => WatcherInv'
<1> SUFFICES ASSUME WatcherInv, Tick PROVE WatcherInv'
  OBVIOUS
<1> USE WatcherConstants DEF WatcherInv, Tick, WatcherConstants
<1>1. TypeOK'
  <2>1. sleep' \in 0 .. Pause /\ timer' \in [Thread -> Nat]
    BY DEF TypeOK
  <2>2. ttl' \in [Key -> 0 .. KeyTime]
    BY DEF TypeOK
  <2>3. missed' \in [Thread -> 0 .. TooLong]
    BY TimeIsNat DEF TypeOK
  <2>4. QED
    BY <2>1, <2>2, <2>3 DEF TypeOK
<1>2. InOrder' /\ FlagDown' /\ EndsForAReason'
  BY DEF InOrder, FlagDown, EndsForAReason, Superseded
<1>3. MissedOnlyWhenGone'
  BY DEF MissedOnlyWhenGone, TypeOK
<1>4. WokenInTime'
  BY DEF WokenInTime, Superseded, TypeOK, Live
<1>5. InBudget'
  <2>1. \A n \in Thread : timer[n] \in Nat /\ missed[n] \in Nat
    BY TimeIsNat DEF TypeOK
  <2>2. \A n \in Thread : pc[n] \in Live =>
            timer'[n] <= timer[n] /\ missed'[n] + timer'[n] <= missed[n] + timer[n]
    BY <2>1 DEF TypeOK
  <2>3. \A n \in Thread : timer'[n] \in Nat /\ missed'[n] \in Nat
    BY <1>1, TimeIsNat DEF TypeOK
  <2>4. QED
    BY <2>1, <2>2, <2>3 DEF InBudget, Live
<1>6. QED
  BY <1>1, <1>2, <1>3, <1>4, <1>5

-----------------------------------------------------------------------------
LEMMA WatcherStep == WatcherInv /\ [AssociationNext]_avars => WatcherInv'
<1> SUFFICES ASSUME WatcherInv, [AssociationNext]_avars PROVE WatcherInv'
  OBVIOUS
<1>1. CASE LoadConfig \/ LoadCredentials \/ Prepare \/ Register \/ Open \/ Restart \/ Take
  BY <1>1, WatcherStutter
     DEF LoadConfig, LoadCredentials, Prepare, Register, Open, Restart, Take, Advance
<1>2. CASE Die
  BY <1>2, ThreadsDie DEF Die
<1>3. CASE Associated
  BY <1>3, StepOfClear, WatcherStutter DEF Associated
<1>4. CASE Watching
  BY <1>4, StepOfThread, StepOfRefresh, StepOfTick DEF Watching
<1>5. ASSUME NEW n \in Thread, StartReturns(n) \/ LoseArchiver(n) \/ WatcherFails(n)
      PROVE  WatcherInv'
  BY <1>5, StepOfSpawn, StepOfThread DEF StartReturns, LoseArchiver, WatcherFails
<1>6. CASE UNCHANGED avars
  BY <1>6, WatcherStutter DEF avars
<1>7. QED
  BY <1>1, <1>2, <1>3, <1>4, <1>5, <1>6 DEF AssociationNext

(* The thread that looks after the archiver is only lost to a call of      *)
(* register_fwd, to start() or to a failure.                               *)
LEMMA LatestStays ==
  ASSUME WatcherInv, Watching, NEW n \in Thread, Latest(n), pc[n] \in Live
  PROVE  Latest(n)' /\ pc'[n] \in Live
<1> USE DEF WatcherInv, Latest
<1>1. ASSUME NEW m \in Thread, Connect(m) \/ Look(m) \/ Ask(m) \/ Sleep(m) \/ Wake(m)
      PROVE  Latest(n)' /\ pc'[n] \in Live
  BY <1>1 DEF Connect, Look, Ask, Sleep, Wake, Goes, TypeOK, Live, FlagDown
<1>2. ASSUME NEW k \in Key, Refresh(k)
      PROVE  Latest(n)' /\ pc'[n] \in Live
  BY <1>2 DEF Refresh, threads
<1>3. CASE Tick
  BY <1>3 DEF Tick
<1>4. QED
  BY <1>1, <1>2, <1>3 DEF Watching

(* A thread that leaves the loop leaves the others where they are.         *)
LEMMA OthersStay ==
  ASSUME WatcherInv, NEW m \in Thread, Execute(m) \/ Fail(m),
         NEW n \in Thread, n # m, Latest(n), pc[n] \in Live
  PROVE  Latest(n)' /\ pc'[n] \in Live
BY DEF WatcherInv, Latest, Execute, Fail, Goes, TypeOK, Live

LEMMA OfficeStep == Inv /\ [AssociationNext]_avars => OfficeInv'
<1> SUFFICES ASSUME Inv, [AssociationNext]_avars PROVE OfficeInv'
  OBVIOUS
<1> USE DEF Inv, OfficeInv
<1>1. CASE LoadConfig \/ LoadCredentials \/ Prepare \/ Restart \/ Die
  BY <1>1 DEF LoadConfig, LoadCredentials, Prepare, Restart, Die, Advance, office
<1>2. CASE Register
  <2>1. RegisterFwd(TRUE) /\ asked' = asked
    BY <1>2 DEF Register
  <2>2. CASE entries' = entries + 1
    BY <2>1, <2>2
  <2>3. CASE cut' = (cut \/ TRUE) /\ entries' = entries
    <3>1. cut'
      BY <2>3, Zenon
    <3>2. QED
      BY <2>1, <2>3, <3>1
  <2>4. QED
    BY <2>1, <2>2, <2>3 DEF RegisterFwd
<1>3. CASE Open
  BY <1>3 DEF Open, Advance, office, watcher, threads, Latest
<1>4. CASE Take
  BY <1>4 DEF Take
<1>5. CASE Associated
  BY <1>5 DEF Associated, Clear
<1>6. CASE Watching
  <2>1. UNCHANGED << stage, entries, asked, cut >>
    BY <1>6 DEF Watching, office
  <2>2. starting' = starting
    BY <1>6 DEF Watching, Connect, Look, Ask, Sleep, Wake, Goes, Refresh, Tick
  <2>3. QED
    BY <1>6, <2>1, <2>2, LatestStays
<1>7. ASSUME NEW n \in Thread, StartReturns(n)
      PROVE  OfficeInv'
  BY <1>7, StepOfSpawn DEF StartReturns
<1>8. ASSUME NEW m \in Thread, LoseArchiver(m)
      PROVE  OfficeInv'
  <2>1. Execute(m) /\ RegisterFwd(Latest(m)) /\ UNCHANGED << stage, asked, starting >>
    BY <1>8 DEF LoseArchiver, Execute, Goes
  <2>2. CASE entries' = entries + 1
    BY <2>1, <2>2
  <2>3. CASE cut' = (cut \/ Latest(m)) /\ entries' = entries
    BY <2>1, <2>3, OthersStay
  <2>4. QED
    BY <2>1, <2>2, <2>3 DEF RegisterFwd
<1>9. ASSUME NEW m \in Thread, WatcherFails(m)
      PROVE  OfficeInv'
  <2>1. Fail(m) /\ cut' = (cut \/ Latest(m)) /\ UNCHANGED << stage, entries, asked, starting >>
    BY <1>9 DEF WatcherFails, Fail, Goes
  <2>2. QED
    BY <2>1, OthersStay
<1>10. CASE UNCHANGED avars
  BY <1>10 DEF avars, office, watcher, threads, Latest
<1>11. QED
  BY <1>1, <1>2, <1>3, <1>4, <1>5, <1>6, <1>7, <1>8, <1>9, <1>10 DEF AssociationNext

LEMMA InvHolds == AssociationSpec => []Inv
<1>1. AssociationInit => Inv
  BY WatcherInit DEF AssociationInit, Inv, OfficeInv
<1>2. Inv /\ [AssociationNext]_avars => Inv'
  BY WatcherStep, OfficeStep DEF Inv
<1>3. QED
  BY <1>1, <1>2, PTL DEF AssociationSpec

-----------------------------------------------------------------------------
(* register_fwd, ASSOCIATED and the Watcher together never leave a serving *)
(* forwarder that no archiver has and none can get, unless a failure cut   *)
(* it off.                                                                 *)
THEOREM ServingIsReachable == AssociationSpec => []Reachable
<1>1. Inv => Reachable
  BY DEF Inv, OfficeInv, Reachable
<1>2. QED
  BY <1>1, InvHolds, PTL

(* The sleep of start() outlasts every wake-up: no thread it woke lives on *)
(* when the flag is lowered.                                               *)
THEOREM NoWokenThreadSurvives == AssociationSpec => []WokenEnd
<1>1. Inv => WokenEnd
  BY DEF Inv, WatcherInv, WokenInTime, WokenEnd
<1>2. QED
  BY <1>1, InvHolds, PTL

(* The key of the latest association is not gone for longer than a pause   *)
(* and two rounds before its thread calls register_fwd, unless Redis       *)
(* failed that thread.                                                     *)
THEOREM LossIsNoticed == AssociationSpec => []LossNoticed
<1>1. ASSUME Inv, NEW n \in Thread, Latest(n), missed[n] = TooLong, pc[n] # "failed"
      PROVE  n \in executed
  <2> USE DEF Inv, WatcherInv
  <2>1. ~ Superseded(n)
    BY <1>1 DEF Latest, Superseded
  <2>2. n \notin notified
    BY <1>1, <2>1 DEF WokenInTime
  <2>3. pc[n] \notin Live
    <3>1. timer[n] \in Nat /\ Expire \in Nat /\ Latency \in Nat
      BY <1>1, WatcherConstants DEF TypeOK, WatcherConstants
    <3>2. ~ (missed[n] + timer[n] <= Expire + 2 * Latency)
      BY <1>1, <3>1 DEF TooLong
    <3>3. QED
      BY <1>1, <2>2, <3>2 DEF InBudget
  <2>4. pc[n] = "ended"
    BY <1>1, <2>3 DEF Latest, TypeOK
  <2>5. QED
    BY <1>1, <2>1, <2>4 DEF EndsForAReason
<1>2. Inv => LossNoticed
  BY <1>1 DEF LossNoticed
<1>3. QED
  BY <1>2, InvHolds, PTL
=============================================================================
