----------------------------- MODULE RedisProofs -----------------------------
(***************************************************************************)
(* A RedisConnection that failed once fails for good, for any commands,    *)
(* any set of refused ones, and any bounds, until the server refuses a     *)
(* command that it does not refuse each time.                              *)
(*                                                                         *)
(* The heart of it: after an error the pipeline always holds so many       *)
(* answers to refused commands that among any Len(commands) consecutive    *)
(* ones there is another error, and an exec() needs that many to return.   *)
(***************************************************************************)
EXTENDS RedisConnection, TLAPS

Bad(c) == c[2] \in Refused

(* What a reader finds behind p replies, if the queue is sent once more.   *)
At(p) == IF p <= Len(wire) THEN wire[p] ELSE commands[p - Len(wire)]

(* Every stretch of the pipeline as long as the queue holds an error.      *)
ErrorAhead ==
    \A p \in 0 .. Len(wire) : \E q \in 1 .. Len(commands) : Bad(At(p + q))

(* This exec() meets an error before it has read a reply per command.      *)
ErrorDue ==
    \E q \in 1 .. (Len(commands) - Len(got)) : q <= Len(wire) /\ Bad(wire[q])

(* No exec() has failed: the pipeline holds this caller's replies only.    *)
InStep ==
    /\ state # "reading" => commands = << >> /\ wire = << >>
    /\ state = "reading" =>
         /\ commands = asked
         /\ Len(got) + Len(wire) = Len(commands)
         /\ \A i \in 1 .. Len(got) : got[i] = commands[i]
         /\ \A i \in 1 .. Len(wire) : wire[i] = commands[Len(got) + i]

OutOfStep ==
    /\ ErrorAhead
    /\ state = "reading" => ErrorDue
    /\ state # "returned"

(* The invariant of a connection without a lapse.                          *)
Inv ==
    /\ TypeOK
    /\ AnswersInStep
    /\ broken => /\ state # "returned"
                 /\ state = "reading" => got = << >> /\ Len(commands) > 0
    /\ ~ broken => IF Poisoned THEN OutOfStep ELSE InStep

(* The commands of one batch, issued.                                      *)
LEMMA BatchIssued ==
    ASSUME NEW n \in 0 .. MaxExecs, n < MaxExecs, NEW batch \in Batch
    PROVE  /\ [i \in DOMAIN batch |-> << n + 1, batch[i] >>] \in Seq(Issued)
           /\ Len([i \in DOMAIN batch |-> << n + 1, batch[i] >>]) > 0
<1> DEFINE mine == [i \in DOMAIN batch |-> << n + 1, batch[i] >>]
<1>1. PICK m \in 1 .. MaxBatch : batch \in [1 .. m -> Command]
  BY DEF Batch
<1>2. mine \in [1 .. m -> Issued]
  BY <1>1, RedisConstants DEF Issued
<1> QED BY <1>1, <1>2, RedisConstants

(* A fresh connection is in step.                                          *)
LEMMA InitInv == Init => Inv
<1> SUFFICES ASSUME Init PROVE Inv
  OBVIOUS
<1>1. << >> \in Seq(Issued) /\ 0 \in 0 .. MaxExecs
  BY RedisConstants
<1>2. TypeOK
  BY <1>1 DEF Init, TypeOK
<1>3. ~ Poisoned /\ InStep
  BY DEF Init, Poisoned, InStep
<1> QED BY <1>2, <1>3 DEF Init, Inv, AnswersInStep

(* exec() appends the queue: the stretches that held an error still do, and *)
(* those that begin in the new copy reach its first error, in it or in the *)
(* copy behind it.                                                         *)
LEMMA ExecInv ==
    ASSUME Inv, NEW batch \in Batch, Exec(batch)
    PROVE  Inv' /\ (Poisoned => Poisoned')
<1>1. /\ state # "reading" /\ state' = "reading" /\ got' = << >> /\ broken' = broken
      /\ lapse' = lapse
      /\ commands' = commands \o asked' /\ wire' = wire \o commands'
      /\ commands \in Seq(Issued) /\ wire \in Seq(Issued)
      /\ execs' = execs + 1 /\ execs' \in 0 .. MaxExecs
  BY RedisConstants DEF Exec, Inv, TypeOK
<1>2. asked' \in Seq(Issued) /\ Len(asked') > 0
  BY BatchIssued DEF Exec, Inv, TypeOK
<1>3. /\ commands' \in Seq(Issued) /\ wire' \in Seq(Issued)
      /\ Len(commands') = Len(commands) + Len(asked')
      /\ Len(wire') = Len(wire) + Len(commands')
  BY <1>1, <1>2
<1>4. TypeOK'
  BY <1>1, <1>2, <1>3 DEF Inv, TypeOK
<1>5. CASE broken
  BY <1>1, <1>2, <1>3, <1>4, <1>5 DEF Inv, AnswersInStep, Poisoned
<1>6. CASE ~ broken /\ ~ Poisoned
  <2>1. commands = << >> /\ wire = << >>
    BY <1>1, <1>6 DEF Inv, InStep
  <2>2. commands' = asked' /\ wire' = asked'
    BY <1>1, <1>2, <2>1
  <2> QED BY <1>1, <1>2, <1>4, <1>6, <2>2 DEF Inv, AnswersInStep, Poisoned, InStep
<1>7. CASE ~ broken /\ Poisoned
  <2> DEFINE n == Len(commands)
             m == Len(commands')
  <2>1. n \in Nat /\ n > 0 /\ m \in Nat /\ n < m
    BY <1>1, <1>2, <1>3, <1>7 DEF Poisoned
  <2>2. ErrorAhead
    BY <1>7 DEF Inv, OutOfStep
  <2>30. Len(wire) \in Nat /\ Len(wire') \in Nat
    BY <1>1, <1>3
  <2>3. PICK k \in 1 .. n : Bad(commands[k])
    <3>1. PICK k \in 1 .. n : Bad(At(Len(wire) + k))
      <4>1. Len(wire) \in 0 .. Len(wire)
        BY <2>30
      <4> QED BY <2>2, <4>1 DEF ErrorAhead
    <3>2. /\ k \in Nat /\ k > 0 /\ Len(wire) \in Nat
          /\ (Len(wire) + k) - Len(wire) = k /\ ~ (Len(wire) + k <= Len(wire))
      BY <2>1, <2>30
    <3>3. At(Len(wire) + k) = commands[k]
      BY <3>2 DEF At
    <3> QED BY <3>1, <3>3
  <2>4. /\ \A i \in 1 .. Len(wire) : wire'[i] = wire[i]
        /\ \A i \in 1 .. n : commands'[i] = commands[i]
        /\ \A i \in 1 .. m : wire'[Len(wire) + i] = commands'[i]
    BY <1>1, <1>2, <1>3
  <2>5. \A p \in 1 .. (Len(wire) + n) : At(p)' = At(p)
    BY <1>1, <1>3, <2>1, <2>4 DEF At
  <2>6. ASSUME NEW p \in Nat, NEW i \in 1 .. m, p = Len(wire) + i
        PROVE  At(p)' = commands'[i]
    BY <1>1, <1>3, <2>1, <2>4, <2>6 DEF At
  <2>7. ASSUME NEW p \in Nat, NEW i \in 1 .. m, p = Len(wire') + i
        PROVE  At(p)' = commands'[i]
    BY <1>1, <1>3, <2>1, <2>7 DEF At
  <2>8. ErrorAhead'
    <3>1. SUFFICES ASSUME NEW p \in 0 .. Len(wire')
                   PROVE  \E q \in 1 .. m : Bad(At(p + q)')
      BY DEF ErrorAhead, Bad
    <3>2. CASE p <= Len(wire)
      <4>1. PICK q \in 1 .. n : Bad(At(p + q))
        BY <1>1, <2>2, <3>2 DEF ErrorAhead
      <4>2. At(p + q)' = At(p + q)
        BY <1>1, <2>1, <2>5, <3>2
      <4> QED BY <2>1, <4>1, <4>2
    <3>3. CASE p > Len(wire) /\ p < Len(wire) + k
      <4>1. PICK q \in 1 .. m : p + q = Len(wire) + k
        <5> DEFINE j == Len(wire) + k - p
        <5>1. j \in 1 .. m /\ p + j = Len(wire) + k
          BY <1>3, <2>1, <2>30, <3>3
        <5> QED BY <5>1
      <4>2. p + q \in Nat /\ k \in 1 .. m
        BY <2>1, <2>30
      <4>3. At(p + q)' = commands'[k]
        BY <2>6, <4>1, <4>2
      <4> QED BY <2>3, <2>4, <4>1, <4>3
    <3>4. CASE p >= Len(wire) + k
      <4>1. PICK q \in 1 .. m : p + q = Len(wire') + k
        <5> DEFINE j == Len(wire') + k - p
        <5>1. j \in 1 .. m /\ p + j = Len(wire') + k
          BY <1>3, <2>1, <2>30, <3>4
        <5> QED BY <5>1
      <4>2. p + q \in Nat /\ k \in 1 .. m
        BY <2>1, <2>30
      <4>3. At(p + q)' = commands'[k]
        BY <2>7, <4>1, <4>2
      <4> QED BY <2>3, <2>4, <4>1, <4>3
    <3> QED BY <1>1, <1>3, <2>1, <3>2, <3>3, <3>4
  <2>9. ErrorDue'
    <3>1. PICK q \in 1 .. n : Bad(At(q))
      BY <1>1, <2>1, <2>2 DEF ErrorAhead
    <3>2. q <= Len(wire') /\ wire'[q] = At(q)
      BY <1>1, <1>3, <2>1, <2>4, <2>5, <3>1 DEF At
    <3>3. Len(commands') - Len(got') = m
      BY <1>1, <2>1
    <3> QED BY <2>1, <3>1, <3>2, <3>3 DEF ErrorDue, Bad
  <2> QED BY <1>1, <1>3, <1>4, <1>7, <2>1, <2>8, <2>9
          DEF Inv, AnswersInStep, Poisoned, OutOfStep
<1> QED BY <1>5, <1>6, <1>7

(* A reply read moves every stretch of the pipeline up by one.             *)
LEMMA Shift ==
    ASSUME wire \in Seq(Issued), commands \in Seq(Issued), wire # << >>,
           wire' = Tail(wire), commands' = commands, ErrorAhead
    PROVE  ErrorAhead'
<1>1. /\ Len(wire) \in Nat \ {0} /\ Len(wire') = Len(wire) - 1
      /\ \A i \in 1 .. Len(wire') : wire'[i] = wire[i + 1]
  OBVIOUS
<1>2. ASSUME NEW p \in Nat, p > 0
      PROVE  At(p)' = At(p + 1)
  <2>1. CASE p <= Len(wire')
    BY <1>1, <1>2, <2>1 DEF At
  <2>2. CASE ~ (p <= Len(wire'))
    <3>1. ~ (p + 1 <= Len(wire)) /\ p - Len(wire') = (p + 1) - Len(wire)
      BY <1>1, <1>2, <2>2
    <3> QED BY <2>2, <3>1 DEF At
  <2> QED BY <2>1, <2>2
<1>3. SUFFICES ASSUME NEW p \in 0 .. Len(wire')
               PROVE  \E q \in 1 .. Len(commands) : Bad(At(p + q)')
  BY DEF ErrorAhead, Bad
<1>4. p + 1 \in 0 .. Len(wire) /\ p \in Nat
  BY <1>1
<1>5. PICK q \in 1 .. Len(commands) : Bad(At((p + 1) + q))
  BY <1>4 DEF ErrorAhead
<1>6. p + q \in Nat /\ p + q > 0 /\ (p + q) + 1 = (p + 1) + q
  BY <1>4
<1>7. At(p + q)' = At((p + 1) + q)
  BY <1>2, <1>6
<1> QED BY <1>5, <1>7

(* While an exec() reads, the pipeline holds the reply it waits for.       *)
LEMMA ReplyPending ==
    ASSUME Inv, state = "reading", ~ broken, Len(got) < Len(commands)
    PROVE  wire # << >>
<1>1. Len(got) \in Nat /\ Len(wire) \in Nat /\ Len(commands) \in Nat
  BY DEF Inv, TypeOK
<1>2. CASE Poisoned
  BY <1>1, <1>2 DEF Inv, OutOfStep, ErrorDue
<1>3. CASE ~ Poisoned
  BY <1>1, <1>3 DEF Inv, InStep
<1> QED BY <1>2, <1>3

(* A reply read in step is the one to the next command; out of step, the   *)
(* error that is due comes one nearer.                                     *)
LEMMA ReadReplyInv ==
    ASSUME Inv, ReadReply
    PROVE  Inv' /\ (Poisoned => Poisoned')
<1>1. /\ state = "reading" /\ state' = "reading" /\ ~ broken /\ broken' = broken
      /\ lapse' = lapse
      /\ wire' = Tail(wire) /\ commands' = commands /\ asked' = asked
      /\ got' = Append(got, Head(wire)) /\ execs' = execs
      /\ Len(got) < Len(commands) /\ ~ Bad(Head(wire))
      /\ wire \in Seq(Issued) /\ commands \in Seq(Issued) /\ got \in Seq(Issued)
  BY DEF ReadReply, Inv, TypeOK, Bad
<1>2. wire # << >>
  BY <1>1, ReplyPending
<1>3. /\ Len(wire) \in Nat \ {0} /\ Len(wire') = Len(wire) - 1
      /\ Head(wire) = wire[1] /\ Head(wire) \in Issued
      /\ \A i \in 1 .. Len(wire') : wire'[i] = wire[i + 1]
      /\ wire' \in Seq(Issued)
  BY <1>1, <1>2
<1>4. /\ got' \in Seq(Issued) /\ Len(got') = Len(got) + 1
      /\ \A i \in 1 .. Len(got) : got'[i] = got[i]
      /\ got'[Len(got) + 1] = wire[1]
      /\ Len(got) \in Nat /\ Len(commands) \in Nat
  BY <1>1, <1>3
<1>5. TypeOK'
  BY <1>1, <1>3, <1>4 DEF Inv, TypeOK
<1>6. Poisoned' <=> Poisoned
  BY <1>1 DEF Poisoned
<1>7. CASE ~ Poisoned
  <2>1. /\ commands = asked /\ Len(got) + Len(wire) = Len(commands)
        /\ \A i \in 1 .. Len(got) : got[i] = commands[i]
        /\ \A i \in 1 .. Len(wire) : wire[i] = commands[Len(got) + i]
    BY <1>1, <1>7 DEF Inv, InStep
  <2>2. \A i \in 1 .. Len(got') : got'[i] = commands[i]
    BY <1>3, <1>4, <2>1
  <2>3. \A i \in 1 .. Len(wire') : wire'[i] = commands[Len(got') + i]
    <3>1. SUFFICES ASSUME NEW i \in 1 .. Len(wire')
                   PROVE  wire'[i] = commands[Len(got') + i]
      OBVIOUS
    <3>2. i + 1 \in 1 .. Len(wire) /\ Len(got') + i = Len(got) + (i + 1)
      BY <1>3, <1>4
    <3> QED BY <1>3, <2>1, <3>2
  <2>4. Len(got') + Len(wire') = Len(commands)
    <3>1. Len(got) + Len(wire) = Len(commands)
      BY <2>1
    <3>2. /\ Len(got) \in Nat /\ Len(wire) \in Nat
          /\ Len(wire') = Len(wire) - 1 /\ Len(got') = Len(got) + 1
      BY <1>3, <1>4
    <3> QED BY <3>1, <3>2
  <2> QED BY <1>1, <1>5, <1>6, <1>7, <2>1, <2>2, <2>3, <2>4
          DEF Inv, AnswersInStep, InStep
<1>8. CASE Poisoned
  <2>1. ErrorAhead /\ ErrorDue
    BY <1>1, <1>8 DEF Inv, OutOfStep
  <2>2. ErrorAhead'
    BY <1>1, <1>2, <2>1, Shift
  <2>3. ErrorDue'
    <3>1. PICK q \in 1 .. (Len(commands) - Len(got)) :
              q <= Len(wire) /\ Bad(wire[q])
      BY <2>1 DEF ErrorDue
    <3>2. q # 1
      BY <1>1, <1>3, <3>1
    <3>3. /\ q - 1 \in 1 .. (Len(commands') - Len(got'))
          /\ q - 1 <= Len(wire') /\ wire'[q - 1] = wire[q]
      BY <1>1, <1>3, <1>4, <3>1, <3>2
    <3> QED BY <3>1, <3>3 DEF ErrorDue, Bad
  <2> QED BY <1>1, <1>5, <1>6, <1>8, <2>2, <2>3 DEF Inv, AnswersInStep, OutOfStep
<1> QED BY <1>6, <1>7, <1>8

(* The first error: the refused command is in the queue that is kept, as   *)
(* far from its end as the replies behind the error are many.              *)
LEMMA ReadErrorInv ==
    ASSUME Inv, ReadError, ~ lapse'
    PROVE  Inv' /\ Poisoned'
<1>1. /\ lapse' \in BOOLEAN /\ state = "reading" /\ state' = "threw" /\ ~ broken /\ broken' = broken
      /\ wire' = Tail(wire) /\ commands' = commands /\ asked' = asked
      /\ got' = got /\ execs' = execs
      /\ Len(got) < Len(commands) /\ Bad(Head(wire))
      /\ wire \in Seq(Issued) /\ commands \in Seq(Issued) /\ got \in Seq(Issued)
  BY DEF ReadError, ErrorReply, Inv, TypeOK, Bad
<1>2. wire # << >>
  BY <1>1, ReplyPending
<1>3. /\ Len(wire) \in Nat \ {0} /\ Len(wire') = Len(wire) - 1
      /\ Head(wire) = wire[1] /\ wire' \in Seq(Issued)
      /\ Len(got) \in Nat /\ Len(commands) \in Nat
  BY <1>1, <1>2
<1>4. TypeOK' /\ Poisoned'
  BY <1>1, <1>3 DEF Inv, TypeOK, Poisoned
<1>5. CASE Poisoned
  <2>1. ErrorAhead
    BY <1>1, <1>5 DEF Inv, OutOfStep
  <2>2. ErrorAhead'
    BY <1>1, <1>2, <2>1, Shift
  <2> QED BY <1>1, <1>4, <2>2 DEF Inv, AnswersInStep, OutOfStep
<1>6. CASE ~ Poisoned
  <2> DEFINE n == Len(commands)
             k == Len(got) + 1
  <2>1. /\ Len(got) + Len(wire) = n
        /\ wire[1] = commands[k]
    BY <1>1, <1>3, <1>6 DEF Inv, InStep
  <2>2. Bad(commands[k]) /\ Len(wire') = n - k /\ k \in 1 .. n /\ n \in Nat
    BY <1>1, <1>3, <2>1
  <2>3. ErrorAhead'
    <3>1. SUFFICES ASSUME NEW p \in 0 .. Len(wire')
                   PROVE  \E q \in 1 .. n : Bad(At(p + q)')
      BY <1>1 DEF ErrorAhead, Bad
    <3>2. PICK q \in 1 .. n : q = n - p
      <4>1. n - p \in 1 .. n
        BY <2>2
      <4> QED BY <4>1
    <3>3. p + q = n /\ ~ (n <= Len(wire')) /\ n - Len(wire') = k
      BY <2>2, <3>2
    <3>4. At(p + q)' = commands[k]
      BY <1>1, <3>3 DEF At
    <3> QED BY <2>2, <3>2, <3>4
  <2> QED BY <1>1, <1>4, <2>3 DEF Inv, AnswersInStep, OutOfStep
<1> QED BY <1>4, <1>5, <1>6

(* Once the context has failed no reply is read.                           *)
LEMMA ReadFailsInv ==
    ASSUME Inv, ReadFails
    PROVE  Inv' /\ Poisoned'
BY DEF ReadFails, Inv, TypeOK, AnswersInStep, Poisoned

(* An exec() that returns was in step: out of step an error was still due. *)
LEMMA ReturnInv ==
    ASSUME Inv, ~ lapse, Return
    PROVE  Inv' /\ ~ Poisoned
<1>1. /\ state = "reading" /\ state' = "returned" /\ broken' = broken
      /\ lapse' = lapse /\ wire' = wire /\ commands' = << >> /\ asked' = asked
      /\ got' = got /\ execs' = execs /\ Len(got) = Len(commands)
      /\ wire \in Seq(Issued) /\ commands \in Seq(Issued) /\ got \in Seq(Issued)
  BY DEF Return, Inv, TypeOK
<1>2. Len(got) \in Nat /\ Len(wire) \in Nat
  BY <1>1
<1>3. ~ broken
  BY <1>1 DEF Inv
<1>4. ~ Poisoned
  BY <1>1, <1>2, <1>3 DEF Inv, OutOfStep, ErrorDue
<1>5. /\ commands = asked /\ Len(wire) = 0
      /\ \A i \in 1 .. Len(got) : got[i] = commands[i]
  BY <1>1, <1>2, <1>3, <1>4 DEF Inv, InStep
<1>6. got = asked /\ wire = << >>
  BY <1>1, <1>5
<1>7. TypeOK'
  BY <1>1 DEF Inv, TypeOK
<1> QED BY <1>1, <1>3, <1>4, <1>6, <1>7
        DEF Inv, AnswersInStep, Poisoned, InStep

(* Short of a lapse every step keeps the invariant, and a failed           *)
(* connection failed.                                                      *)
LEMMA StepInv ==
    ASSUME Inv, ~ lapse, [Next]_vars, ~ lapse'
    PROVE  Inv' /\ (Poisoned => Poisoned')
<1>1. ASSUME NEW batch \in Batch, Exec(batch)
      PROVE  Inv' /\ (Poisoned => Poisoned')
  BY <1>1, ExecInv
<1>2. CASE ReadReply
  BY <1>2, ReadReplyInv
<1>3. CASE ReadError
  BY <1>3, ReadErrorInv
<1>4. CASE ReadFails
  BY <1>4, ReadFailsInv
<1>5. CASE Return
  BY <1>5, ReturnInv
<1>6. CASE UNCHANGED vars
  BY <1>6 DEF vars, Inv, TypeOK, AnswersInStep, Poisoned, InStep, OutOfStep,
              ErrorAhead, ErrorDue, At, Bad
<1> QED BY <1>1, <1>2, <1>3, <1>4, <1>5, <1>6 DEF Next

(* A lapse is never forgotten.                                             *)
LEMMA LapseStays ==
    ASSUME [Next]_vars, lapse
    PROVE  lapse'
BY DEF Next, vars, Exec, ReadReply, ReadError, ErrorReply, ReadFails, Return

(* The inductive invariant: what is not excused by a lapse.                *)
Steady == ~ lapse => Inv

LEMMA SteadyInit == Init => Steady
BY InitInv DEF Steady

LEMMA SteadyStep ==
    ASSUME Steady, [Next]_vars
    PROVE  Steady' /\ ((Poisoned /\ ~ lapse') => Poisoned')
BY StepInv, LapseStays DEF Steady

(* An exec() that returns has the replies to its own caller's commands, in *)
(* order, for any commands and after any I/O errors and any errors that    *)
(* the server answers each time; after another error nothing is said       *)
(* (RedisConnection.cpp:175-189).                                          *)
THEOREM AnswersAlwaysInStep == Spec => []AnswersInStep
<1>1. Spec => []Steady
  BY SteadyInit, SteadyStep, PTL DEF Spec
<1>2. Steady => AnswersInStep
  BY DEF Steady, Inv, AnswersInStep
<1> QED BY <1>1, <1>2, PTL

(* A connection that failed once fails for good: no exec() returns again   *)
(* (RedisConnection.cpp:187, RedisResponse.cpp:50-85), short of a lapse.   *)
THEOREM FailedStaysFailed == Spec => FailedForGood
<1>1. Spec => []Steady
  BY SteadyInit, SteadyStep, PTL DEF Spec
<1>2. Steady /\ [Next]_vars => [(Poisoned /\ ~ lapse') => Poisoned']_vars
  BY SteadyStep
<1> QED BY <1>1, <1>2, PTL DEF Spec, FailedForGood
-----------------------------------------------------------------------------
(* Queueing and sending asks, and leaves the connection as it was.         *)
LEMMA ExecAsks ==
    ASSUME Inv, ~ lapse, NEW batch \in Batch, Exec(batch)
    PROVE  AsScoreboardSees!Ask
<1>1. /\ lapse' = lapse /\ state \in {"idle", "returned", "threw"} /\ state' = "reading"
      /\ broken' = broken /\ commands' = commands \o asked'
      /\ commands \in Seq(Issued)
  BY DEF Exec, Inv, TypeOK
<1>2. asked' \in Seq(Issued) /\ Len(asked') > 0
  BY BatchIssued DEF Exec, Inv, TypeOK
<1>3. Answer # "pending" /\ Answer' = "pending"
  BY <1>1 DEF Answer
<1>4. CASE Poisoned
  BY <1>1, <1>3, <1>4, ExecInv DEF LinkState, AsScoreboardSees!Ask
<1>5. CASE ~ Poisoned
  <2>1. ~ broken /\ commands = << >>
    BY <1>1, <1>5 DEF Poisoned, Inv, InStep
  <2>2. commands' = asked' /\ Len(asked') \in Nat
    BY <1>2, <1>1, <2>1
  <2>3. ~ Poisoned'
    BY <1>1, <2>1, <2>2 DEF Poisoned
  <2> QED BY <1>1, <1>3, <1>5, <2>3 DEF LinkState, AsScoreboardSees!Ask
<1> QED BY <1>4, <1>5

(* A reply that is read is nothing to the caller yet.                      *)
LEMMA ReadReplyUnseen ==
    ASSUME ReadReply
    PROVE  UNCHANGED AsScoreboardSees!vars
BY DEF ReadReply, AsScoreboardSees!vars, Answer, LinkState, Poisoned

(* A failed exec() throws, and the connection is dead from then on.        *)
LEMMA FailureThrows ==
    ASSUME Inv, ~ lapse, ReadError \/ ReadFails
    PROVE  AsScoreboardSees!Throws
<1>1. state = "reading" /\ state' = "threw"
  BY DEF ReadError, ErrorReply, ReadFails
<1>2. Poisoned' \/ lapse'
  BY ReadErrorInv, ReadFailsInv
<1> QED BY <1>1, <1>2 DEF Answer, LinkState, AsScoreboardSees!Throws

(* An exec() that returns was never out of step, and still is not.         *)
LEMMA ReturnGivesOwn ==
    ASSUME Inv, ~ lapse, Return
    PROVE  AsScoreboardSees!Returns
<1>1. /\ ~ lapse' /\ state = "reading" /\ state' = "returned"
      /\ broken' = broken /\ commands' = << >>
  BY DEF Return
<1>2. Inv' /\ ~ Poisoned
  BY ReturnInv
<1>3. Answer = "pending" /\ Answer' = "own"
  BY <1>1, <1>2 DEF Answer, Inv, AnswersInStep
<1>4. ~ Poisoned'
  BY <1>1, <1>2 DEF Poisoned
<1> QED BY <1>1, <1>2, <1>3, <1>4 DEF LinkState, AsScoreboardSees!Returns

(* A connection is a Link: up until an exec() throws, dead from then on,   *)
(* and every exec() that returns has its caller's own answers, until the   *)
(* server refuses a command that it does not refuse each time.  This is    *)
(* what ExecReturns and ExecThrows of Scoreboard take for granted          *)
(* (RedisConnection.cpp:175-189, RedisResponse.cpp:50-103).                *)
THEOREM ConnectionIsALink == Spec => ImplementsLink
<1>1. Spec => []Steady
  BY SteadyInit, SteadyStep, PTL DEF Spec
<1>2. Init => AsScoreboardSees!Init
  BY DEF Init, AsScoreboardSees!Init, LinkState, Answer, Poisoned
<1>3. Steady /\ [Next]_vars => [AsScoreboardSees!Next]_AsScoreboardSees!vars
  <2> SUFFICES ASSUME Steady, [Next]_vars, ~ lapse
               PROVE  [AsScoreboardSees!Next]_AsScoreboardSees!vars
    BY LapseStays DEF AsScoreboardSees!vars, Answer, LinkState
  <2>0. Inv
    BY DEF Steady
  <2>1. ASSUME NEW batch \in Batch, Exec(batch)
        PROVE  AsScoreboardSees!Ask
    BY <2>0, <2>1, ExecAsks
  <2>2. CASE ReadReply
    BY <2>2, ReadReplyUnseen
  <2>3. CASE ReadError \/ ReadFails
    BY <2>0, <2>3, FailureThrows DEF AsScoreboardSees!Next
  <2>4. CASE Return
    BY <2>0, <2>4, ReturnGivesOwn DEF AsScoreboardSees!Next
  <2>5. CASE UNCHANGED vars
    BY <2>5 DEF vars, AsScoreboardSees!vars, Answer, LinkState, Poisoned
  <2> QED BY <2>1, <2>2, <2>3, <2>4, <2>5 DEF Next, AsScoreboardSees!Next
<1> QED BY <1>1, <1>2, <1>3, PTL DEF Spec, ImplementsLink, AsScoreboardSees!Spec
=============================================================================
