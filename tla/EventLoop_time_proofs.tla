------------------------- MODULE EventLoop_time_proofs -------------------------
(***************************************************************************)
(* The deadlines of the running command, for every value of the constants: *)
(* the code compares 32-bit ticks that wrap around, the proof compares     *)
(* them with the ticks that have really passed (age).                      *)
(***************************************************************************)
EXTENDS EventLoop_proofs

-----------------------------------------------------------------------------
(* Ticks modulo 2^32.                                                       *)

\* The difference of two ticks, as an unsigned number.
LEMMA TickDifference ==
  ASSUME NEW M \in Nat \ {0}, NEW n \in 0 .. M - 1, NEW t \in 0 .. M - 1
  PROVE  (n - t) % M = IF n >= t THEN n - t ELSE n - t + M
OBVIOUS

LEMMA NextTick ==
  ASSUME NEW M \in Nat \ {0}, NEW n \in 0 .. M - 1
  PROVE  (n + 1) % M = IF n = M - 1 THEN 0 ELSE n + 1
OBVIOUS

\* One tick later the difference is one more, until it wraps around itself.
LEMMA TickPasses ==
  ASSUME NEW M \in Nat \ {0}, NEW n \in 0 .. M - 1, NEW t \in 0 .. M - 1, (n - t) % M < M - 1
  PROVE  (((n + 1) % M) - t) % M = ((n - t) % M) + 1
<1> DEFINE m == (n + 1) % M
           before == (n - t) % M
           after == (m - t) % M
<1>1. m = IF n = M - 1 THEN 0 ELSE n + 1
  BY NextTick
<1>2. m \in 0 .. M - 1
  BY <1>1
<1>3. before = IF n >= t THEN n - t ELSE n - t + M
  BY TickDifference
<1>4. before < M - 1
  OBVIOUS
<1> HIDE DEF m
<1>5. after = IF m >= t THEN m - t ELSE m - t + M
  BY <1>2, TickDifference
<1> HIDE DEF before, after
<1>6. after = before + 1
  BY <1>1, <1>3, <1>4, <1>5
<1> QED
  BY <1>6 DEF m, before, after

-----------------------------------------------------------------------------
(* The inductive invariant.                                                 *)

\* The code reads the ticks that have passed since dispatch off its clock.
ClockOK == current # NoTask /\ age < TickMod => Elapsed = age

\* A command that ends as timed out has had its time.
NotEarly == current # NoTask /\ lpc = "endNotify" /\ ending.result = "ATC_TIMEOUT" => age >= Timeout(current)

\* How late the deadline check can be when the thread goes to sleep: the ticks
\* that pass between the check and the computation of the wait.
Slack == IF MaxLag = 0 THEN 0 ELSE MaxLag - 1

\* A command with a timeout has passed the deadline check before the wait is
\* computed, sleeps to its deadline and no further, and runs over it only by
\* the lag of this round and what was left of the lag of the round before.
DeadlineOK ==
  current # NoTask /\ current.req.timeout # 0 =>
    LET limit == current.req.timeout
    IN  /\ age <= limit + Slack + lag
        /\ lpc = "wait" => age < limit + lag
        /\ lpc = "take" => /\ age + waitLeft <= limit + Slack + lag
                           /\ waitLeft # 0 => age + waitLeft = limit

\* A timeout is not the value that means forever, and the tick does not get
\* all the way round to the dispatch again before the deadline is noticed.
DeadlinesFit ==
  \A r \in Requests : r.timeout < ATC_TIMEOUT_MAX /\ r.timeout + 2 * MaxLag <= TickMod

TimeInv == ClockOK /\ NotEarly /\ (DeadlinesFit => DeadlineOK)

\* The types the steps need.
LEMMA TimeTypes ==
  ASSUME TypeOK
  PROVE  /\ TickMod \in Nat \ {0, 1} /\ MaxLag \in Nat /\ Slack \in Nat
         /\ now \in 0 .. TickMod - 1 /\ timestamp \in 0 .. TickMod - 1
         /\ waitLeft \in 0 .. TickMod - 1 /\ lag \in 0 .. MaxLag /\ age \in 0 .. TickMod
         /\ current # NoTask => /\ current \in Job /\ current.req.timeout \in 0 .. TickMod - 1
                                /\ Timeout(current) \in 1 .. TickMod - 1
<1>1. TickMod \in Nat \ {0, 1} /\ MaxLag \in Nat /\ Slack \in Nat
  BY ConstantsAssumption DEF Slack
<1>2. /\ now \in 0 .. TickMod - 1 /\ timestamp \in 0 .. TickMod - 1
      /\ waitLeft \in 0 .. TickMod - 1 /\ lag \in 0 .. MaxLag /\ age \in 0 .. TickMod
  BY DEF TypeOK, ATC_TIMEOUT_MAX
<1>3. ASSUME current # NoTask PROVE current \in Job
  BY <1>3 DEF TypeOK
<1>4. ASSUME current \in Job PROVE current.req.timeout \in 0 .. TickMod - 1
  BY <1>4, RequestsAssumption DEF Job, Request, ATC_TIMEOUT_MAX
<1>5. ASSUME current \in Job PROVE Timeout(current) \in 1 .. TickMod - 1
  BY <1>5, TimeoutType DEF ATC_TIMEOUT_MAX
<1> QED
  BY <1>1, <1>2, <1>3, <1>4, <1>5

\* What the premise says of the running command.
LEMMA DeadlineFits ==
  ASSUME TypeOK, DeadlinesFit, current # NoTask
  PROVE  current.req.timeout < TickMod - 1 /\ current.req.timeout + 2 * MaxLag <= TickMod
<1>1. current.req \in Requests
  BY DEF TypeOK, Job
<1> QED
  BY <1>1 DEF DeadlinesFit, ATC_TIMEOUT_MAX

LEMMA TimeInit == Init => TimeInv
BY DEF Init, TimeInv, ClockOK, NotEarly, DeadlineOK

-----------------------------------------------------------------------------
(* The steps that do not look at the clock.                                 *)

\* The steps of the threads and of the interrupt.
Elsewhere == (\E c \in Callers : CallerNext(c)) \/ IsrStart \/ IsrStep \/ UNCHANGED vars

\* The steps of a round before its deadline check, up to dispatch and removal.
Work ==
  \/ ExternHandle \/ ExternGive \/ ExternFree \/ ExternDone
  \/ SendSkip \/ SendDrop \/ Transmit \/ TransmitFails
  \/ RecvDone \/ RecvChunk \/ RecvLine \/ RecvPrompt \/ RecvBinary
  \/ EndNotify \/ EndGive

LEMMA TimeSteps ==
  ASSUME [Next]_vars
  PROVE  Elsewhere \/ Work \/ SendStart \/ EndFree \/ CheckTimeout \/ ComputeWait \/ Take \/ Tick
BY DEF Next, Loop, Elsewhere, Work

LEMMA ElsewhereKeeps == Elsewhere => UNCHANGED <<lpc, current, timestamp, ending, waitLeft, now, lag, age>>
<1> USE DEF taskVars, timeVars
<1>1. ASSUME NEW c \in Callers, CallerNext(c) PROVE UNCHANGED <<lpc, current, timestamp, ending, waitLeft, now, lag, age>>
  BY <1>1 DEF CallerNext, CallStep, Call, CallFails, EnqueueTask, EnqueueMsg, EnqueueTimeout, GiveWake, Awaken, Return
<1>2. CASE IsrStart \/ IsrStep \/ UNCHANGED vars
  BY <1>2 DEF IsrStart, IsrStep, IsrWrite, IsrFull, IsrGive, vars
<1> QED
  BY <1>1, <1>2 DEF Elsewhere

LEMMA WorkKeeps ==
  Work => /\ UNCHANGED <<current, timestamp, waitLeft, now, lag, age>>
          /\ lpc' \notin {"wait", "take"}
          /\ lpc' = "endNotify" => ending'.result # "ATC_TIMEOUT"
<1> USE DEF taskVars, timeVars, EndTask
<1>1. CASE ExternHandle \/ ExternGive \/ ExternFree \/ ExternDone
  BY <1>1 DEF ExternHandle, ExternGive, ExternFree, ExternDone
<1>2. CASE SendSkip \/ SendDrop \/ Transmit
  BY <1>2 DEF SendSkip, SendDrop, Transmit
<1>6. CASE TransmitFails
  <2>1. ending' = [result |-> "ATC_HARDWARE_ERROR", from |-> "transmit", of |-> NoTask]
    BY <1>6 DEF TransmitFails
  <2>2. ending'.result = "ATC_HARDWARE_ERROR"
    BY <2>1
  <2> QED
    BY <1>6, <2>2 DEF TransmitFails
<1>3. CASE RecvDone \/ RecvChunk \/ RecvLine
  BY <1>3 DEF RecvDone, RecvChunk, RecvLine
<1>4. CASE RecvPrompt \/ RecvBinary
  BY <1>4 DEF RecvPrompt, RecvBinary
<1>5. CASE EndNotify \/ EndGive
  BY <1>5 DEF EndNotify, EndGive
<1> QED
  BY <1>1, <1>2, <1>3, <1>4, <1>5, <1>6 DEF Work

LEMMA TimeWork ==
  ASSUME TypeOK, TimeInv, Elsewhere \/ Work
  PROVE  TimeInv'
<1>1. CASE Elsewhere
  <2>1. UNCHANGED <<lpc, current, timestamp, ending, waitLeft, now, lag, age>>
    BY <1>1, ElsewhereKeeps
  <2> QED
    BY <2>1 DEF TimeInv, ClockOK, NotEarly, DeadlineOK, DeadlinesFit, Elapsed, Timeout
<1>2. CASE Work
  <2>1. /\ UNCHANGED <<current, timestamp, waitLeft, now, lag, age>> /\ lpc' \notin {"wait", "take"}
        /\ lpc' = "endNotify" => ending'.result # "ATC_TIMEOUT"
    BY <1>2, WorkKeeps
  <2> QED
    BY <2>1 DEF TimeInv, ClockOK, NotEarly, DeadlineOK, DeadlinesFit, Elapsed
<1> QED
  BY <1>1, <1>2

-----------------------------------------------------------------------------
(* Dispatch, the deadline check, the wait and the clock.                    *)

LEMMA TimeSendStart ==
  ASSUME TypeOK, ControlOK, TimeInv, SendStart
  PROVE  TimeInv'
<1>1. /\ lpc' = "transmit" /\ timestamp' = now /\ age' = 0 /\ UNCHANGED <<now, lag, waitLeft>>
  BY DEF SendStart
<1>2. (now - now) % TickMod = 0
  BY TimeTypes
<1>3. ClockOK'
  BY <1>1, <1>2 DEF ClockOK, Elapsed
<1>4. NotEarly'
  BY <1>1 DEF NotEarly
<1>5. TypeOK'
  BY TypeSend
<1>6. DeadlineOK'
  <2> SUFFICES ASSUME current' # NoTask
               PROVE  age' <= current'.req.timeout + Slack + lag'
    BY <1>1 DEF DeadlineOK
  <2>1. current'.req.timeout \in Nat /\ lag' \in Nat /\ Slack \in Nat
    <3>1. current' \in Job /\ lag' \in Nat
      BY <1>5, ConstantsAssumption DEF TypeOK
    <3>2. current'.req.timeout \in Nat
      BY <3>1, RequestsAssumption, ConstantsAssumption DEF Job, Request, ATC_TIMEOUT_MAX
    <3> QED
      BY <3>1, <3>2, TimeTypes
  <2> QED
    BY <1>1, <2>1
<1> QED
  BY <1>3, <1>4, <1>6 DEF TimeInv

LEMMA TimeEndFree ==
  ASSUME EndFree
  PROVE  TimeInv'
BY DEF EndFree, TimeInv, ClockOK, NotEarly, DeadlineOK

LEMMA TimeCheckTimeout ==
  ASSUME TypeOK, TimeInv, CheckTimeout
  PROVE  TimeInv'
<1>1. /\ UNCHANGED <<current, timestamp, now, lag, age, waitLeft>>
      /\ IF current # NoTask /\ Elapsed >= Timeout(current) THEN lpc' = "endNotify" ELSE lpc' = "wait"
  BY DEF CheckTimeout, EndTask, timeVars
<1>2. Elapsed \in 0 .. TickMod - 1
  BY ElapsedType DEF ATC_TIMEOUT_MAX
<1>3. ClockOK'
  BY <1>1 DEF TimeInv, ClockOK, Elapsed
<1>4. NotEarly'
  <2> SUFFICES ASSUME current # NoTask, Elapsed >= Timeout(current)
               PROVE  age >= Timeout(current)
    BY <1>1 DEF NotEarly, Timeout
  <2> QED
    BY <1>2, TimeTypes DEF TimeInv, ClockOK
<1>5. ASSUME DeadlinesFit PROVE DeadlineOK'
  <2> SUFFICES ASSUME current # NoTask, current.req.timeout # 0
               PROVE  /\ age <= current.req.timeout + Slack + lag
                      /\ lpc' = "wait" => age < current.req.timeout + lag
    BY <1>1 DEF DeadlineOK
  <2>1. age <= current.req.timeout + Slack + lag
    BY <1>5 DEF TimeInv, DeadlineOK
  <2>2. age < TickMod
    BY <1>5, <2>1, DeadlineFits, TimeTypes DEF Slack
  <2>3. Timeout(current) = current.req.timeout
    BY DEF Timeout
  <2> QED
    BY <1>1, <2>1, <2>2, <2>3, TimeTypes DEF TimeInv, ClockOK
<1> QED
  BY <1>3, <1>4, <1>5 DEF TimeInv, DeadlinesFit

LEMMA TimeComputeWait ==
  ASSUME TypeOK, TimeInv, ComputeWait
  PROVE  TimeInv'
<1>1. /\ lpc = "wait" /\ lpc' = "take" /\ lag' = 0 /\ UNCHANGED <<current, timestamp, now, age>>
      /\ current # NoTask => waitLeft' = Remaining
  BY DEF ComputeWait, taskVars
<1>2. ClockOK' /\ NotEarly'
  BY <1>1 DEF TimeInv, ClockOK, NotEarly, Elapsed
<1>3. ASSUME DeadlinesFit PROVE DeadlineOK'
  <2> SUFFICES ASSUME current # NoTask, current.req.timeout # 0
               PROVE  /\ age <= current.req.timeout + Slack + lag'
                      /\ age + waitLeft' <= current.req.timeout + Slack + lag'
                      /\ waitLeft' # 0 => age + waitLeft' = current.req.timeout
    BY <1>1 DEF DeadlineOK
  <2>1. age < current.req.timeout + lag
    BY <1>1, <1>3 DEF TimeInv, DeadlineOK
  <2>2. age < TickMod /\ age <= current.req.timeout + Slack
    BY <1>3, <2>1, DeadlineFits, TimeTypes DEF Slack
  <2>3. Elapsed = age /\ Timeout(current) = current.req.timeout
    BY <2>2 DEF TimeInv, ClockOK, Timeout
  <2>4. waitLeft' = IF age < current.req.timeout THEN current.req.timeout - age ELSE 0
    BY <1>1, <2>3 DEF Remaining
  <2> QED
    BY <1>1, <2>2, <2>4, TimeTypes
<1> QED
  BY <1>2, <1>3 DEF TimeInv, DeadlinesFit

LEMMA TimeTake ==
  ASSUME TypeOK, TimeInv, Take
  PROVE  TimeInv'
<1>1. lpc = "take" /\ lpc' = "extern" /\ UNCHANGED <<current, timestamp, now, lag, age>>
  BY DEF Take, taskVars
<1> QED
  BY <1>1 DEF TimeInv, ClockOK, NotEarly, DeadlineOK, DeadlinesFit, Elapsed

LEMMA TimeTick ==
  ASSUME TypeOK, TimeInv, Tick
  PROVE  TimeInv'
<1>1. /\ current # NoTask /\ UNCHANGED <<lpc, current, timestamp, ending>>
      /\ IF Asleep THEN lag' = lag ELSE lag' = lag + 1
      /\ now' = (now + 1) % TickMod
      /\ age' = IF age < TickMod THEN age + 1 ELSE age
      /\ waitLeft' = IF lpc = "take" /\ waitLeft \notin {0, ATC_TIMEOUT_MAX} THEN waitLeft - 1 ELSE waitLeft
  BY DEF Tick, taskVars
<1>2. ClockOK'
  <2> SUFFICES ASSUME age' < TickMod PROVE Elapsed' = age'
    BY DEF ClockOK
  <2>1. age < TickMod - 1 /\ age' = age + 1
    BY <1>1, TimeTypes
  <2>2. (now - timestamp) % TickMod = age
    BY <1>1, <2>1, TimeTypes DEF TimeInv, ClockOK, Elapsed
  <2>3. (((now + 1) % TickMod) - timestamp) % TickMod = ((now - timestamp) % TickMod) + 1
    BY <2>1, <2>2, TickPasses, TimeTypes
  <2> QED
    BY <1>1, <2>1, <2>2, <2>3 DEF Elapsed
<1>3. NotEarly'
  BY <1>1, TimeTypes DEF TimeInv, NotEarly, Timeout
<1>4. ASSUME DeadlinesFit, current.req.timeout # 0 PROVE DeadlineOK'
  <2> DEFINE limit == current.req.timeout
  <2>1. /\ age <= limit + Slack + lag
        /\ lpc = "wait" => age < limit + lag
        /\ lpc = "take" => age + waitLeft <= limit + Slack + lag /\ (waitLeft # 0 => age + waitLeft = limit)
    BY <1>1, <1>4 DEF TimeInv, DeadlineOK
  <2>2. limit \in 1 .. TickMod - 2 /\ limit + 2 * MaxLag <= TickMod
    BY <1>1, <1>4, DeadlineFits, TimeTypes
  <2>3. current' = current /\ lpc' = lpc
    BY <1>1
  <2> HIDE DEF limit
  <2>4. CASE Asleep
    <3>1. lpc = "take" /\ waitLeft # 0 /\ lag' = lag
      BY <1>1, <2>4 DEF Asleep
    <3>2. age + waitLeft = limit /\ waitLeft < TickMod - 1 /\ age < TickMod
      BY <2>1, <2>2, <3>1, TimeTypes
    <3>3. age' = age + 1 /\ waitLeft' = waitLeft - 1
      BY <1>1, <3>1, <3>2, TimeTypes DEF ATC_TIMEOUT_MAX
    <3>4. age' + waitLeft' = limit /\ age' <= limit
      BY <3>1, <3>2, <3>3, TimeTypes
    <3>5. limit <= limit + Slack + lag'
      BY <2>2, <3>1, TimeTypes
    <3>6. age' \in Nat /\ limit \in Nat /\ Slack \in Nat /\ lag' \in Nat
      BY <2>2, <3>1, <3>3, TimeTypes
    <3> QED
      BY <2>3, <3>1, <3>4, <3>5, <3>6 DEF DeadlineOK, limit
  <2>5. CASE ~Asleep
    <3>1. lag' = lag + 1 /\ age' \in {age, age + 1}
      BY <1>1, <2>5
    <3>2. age' <= limit + Slack + lag' /\ (lpc = "wait" => age' < limit + lag')
      BY <2>1, <2>2, <3>1, TimeTypes
    <3>3. ASSUME lpc = "take"
          PROVE  age' + waitLeft' <= limit + Slack + lag' /\ (waitLeft' # 0 => age' + waitLeft' = limit)
      <4>1. CASE waitLeft = 0
        BY <1>1, <2>1, <2>2, <3>1, <3>3, <4>1, TimeTypes
      <4>2. CASE waitLeft # 0
        <5>1. age + waitLeft = limit
          BY <2>1, <3>3, <4>2
        <5>2. age < TickMod /\ waitLeft < TickMod - 1
          BY <2>2, <4>2, <5>1, TimeTypes
        <5>3. age' = age + 1 /\ waitLeft' = waitLeft - 1
          BY <1>1, <3>3, <4>2, <5>2, TimeTypes DEF ATC_TIMEOUT_MAX
        <5> QED
          BY <2>2, <3>1, <5>1, <5>3, TimeTypes
      <4> QED
        BY <4>1, <4>2
    <3> QED
      BY <2>3, <3>2, <3>3 DEF DeadlineOK, limit
  <2> QED
    BY <2>4, <2>5
<1>5. current'.req.timeout = 0 => DeadlineOK'
  BY DEF DeadlineOK
<1> QED
  BY <1>1, <1>2, <1>3, <1>4, <1>5 DEF TimeInv, DeadlinesFit

LEMMA TimeNext == FrameInv /\ TimeInv /\ [Next]_vars => TimeInv'
<1>1. FrameInv => TypeOK /\ ControlOK
  BY DEF FrameInv
<1> QED
  BY <1>1, TimeSteps, TimeWork, TimeSendStart, TimeEndFree, TimeCheckTimeout, TimeComputeWait, TimeTake, TimeTick

LEMMA TimeInvariant == Spec => [](TypeOK /\ TimeInv)
<1>1. FrameInv => TypeOK
  BY DEF FrameInv
<1> QED
  BY <1>1, FrameInvariant, TimeInit, TimeNext, PTL DEF Spec

-----------------------------------------------------------------------------
(* The theorems.                                                            *)

\* No command ends as timed out before its time, for every timeout, every
\* value of the tick at dispatch and every scheduling: the wrap of the
\* 32-bit difference never makes CheckTimeout fire early.
THEOREM NeverTooEarly == Spec => []NotEarly
<1>1. TimeInv => NotEarly
  BY DEF TimeInv
<1> QED
  BY <1>1, TimeInvariant, PTL

\* A command that asked for a timeout ends within the lag of two rounds of its
\* deadline. The premise keeps the deadline away from the values the code
\* cannot tell apart: a timeout of ATC_TIMEOUT_MAX, which means forever, and a
\* deadline so far off that the ticks since dispatch start again at 0 before
\* the loop thread can look.
THEOREM DeadlineKept == DeadlinesFit => (Spec => []TimeoutWindow)
<1> SUFFICES ASSUME DeadlinesFit PROVE Spec => []TimeoutWindow
  OBVIOUS
<1>1. TypeOK /\ TimeInv => TimeoutWindow
  <2> SUFFICES ASSUME TypeOK, TimeInv, current # NoTask
               PROVE  /\ lpc = "endNotify" /\ ending.result = "ATC_TIMEOUT" => age >= Timeout(current)
                      /\ current.req.timeout # 0 => age <= current.req.timeout + 2 * MaxLag
    BY DEF TimeoutWindow, Timeout
  <2>1. lpc = "endNotify" /\ ending.result = "ATC_TIMEOUT" => age >= Timeout(current)
    BY DEF TimeInv, NotEarly
  <2>2. ASSUME current.req.timeout # 0 PROVE age <= current.req.timeout + 2 * MaxLag
    <3>1. age <= current.req.timeout + Slack + lag
      BY <2>2 DEF TimeInv, DeadlineOK
    <3>2. Slack <= MaxLag
      BY TimeTypes DEF Slack
    <3> QED
      BY <3>1, <3>2, TimeTypes
  <2> QED
    BY <2>1, <2>2
<1> QED
  BY <1>1, TimeInvariant, PTL

\* The wait that atc_process computes while a command runs ends exactly at the
\* command's deadline, however late in the round it is computed.
THEOREM SleepEndsAtDeadline == DeadlinesFit => (Spec => []NeverOversleeps)
<1> SUFFICES ASSUME DeadlinesFit PROVE Spec => []NeverOversleeps
  OBVIOUS
<1>1. TypeOK /\ TimeInv => NeverOversleeps
  <2> SUFFICES ASSUME TypeOK, TimeInv, Asleep, current # NoTask, current.req.timeout # 0
               PROVE  age + waitLeft = current.req.timeout
    BY DEF NeverOversleeps
  <2>1. lpc = "take" /\ waitLeft # 0
    BY TimeTypes DEF Asleep
  <2> QED
    BY <2>1 DEF TimeInv, DeadlineOK
<1> QED
  BY <1>1, TimeInvariant, PTL
===============================================================================
