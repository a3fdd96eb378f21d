--------------------------- MODULE EventLoop_proofs ---------------------------
(***************************************************************************)
(* Theorems about EventLoop, for every value of its constants.             *)
(***************************************************************************)
EXTENDS EventLoop, SequenceTheorems, TLAPS

-----------------------------------------------------------------------------
(* Data.                                                                    *)

LEMMA TicketsOfCallers == \A t \in Tickets : t[1] \in Callers
BY DEF Tickets

LEMMA NoTaskIsNone == NoTask \notin Job /\ NoTask \notin Tickets
BY ConstantsAssumption

LEMMA NextIdType == \A id \in UrcId : NextId(id) \in UrcId
BY IntMaxAssumption DEF UrcId, NextId

LEMMA RangeTail ==
  ASSUME NEW S, NEW q \in Seq(S), q # <<>>
  PROVE  Head(q) \in Range(q) /\ Range(Tail(q)) \subseteq Range(q)
<1>1. /\ Len(q) \in Nat \ {0} /\ DOMAIN q = 1 .. Len(q) /\ Head(q) = q[1]
      /\ DOMAIN Tail(q) = 1 .. Len(q) - 1 /\ \A i \in 1 .. Len(q) - 1 : Tail(q)[i] = q[i + 1]
  BY HeadTailProperties, LenProperties
<1>2. Head(q) \in Range(q)
  BY <1>1 DEF Range
<1>3. ASSUME NEW i \in DOMAIN Tail(q) PROVE Tail(q)[i] \in Range(q)
  <2>1. i + 1 \in DOMAIN q /\ Tail(q)[i] = q[i + 1]
    BY <1>1
  <2> QED
    BY <2>1 DEF Range
<1> QED
  BY <1>2, <1>3 DEF Range

LEMMA RangeAppend ==
  ASSUME NEW S, NEW q \in Seq(S), NEW e \in S
  PROVE  Range(Append(q, e)) = Range(q) \cup {e}
<1>1. /\ Len(q) \in Nat /\ DOMAIN q = 1 .. Len(q) /\ DOMAIN Append(q, e) = 1 .. Len(q) + 1
      /\ \A i \in 1 .. Len(q) : Append(q, e)[i] = q[i]
      /\ Append(q, e)[Len(q) + 1] = e
  BY AppendProperties, LenProperties
<1>2. 1 .. Len(q) + 1 = (1 .. Len(q)) \cup {Len(q) + 1}
  BY <1>1
<1> QED
  BY <1>1, <1>2 DEF Range

-----------------------------------------------------------------------------
(* Type correctness.                                                        *)

LEMMA TypeInit == Init => TypeOK
<1> SUFFICES ASSUME Init PROVE TypeOK
  OBVIOUS
<1>1. /\ apiQueue \in Seq(Job) /\ Len(apiQueue) <= ApiQueueLen
      /\ sendQueue \in Seq(Job) /\ Len(sendQueue) <= SendQueueLen
      /\ rx \in Seq(Item) /\ Len(rx) <= RxCap
      /\ isrBuf \in Seq(Item) /\ modem \in Seq(Item)
  BY ConstantsAssumption, EmptySeq DEF Init
<1>2. /\ cpc \in [Callers -> {"idle", "enqueue", "giveWake", "await", "delete"}]
      /\ job \in [Callers -> Job \cup {NoTask}]
      /\ calls \in [Callers -> 0 .. MaxCalls]
      /\ out \in [Callers -> [result : Results \cup {"unset"}, value : Nat]]
      /\ delivered \in [Tickets -> Results \cup {"none"}]
  BY ConstantsAssumption DEF Init
<1>3. /\ timestamp \in 0 .. ATC_TIMEOUT_MAX /\ now \in 0 .. ATC_TIMEOUT_MAX
      /\ waitLeft \in 0 .. ATC_TIMEOUT_MAX /\ lag \in 0 .. MaxLag /\ age \in 0 .. TickMod
      /\ respLen \in 0 .. ResponseMax /\ urcLeft \in 0 .. UrcBudget
      /\ urcIds \subseteq UrcId /\ urcNextId \in UrcId
  BY ConstantsAssumption, IntMaxAssumption DEF Init, ATC_TIMEOUT_MAX, UrcId
<1>4. ending \in [result : Results, from : {"transmit", "recv", "prompt", "timeout"}, of : Tickets \cup {NoTask}]
  BY DEF Init, NotEnding, Results
<1> QED
  BY <1>1, <1>2, <1>3, <1>4 DEF Init, TypeOK

\* The blocks of a call are known kinds of allocation.
LEMMA AllocType == ASSUME NEW j \in Job PROVE Range(AllocOrder(j.req)) \subseteq BlockKinds
<1>1. CASE j.req.api \in MsgApis
  BY <1>1 DEF AllocOrder, Range, BlockKinds
<1>2. CASE j.req.api \notin MsgApis /\ j.req.api = "send"
  BY <1>2 DEF AllocOrder, Range, BlockKinds
<1>3. CASE j.req.api \notin MsgApis /\ j.req.api # "send" /\ j.req.sync
  <2>1. AllocOrder(j.req) = <<"data", "sem", "prompt">>
    BY <1>3 DEF AllocOrder
  <2> QED
    BY <2>1 DEF Range, BlockKinds
<1>4. CASE j.req.api \notin MsgApis /\ j.req.api # "send" /\ ~j.req.sync
  <2>1. AllocOrder(j.req) = <<"data", "prompt">>
    BY <1>4 DEF AllocOrder
  <2> QED
    BY <2>1 DEF Range, BlockKinds
<1> QED
  BY <1>1, <1>2, <1>3, <1>4

LEMMA BlocksType == \A j \in Job : Blocks(j) \subseteq Tickets \X BlockKinds
<1> TAKE j \in Job
<1>1. j.id \in Tickets
  BY DEF Job
<1> QED
  BY <1>1, AllocType DEF Blocks

\* TypeOK in parts, as the actions change them.
ThreadsTyped ==
  /\ cpc \in [Callers -> {"idle", "enqueue", "giveWake", "await", "delete"}]
  /\ job \in [Callers -> Job \cup {NoTask}]
  /\ calls \in [Callers -> 0 .. MaxCalls]
  /\ out \in [Callers -> [result : Results \cup {"unset"}, value : Nat]]
SharedTyped ==
  /\ apiQueue \in Seq(Job) /\ Len(apiQueue) <= ApiQueueLen
  /\ sendQueue \in Seq(Job) /\ Len(sendQueue) <= SendQueueLen
  /\ wake \in BOOLEAN /\ given \subseteq Tickets
  /\ heap \subseteq Tickets \X BlockKinds
LoopTyped ==
  /\ lpc \in {"extern", "externGive", "externFree", "send", "transmit", "recv", "endNotify", "endGive",
              "endFree", "timeout", "wait", "take", "trap"}
  /\ rmsg \in Job \cup {NoTask} /\ current \in Job \cup {NoTask}
  /\ status \in {"LINE_RECV", "PROMPT", "BINARY"}
  /\ timestamp \in 0 .. ATC_TIMEOUT_MAX
  /\ respLen \in 0 .. ResponseMax
  /\ ending \in [result : Results, from : {"transmit", "recv", "prompt", "timeout"}, of : Tickets \cup {NoTask}]
  /\ urcIds \subseteq UrcId /\ urcNextId \in UrcId
  /\ delivered \in [Tickets -> Results \cup {"none"}]
TimeTyped ==
  /\ now \in 0 .. ATC_TIMEOUT_MAX
  /\ waitLeft \in 0 .. ATC_TIMEOUT_MAX /\ lag \in 0 .. MaxLag /\ age \in 0 .. TickMod
LineTyped ==
  /\ rx \in Seq(Item) /\ Len(rx) <= RxCap /\ partial \in BOOLEAN
  /\ isrPc \in {"idle", "write"} /\ isrBuf \in Seq(Item) /\ modem \in Seq(Item)
  /\ urcLeft \in 0 .. UrcBudget

LEMMA TypeParts == TypeOK <=> ThreadsTyped /\ SharedTyped /\ LoopTyped /\ TimeTyped /\ LineTyped
BY Zenon DEF TypeOK, ThreadsTyped, SharedTyped, LoopTyped, TimeTyped, LineTyped

LEMMA TypePartsNext == (ThreadsTyped /\ SharedTyped /\ LoopTyped /\ TimeTyped /\ LineTyped)' => TypeOK'
BY TypeParts, PTL

LEMMA TypeCall ==
  ASSUME TypeOK, NEW c \in Callers, NEW req \in Requests, Call(c, req)
  PROVE  TypeOK'
<1> DEFINE j == [id |-> <<c, calls[c] + 1>>, req |-> req]
<1>1. j \in Job
  <2>1. calls[c] + 1 \in 1 .. MaxCalls
    BY ConstantsAssumption DEF TypeOK, Call
  <2> QED
    BY <2>1, RequestsAssumption DEF Job, Tickets
<1>2. heap' \subseteq Tickets \X BlockKinds
  BY <1>1, BlocksType DEF TypeOK, Call
<1>3. job' \in [Callers -> Job \cup {NoTask}]
  <2>1. job' = [job EXCEPT ![c] = j]
    BY DEF Call
  <2>2. job \in [Callers -> Job \cup {NoTask}]
    BY DEF TypeOK
  <2> HIDE DEF j
  <2> QED
    BY <1>1, <2>1, <2>2
<1>4. calls' \in [Callers -> 0 .. MaxCalls]
  <2>1. calls[c] < MaxCalls /\ calls' = [calls EXCEPT ![c] = @ + 1]
    BY DEF Call
  <2>2. calls \in [Callers -> 0 .. MaxCalls] /\ MaxCalls \in Nat
    BY ConstantsAssumption DEF TypeOK
  <2> QED
    BY <2>1, <2>2
<1>5. out' \in [Callers -> [result : Results \cup {"unset"}, value : Nat]]
  <2>1. out' = [out EXCEPT ![c] = [result |-> "unset", value |-> IF req.api \in MsgApis THEN 0 ELSE BufLen]]
    BY DEF Call
  <2>2. out \in [Callers -> [result : Results \cup {"unset"}, value : Nat]] /\ BufLen \in Nat
    BY ConstantsAssumption DEF TypeOK
  <2> QED
    BY <2>1, <2>2
<1>6. cpc' \in [Callers -> {"idle", "enqueue", "giveWake", "await", "delete"}]
  <2>1. cpc' = [cpc EXCEPT ![c] = "enqueue"] /\ cpc \in [Callers -> {"idle", "enqueue", "giveWake", "await", "delete"}]
    BY DEF TypeOK, Call
  <2> QED
    BY <2>1
<1>7. UNCHANGED <<queueVars, wake, given, lpc, rmsg, taskVars, timeVars, urcVars, rx, partial, lineVars, delivered>>
  BY DEF Call
<1> QED
  <2>1. ThreadsTyped'
    BY <1>3, <1>4, <1>5, <1>6 DEF ThreadsTyped, callVars, queueVars, taskVars, timeVars, urcVars, lineVars
  <2>2. SharedTyped'
    BY <1>2, <1>7, TypeParts DEF SharedTyped, callVars, queueVars, taskVars, timeVars, urcVars, lineVars
  <2>3. LoopTyped'
    BY <1>7, TypeParts DEF LoopTyped, callVars, queueVars, taskVars, timeVars, urcVars, lineVars
  <2>4. TimeTyped'
    BY <1>7, TypeParts DEF TimeTyped, callVars, queueVars, taskVars, timeVars, urcVars, lineVars
  <2>5. LineTyped'
    BY <1>7, TypeParts DEF LineTyped, callVars, queueVars, taskVars, timeVars, urcVars, lineVars
  <2> QED
    BY <2>1, <2>2, <2>3, <2>4, <2>5, TypePartsNext

LEMMA TypeCallFails ==
  ASSUME TypeOK, NEW c \in Callers, NEW req \in Requests, CallFails(c, req)
  PROVE  TypeOK'
<1>1. heap' = heap
  BY DEF CallFails, Unwound
<1>2. calls[c] < MaxCalls /\ calls' = [calls EXCEPT ![c] = @ + 1]
  BY DEF CallFails
<1>3. calls' \in [Callers -> 0 .. MaxCalls]
  <2>1. calls \in [Callers -> 0 .. MaxCalls] /\ MaxCalls \in Nat
    BY ConstantsAssumption DEF TypeOK
  <2> QED
    BY <1>2, <2>1
<1>4. UNCHANGED <<cpc, job, out, queueVars, wake, given, lpc, rmsg, taskVars, timeVars, urcVars, rx, partial,
                  lineVars, delivered>>
  BY DEF CallFails
<1> QED
  <2>1. ThreadsTyped'
    BY <1>3, <1>4, TypeParts DEF ThreadsTyped, callVars, queueVars, taskVars, timeVars, urcVars, lineVars
  <2>2. SharedTyped'
    BY <1>1, <1>4, TypeParts DEF SharedTyped, callVars, queueVars, taskVars, timeVars, urcVars, lineVars
  <2>3. LoopTyped'
    BY <1>4, TypeParts DEF LoopTyped, callVars, queueVars, taskVars, timeVars, urcVars, lineVars
  <2>4. TimeTyped'
    BY <1>4, TypeParts DEF TimeTyped, callVars, queueVars, taskVars, timeVars, urcVars, lineVars
  <2>5. LineTyped'
    BY <1>4, TypeParts DEF LineTyped, callVars, queueVars, taskVars, timeVars, urcVars, lineVars
  <2> QED
    BY <2>1, <2>2, <2>3, <2>4, <2>5, TypePartsNext

\* A step of a call that allocates and queues nothing keeps the types.
LEMMA TypeFewer ==
  ASSUME TypeOK,
         cpc' \in [Callers -> {"idle", "enqueue", "giveWake", "await", "delete"}],
         job' \in [Callers -> Job \cup {NoTask}],
         wake' \in {wake, TRUE}, given' \subseteq given, heap' \subseteq heap,
         UNCHANGED <<calls, out, queueVars, lpc, rmsg, taskVars, timeVars, urcVars, rx, partial, lineVars, delivered>>
  PROVE  TypeOK'
<1> USE DEF queueVars, taskVars, timeVars, urcVars, lineVars
<1>1. ThreadsTyped'
  BY TypeParts DEF ThreadsTyped
<1>2. SharedTyped'
  <2>1. wake' \in BOOLEAN
    BY DEF TypeOK
  <2> QED
    BY <2>1, TypeParts DEF SharedTyped
<1>3. LoopTyped'
  BY TypeParts DEF LoopTyped
<1>4. TimeTyped'
  BY TypeParts DEF TimeTyped
<1>5. LineTyped'
  BY TypeParts DEF LineTyped
<1> QED
  BY <1>1, <1>2, <1>3, <1>4, <1>5, TypePartsNext

LEMMA TypeCallStep ==
  ASSUME TypeOK, ControlOK, NEW c \in Callers, CallStep(c)
  PROVE  TypeOK'
<1> USE DEF callVars, queueVars, taskVars, timeVars, urcVars, lineVars
<1>0. cpc[c] # "idle" => job[c] \in Job
  BY DEF ControlOK
<1>1. CASE EnqueueTask(c)
  <2>1. sendQueue' \in Seq(Job) /\ Len(sendQueue') <= SendQueueLen
    BY <1>0, <1>1, AppendProperties, ConstantsAssumption DEF TypeOK, EnqueueTask
  <2>2. /\ cpc' = [cpc EXCEPT ![c] = "giveWake"]
        /\ UNCHANGED <<job, calls, out, apiQueue, wake, given, heap, lpc, rmsg, taskVars, timeVars, urcVars, rx, partial,
                       lineVars, delivered>>
    BY <1>1 DEF EnqueueTask
  <2>3. cpc' \in [Callers -> {"idle", "enqueue", "giveWake", "await", "delete"}]
    BY <2>2 DEF TypeOK
  <2> QED
    <3>1. ThreadsTyped'
      BY <2>2, <2>3, TypeParts DEF ThreadsTyped
    <3>2. SharedTyped'
      BY <2>1, <2>2, TypeParts DEF SharedTyped
    <3>3. LoopTyped'
      BY <2>2, TypeParts DEF LoopTyped
    <3>4. TimeTyped'
      BY <2>2, TypeParts DEF TimeTyped
    <3>5. LineTyped'
      BY <2>2, TypeParts DEF LineTyped
    <3> QED
      BY <3>1, <3>2, <3>3, <3>4, <3>5, TypePartsNext
<1>2. CASE EnqueueMsg(c)
  <2>1. apiQueue' \in Seq(Job) /\ Len(apiQueue') <= ApiQueueLen
    BY <1>0, <1>2, AppendProperties, ConstantsAssumption DEF TypeOK, EnqueueMsg
  <2>2. /\ cpc' = [cpc EXCEPT ![c] = "giveWake"]
        /\ UNCHANGED <<job, calls, out, sendQueue, wake, given, heap, lpc, rmsg, taskVars, timeVars, urcVars, rx, partial,
                       lineVars, delivered>>
    BY <1>2 DEF EnqueueMsg
  <2>3. cpc' \in [Callers -> {"idle", "enqueue", "giveWake", "await", "delete"}]
    BY <2>2 DEF TypeOK
  <2> QED
    <3>1. ThreadsTyped'
      BY <2>2, <2>3, TypeParts DEF ThreadsTyped
    <3>2. SharedTyped'
      BY <2>1, <2>2, TypeParts DEF SharedTyped
    <3>3. LoopTyped'
      BY <2>2, TypeParts DEF LoopTyped
    <3>4. TimeTyped'
      BY <2>2, TypeParts DEF TimeTyped
    <3>5. LineTyped'
      BY <2>2, TypeParts DEF LineTyped
    <3> QED
      BY <3>1, <3>2, <3>3, <3>4, <3>5, TypePartsNext
<1>3. CASE EnqueueTimeout(c)
  <2>1. /\ cpc' = [cpc EXCEPT ![c] = "idle"]
        /\ job' = [job EXCEPT ![c] = NoTask] /\ wake' \in {wake, TRUE}
        /\ given' \subseteq given /\ heap' \subseteq heap
        /\ UNCHANGED <<calls, out, queueVars, lpc, rmsg, taskVars, timeVars, urcVars, rx, partial, lineVars, delivered>>
    BY <1>3 DEF EnqueueTimeout
  <2>2. job' \in [Callers -> Job \cup {NoTask}]
    BY <2>1 DEF TypeOK
  <2>3. cpc' \in [Callers -> {"idle", "enqueue", "giveWake", "await", "delete"}]
    BY <2>1 DEF TypeOK
  <2> QED
    BY <2>1, <2>2, <2>3, TypeFewer
<1>4. CASE GiveWake(c)
  <2>1. /\ cpc' = [cpc EXCEPT ![c] = IF job[c].req.sync THEN "await" ELSE "idle"]
        /\ job' = [job EXCEPT ![c] = IF job[c].req.sync THEN @ ELSE NoTask] /\ wake' \in {wake, TRUE}
        /\ given' \subseteq given /\ heap' \subseteq heap
        /\ UNCHANGED <<calls, out, queueVars, lpc, rmsg, taskVars, timeVars, urcVars, rx, partial, lineVars, delivered>>
    BY <1>4 DEF GiveWake
  <2>2. job' \in [Callers -> Job \cup {NoTask}]
    BY <2>1 DEF TypeOK
  <2>3. cpc' \in [Callers -> {"idle", "enqueue", "giveWake", "await", "delete"}]
    BY <2>1 DEF TypeOK
  <2> QED
    BY <2>1, <2>2, <2>3, TypeFewer
<1>5. CASE Awaken(c)
  <2>1. /\ cpc' = [cpc EXCEPT ![c] = "delete"]
        /\ job' = job /\ wake' \in {wake, TRUE}
        /\ given' \subseteq given /\ heap' \subseteq heap
        /\ UNCHANGED <<calls, out, queueVars, lpc, rmsg, taskVars, timeVars, urcVars, rx, partial, lineVars, delivered>>
    BY <1>5 DEF Awaken
  <2>2. job' \in [Callers -> Job \cup {NoTask}]
    BY <2>1 DEF TypeOK
  <2>3. cpc' \in [Callers -> {"idle", "enqueue", "giveWake", "await", "delete"}]
    BY <2>1 DEF TypeOK
  <2> QED
    BY <2>1, <2>2, <2>3, TypeFewer
<1>6. CASE Return(c)
  <2>1. /\ cpc' = [cpc EXCEPT ![c] = "idle"]
        /\ job' = [job EXCEPT ![c] = NoTask] /\ wake' \in {wake, TRUE}
        /\ given' \subseteq given /\ heap' \subseteq heap
        /\ UNCHANGED <<calls, out, queueVars, lpc, rmsg, taskVars, timeVars, urcVars, rx, partial, lineVars, delivered>>
    BY <1>6 DEF Return
  <2>2. job' \in [Callers -> Job \cup {NoTask}]
    BY <2>1 DEF TypeOK
  <2>3. cpc' \in [Callers -> {"idle", "enqueue", "giveWake", "await", "delete"}]
    BY <2>1 DEF TypeOK
  <2> QED
    BY <2>1, <2>2, <2>3, TypeFewer
<1> QED
  BY <1>1, <1>2, <1>3, <1>4, <1>5, <1>6 DEF CallStep

LEMMA TypeExtern ==
  ASSUME TypeOK, ControlOK, ExternHandle \/ ExternGive \/ ExternFree \/ ExternDone
  PROVE  TypeOK'
<1> USE DEF callVars, queueVars, taskVars, timeVars, urcVars, lineVars
<1>1. CASE ExternHandle
  <2>1. apiQueue \in Seq(Job) /\ apiQueue # <<>>
    BY <1>1 DEF TypeOK, ExternHandle
  <2>2. /\ Head(apiQueue) \in Job
        /\ apiQueue' \in Seq(Job) /\ Len(apiQueue') <= ApiQueueLen
    BY <1>1, <2>1, HeadTailProperties, ConstantsAssumption DEF TypeOK, ExternHandle
  <2>3. Head(apiQueue).id[1] \in Callers
    BY <2>2, TicketsOfCallers DEF Job
  <2>4. /\ urcIds' \subseteq UrcId /\ urcNextId' \in UrcId
        /\ out' \in [Callers -> [result : Results \cup {"unset"}, value : Nat]]
    <3> DEFINE d == Head(apiQueue).id[1]
               k == Head(apiQueue).req.arg
    <3>1. CASE RegisterUrc(d)
      <4>1. PICK id \in UrcId :
              /\ urcNextId' = NextId(id)
              /\ \/ /\ urcIds' = urcIds \cup {id}
                    /\ out' = [out EXCEPT ![d] = [result |-> "ATC_SUCCESS", value |-> id]]
                 \/ /\ out' = [out EXCEPT ![d] = [result |-> "ATC_ERROR", value |-> 0]]
                    /\ urcIds' = urcIds
        BY <3>1 DEF RegisterUrc
      <4>2. id \in Nat
        BY IntMaxAssumption DEF UrcId
      <4>3. urcNextId' \in UrcId
        BY <4>1, NextIdType
      <4>4. urcIds' \subseteq UrcId
        BY <4>1 DEF TypeOK
      <4>5. /\ [result |-> "ATC_SUCCESS", value |-> id] \in [result : Results \cup {"unset"}, value : Nat]
            /\ [result |-> "ATC_ERROR", value |-> 0] \in [result : Results \cup {"unset"}, value : Nat]
        BY <4>2 DEF Results
      <4>6. out' \in [Callers -> [result : Results \cup {"unset"}, value : Nat]]
        BY <2>3, <4>1, <4>5 DEF TypeOK
      <4> QED
        BY <4>3, <4>4, <4>6
    <3>2. CASE UnregisterUrc(d, k)
      BY <2>3, <3>2 DEF TypeOK, UnregisterUrc, Results
    <3> QED
      BY <1>1, <3>1, <3>2 DEF ExternHandle
  <2>5. rmsg' \in Job /\ lpc' = "externGive"
    BY <1>1, <2>2 DEF ExternHandle
  <2>6. UNCHANGED <<cpc, job, calls, sendQueue, wake, given, heap, taskVars, timeVars, rx, partial, lineVars, delivered>>
    BY <1>1 DEF ExternHandle
  <2> QED
    BY <2>2, <2>4, <2>5, <2>6 DEF TypeOK
<1>2. CASE ExternGive
  <2>1. rmsg.id \in Tickets
    BY <1>2 DEF ControlOK, ExternGive, Job
  <2> QED
    BY <1>2, <2>1 DEF TypeOK, ExternGive
<1>3. CASE ExternFree
  BY <1>3 DEF TypeOK, ExternFree
<1>4. CASE ExternDone
  BY <1>4 DEF TypeOK, ExternDone
<1> QED
  BY <1>1, <1>2, <1>3, <1>4

LEMMA TypeSend ==
  ASSUME TypeOK, ControlOK, SendSkip \/ SendStart \/ SendDrop \/ Transmit \/ TransmitFails
  PROVE  TypeOK'
<1> USE DEF callVars, queueVars, taskVars, timeVars, urcVars, lineVars
<1>1. CASE SendSkip
  BY <1>1 DEF TypeOK, SendSkip
<1>2. CASE SendStart
  <2>1. sendQueue \in Seq(Job) /\ sendQueue # <<>>
    BY <1>2 DEF TypeOK, SendStart, Startable
  <2>2. /\ Head(sendQueue) \in Job
        /\ sendQueue' \in Seq(Job) /\ Len(sendQueue') <= SendQueueLen
    BY <1>2, <2>1, HeadTailProperties, ConstantsAssumption DEF TypeOK, SendStart
  <2>3. current' \in Job /\ heap' \subseteq Tickets \X BlockKinds
    BY <1>2, <2>2 DEF TypeOK, SendStart, Job, BlockKinds
  <2>4. /\ status' \in {"LINE_RECV", "PROMPT", "BINARY"} /\ lpc' = "transmit"
        /\ respLen' = 0 /\ timestamp' = now /\ age' = 0
    BY <1>2 DEF SendStart
  <2>5. UNCHANGED <<callVars, apiQueue, wake, given, rmsg, ending, waitLeft, now, lag, urcVars, rx, partial, lineVars,
                    delivered>>
    BY <1>2 DEF SendStart
  <2> QED
    BY <2>2, <2>3, <2>4, <2>5, ConstantsAssumption DEF TypeOK
<1>3. CASE SendDrop
  <2>1. sendQueue' \in Seq(Job) /\ Len(sendQueue') <= SendQueueLen
    <3>1. sendQueue \in Seq(Job) /\ sendQueue # <<>> /\ sendQueue' = Tail(sendQueue)
      BY <1>3 DEF TypeOK, SendDrop, Startable
    <3> QED
      BY <3>1, HeadTailProperties, ConstantsAssumption DEF TypeOK
  <2> QED
    BY <1>3, <2>1 DEF TypeOK, SendDrop
<1>4. CASE Transmit
  <2>1. current.id \in Tickets
    BY <1>4 DEF TypeOK, ControlOK, Transmit, Job
  <2>2. PICK a \in LineAnswers \cup PromptAnswers :
          modem' = modem \o [i \in DOMAIN a |-> [kind |-> a[i], of |-> current.id]]
    BY <1>4 DEF Transmit
  <2>3. a \in Seq(Kinds)
    BY ConstantsAssumption
  <2>4. [i \in DOMAIN a |-> [kind |-> a[i], of |-> current.id]] \in Seq(Item)
    <3>1. Len(a) \in Nat /\ DOMAIN a = 1 .. Len(a) /\ \A i \in 1 .. Len(a) : a[i] \in Kinds
      BY <2>3, ElementOfSeq, LenProperties
    <3> QED
      BY <2>1, <3>1, IsASeq DEF Item
  <2>5. modem' \in Seq(Item)
    BY <2>2, <2>4, ConcatProperties DEF TypeOK
  <2> QED
    BY <1>4, <2>5 DEF TypeOK, Transmit
<1>5. CASE TransmitFails
  BY <1>5 DEF TypeOK, TransmitFails, EndTask, Results
<1> QED
  BY <1>1, <1>2, <1>3, <1>4, <1>5

LEMMA TypeEnd ==
  ASSUME TypeOK, ControlOK, EndNotify \/ EndGive \/ EndFree
  PROVE  TypeOK'
<1> USE DEF callVars, queueVars, taskVars, timeVars, urcVars, lineVars
<1>1. current \in Job
  BY DEF TypeOK, ControlOK, EndNotify, EndGive, EndFree
<1>2. current.id \in Tickets /\ current.id[1] \in Callers
  BY <1>1, TicketsOfCallers DEF Job
<1>3. CASE EndNotify
  <2>1. delivered' \in [Tickets -> Results \cup {"none"}]
    BY <1>3 DEF TypeOK, EndNotify
  <2>2. out' \in [Callers -> [result : Results \cup {"unset"}, value : Nat]]
    <3> DEFINE d == current.id[1]
               v == IF respLen = 0 THEN out[d].value
                    ELSE IF respLen < out[d].value THEN respLen ELSE out[d].value
    <3>1. out' = out \/ out' = [out EXCEPT ![d] = [result |-> ending.result, value |-> v]]
      BY <1>2, <1>3 DEF TypeOK, EndNotify, Reported
    <3>2. v \in Nat /\ ending.result \in Results
      BY <1>2, ConstantsAssumption DEF TypeOK
    <3>3. [result |-> ending.result, value |-> v] \in [result : Results \cup {"unset"}, value : Nat]
      BY <3>2
    <3> HIDE DEF v
    <3> QED
      BY <1>2, <3>1, <3>3 DEF TypeOK
  <2>3. lpc' \in {"endGive", "endFree"}
    BY <1>3 DEF EndNotify
  <2>4. UNCHANGED <<cpc, job, calls, queueVars, wake, given, heap, rmsg, taskVars, timeVars, urcVars, rx, partial,
                    lineVars>>
    BY <1>3 DEF EndNotify
  <2> QED
    BY <2>1, <2>2, <2>3, <2>4 DEF TypeOK
<1>4. CASE EndGive
  BY <1>2, <1>4 DEF TypeOK, EndGive
<1>5. CASE EndFree
  BY <1>5, ConstantsAssumption DEF TypeOK, EndFree, NotEnding, Results, ATC_TIMEOUT_MAX
<1> QED
  BY <1>3, <1>4, <1>5

LEMMA TypeRecv ==
  ASSUME TypeOK, ControlOK, RecvDone \/ RecvChunk \/ RecvLine \/ RecvPrompt \/ RecvBinary
  PROVE  TypeOK'
<1> USE DEF callVars, queueVars, taskVars, timeVars, urcVars, lineVars
<1>1. CASE RecvDone
  BY <1>1 DEF TypeOK, RecvDone
<1>2. ASSUME rx # <<>>
      PROVE  Head(rx).of \in Tickets \cup {NoTask} /\ Tail(rx) \in Seq(Item) /\ Len(Tail(rx)) <= RxCap
  <2>1. Head(rx) \in Item /\ Tail(rx) \in Seq(Item) /\ Len(Tail(rx)) <= RxCap
    BY <1>2, HeadTailProperties, ConstantsAssumption DEF TypeOK
  <2> QED
    BY <2>1 DEF Item
<1>3. CASE RecvChunk
  BY <1>2, <1>3 DEF TypeOK, RecvChunk
<1>4. CASE RecvLine
  <2>1. /\ rx' \in Seq(Item) /\ Len(rx') <= RxCap
        /\ Head(rx).of \in Tickets \cup {NoTask}
    BY <1>2, <1>4 DEF RecvLine
  <2>2. respLen' \in {respLen, respLen + 1, 0} /\ (respLen' = respLen + 1 => respLen + 1 < ResponseMax)
    <3> DEFINE pushed == IF respLen + 1 < ResponseMax THEN respLen + 1 ELSE respLen
    <3>1. respLen' \in {respLen, pushed, 0}
      BY <1>4 DEF RecvLine
    <3> QED
      BY <3>1, ConstantsAssumption DEF TypeOK
  <2>3. respLen' \in 0 .. ResponseMax
    BY <2>2, ConstantsAssumption DEF TypeOK
  <2>4. \/ \E res \in {"ATC_SUCCESS", "ATC_ERROR"} : EndTask(res, "recv", Head(rx).of)
        \/ UNCHANGED <<lpc, ending>>
    BY <1>4 DEF RecvLine
  <2>5. /\ lpc' \in {lpc, "endNotify"}
        /\ ending' \in [result : Results, from : {"transmit", "recv", "prompt", "timeout"},
                        of : Tickets \cup {NoTask}]
    BY <2>1, <2>4 DEF EndTask, Results, TypeOK
  <2>6. partial' = FALSE
        /\ UNCHANGED <<callVars, queueVars, wake, given, heap, rmsg, current, status, timestamp, timeVars, urcVars,
                       lineVars, delivered>>
    BY <1>4 DEF RecvLine
  <2> QED
    BY <2>1, <2>3, <2>5, <2>6 DEF TypeOK
<1>5. CASE RecvPrompt
  <2>1. /\ rx' \in Seq(Item) /\ Len(rx') <= RxCap
        /\ Head(rx).of \in Tickets \cup {NoTask}
    BY <1>2, <1>5 DEF RecvPrompt
  <2>2. /\ respLen' \in {respLen, 0} /\ status' \in {status, "BINARY"}
        /\ EndTask("ATC_SUCCESS", "prompt", Head(rx).of) \/ UNCHANGED <<lpc, ending>>
    BY <1>5 DEF RecvPrompt
  <2>3. respLen' \in 0 .. ResponseMax
    BY <2>2, ConstantsAssumption DEF TypeOK
  <2>4. /\ lpc' \in {lpc, "endNotify"}
        /\ ending' \in [result : Results, from : {"transmit", "recv", "prompt", "timeout"},
                        of : Tickets \cup {NoTask}]
    BY <2>1, <2>2 DEF EndTask, Results, TypeOK
  <2>5. UNCHANGED <<callVars, queueVars, wake, given, heap, rmsg, current, timestamp, timeVars, urcVars, partial,
                    lineVars, delivered>>
    BY <1>5 DEF RecvPrompt
  <2> QED
    BY <2>1, <2>2, <2>3, <2>4, <2>5 DEF TypeOK
<1>6. CASE RecvBinary
  <2>1. /\ rx' \in Seq(Item) /\ Len(rx') <= RxCap
        /\ Head(rx).of \in Tickets \cup {NoTask}
    BY <1>2, <1>6 DEF RecvBinary
  <2>2. respLen' = IF respLen < ResponseMax THEN respLen + 1 ELSE respLen
    BY <1>6 DEF RecvBinary
  <2>3. respLen' \in 0 .. ResponseMax
    BY <2>2, ConstantsAssumption DEF TypeOK
  <2>4. EndTask("ATC_SUCCESS", "recv", Head(rx).of) \/ UNCHANGED <<lpc, ending>>
    BY <1>6 DEF RecvBinary
  <2>5. /\ lpc' \in {lpc, "endNotify"}
        /\ ending' \in [result : Results, from : {"transmit", "recv", "prompt", "timeout"},
                        of : Tickets \cup {NoTask}]
    BY <2>1, <2>4 DEF EndTask, Results, TypeOK
  <2>6. UNCHANGED <<callVars, queueVars, wake, given, heap, rmsg, current, status, timestamp, timeVars, urcVars,
                    partial, lineVars, delivered>>
    BY <1>6 DEF RecvBinary
  <2> QED
    BY <2>1, <2>3, <2>5, <2>6 DEF TypeOK
<1> QED
  BY <1>1, <1>3, <1>4, <1>5, <1>6

LEMMA ElapsedType == TypeOK => Elapsed \in 0 .. ATC_TIMEOUT_MAX
BY ConstantsAssumption DEF TypeOK, Elapsed, ATC_TIMEOUT_MAX

LEMMA TimeoutType == \A j \in Job : Timeout(j) \in 1 .. ATC_TIMEOUT_MAX
BY ConstantsAssumption, RequestsAssumption DEF Job, Request, Timeout, ATC_TIMEOUT_MAX

LEMMA TypeWait ==
  ASSUME TypeOK, CheckTimeout \/ ComputeWait \/ Take \/ Tick
  PROVE  TypeOK'
<1> USE DEF callVars, queueVars, taskVars, timeVars, urcVars, lineVars
<1>1. CASE CheckTimeout
  BY <1>1 DEF TypeOK, CheckTimeout, EndTask, Results
<1>2. CASE ComputeWait
  <2>1. waitLeft' \in 0 .. ATC_TIMEOUT_MAX
    <3>1. CASE current = NoTask
      BY <1>2, <3>1, ConstantsAssumption DEF ComputeWait, ATC_TIMEOUT_MAX
    <3>2. CASE current # NoTask
      <4>1. Timeout(current) \in 1 .. ATC_TIMEOUT_MAX /\ Elapsed \in 0 .. ATC_TIMEOUT_MAX
        BY <3>2, ElapsedType, TimeoutType DEF TypeOK
      <4>2. waitLeft' = IF Elapsed < Timeout(current) THEN Timeout(current) - Elapsed ELSE 0
        BY <1>2, <3>2 DEF ComputeWait, Remaining
      <4>3. ATC_TIMEOUT_MAX \in Nat
        BY ConstantsAssumption DEF ATC_TIMEOUT_MAX
      <4> HIDE DEF ATC_TIMEOUT_MAX
      <4> QED
        BY <4>1, <4>2, <4>3
    <3> QED
      BY <3>1, <3>2
  <2>2. lag' \in 0 .. MaxLag
    BY <1>2, ConstantsAssumption DEF ComputeWait
  <2> QED
    BY <1>2, <2>1, <2>2 DEF TypeOK, ComputeWait
<1>3. CASE Take
  <2>1. /\ wake' = FALSE /\ waitLeft' = 0 /\ lpc' = "extern"
        /\ UNCHANGED <<callVars, queueVars, given, heap, rmsg, taskVars, now, lag, age, urcVars, rx, partial,
                       lineVars, delivered>>
    BY <1>3 DEF Take
  <2>2. waitLeft' \in 0 .. ATC_TIMEOUT_MAX
    BY <2>1, ConstantsAssumption DEF ATC_TIMEOUT_MAX
  <2> QED
    BY <2>1, <2>2 DEF TypeOK
<1>4. CASE Tick
  <2>1. /\ now' \in 0 .. ATC_TIMEOUT_MAX /\ lag' \in 0 .. MaxLag /\ age' \in 0 .. TickMod
        /\ waitLeft' \in 0 .. ATC_TIMEOUT_MAX
    BY <1>4, ConstantsAssumption DEF TypeOK, Tick, ATC_TIMEOUT_MAX
  <2>2. UNCHANGED <<callVars, queueVars, wake, given, heap, lpc, rmsg, taskVars, urcVars, rx, partial, lineVars, delivered>>
    BY <1>4 DEF Tick
  <2> QED
    <3>1. ThreadsTyped'
      BY <2>2, TypeParts DEF ThreadsTyped
    <3>2. SharedTyped'
      BY <2>2, TypeParts DEF SharedTyped
    <3>3. LoopTyped'
      BY <2>2, TypeParts DEF LoopTyped
    <3>4. TimeTyped'
      BY <2>1 DEF TimeTyped
    <3>5. LineTyped'
      BY <2>2, TypeParts DEF LineTyped
    <3> QED
      BY <3>1, <3>2, <3>3, <3>4, <3>5, TypePartsNext
<1> QED
  BY <1>1, <1>2, <1>3, <1>4

LEMMA TypeIsr ==
  ASSUME TypeOK, IsrStart \/ IsrStep
  PROVE  TypeOK'
<1> USE DEF callVars, queueVars, taskVars, timeVars, urcVars, lineVars
<1>1. CASE IsrStart
  <2>1. /\ isrBuf' \in Seq(Item) /\ modem' \in Seq(Item)
        /\ urcLeft' \in 0 .. UrcBudget
    <3>1. ASSUME NEW k \in 1 .. MaxBurst, k <= Len(modem)
          PROVE  SubSeq(modem, 1, k) \in Seq(Item) /\ SubSeq(modem, k + 1, Len(modem)) \in Seq(Item)
      <4>1. modem \in Seq(Item) /\ Len(modem) \in Nat /\ k \in Int
        BY LenProperties, ConstantsAssumption DEF TypeOK
      <4>2. \A i \in 1 .. Len(modem) : modem[i] \in Item
        BY <4>1, ElementOfSeq
      <4>3. (\A i \in 1 .. k : modem[i] \in Item) /\ (\A i \in k + 1 .. Len(modem) : modem[i] \in Item)
        BY <3>1, <4>1, <4>2
      <4>4. SubSeq(modem, 1, k) \in Seq(Item)
        BY <4>1, <4>3, SubSeqProperties
      <4>5. SubSeq(modem, k + 1, Len(modem)) \in Seq(Item)
        <5>1. k + 1 \in Int /\ Len(modem) \in Int
          BY <4>1
        <5> QED
          BY <4>3, <5>1, SubSeqProperties
      <4> QED
        BY <4>4, <4>5
    <3>2. <<[kind |-> "urc", of |-> NoTask]>> \in Seq(Item)
      BY DEF Item, Kinds, LineKinds
    <3>3. CASE /\ UNCHANGED urcLeft
               /\ \E k \in 1 .. MaxBurst : /\ k <= Len(modem)
                                          /\ isrBuf' = SubSeq(modem, 1, k)
                                          /\ modem' = SubSeq(modem, k + 1, Len(modem))
      BY <3>1, <3>3 DEF TypeOK
    <3>4. CASE /\ urcLeft > 0 /\ urcLeft' = urcLeft - 1 /\ UNCHANGED modem
               /\ isrBuf' = <<[kind |-> "urc", of |-> NoTask]>>
      BY <3>2, <3>4, ConstantsAssumption DEF TypeOK
    <3> QED
      BY <1>1, <3>3, <3>4 DEF IsrStart
  <2>2. isrPc' = "write"
    BY <1>1 DEF IsrStart
  <2>3. UNCHANGED <<callVars, queueVars, wake, given, heap, lpc, rmsg, taskVars, timeVars, urcVars, rx, partial, delivered>>
    BY <1>1 DEF IsrStart
  <2> QED
    BY <2>1, <2>2, <2>3 DEF TypeOK
<1>2. CASE IsrWrite
  <2>1. Head(isrBuf) \in Item /\ Tail(isrBuf) \in Seq(Item)
    BY <1>2, HeadTailProperties DEF TypeOK, IsrWrite
  <2>2. rx' \in Seq(Item) /\ Len(rx') <= RxCap
    BY <1>2, <2>1, AppendProperties, ConstantsAssumption DEF TypeOK, IsrWrite
  <2>3. /\ isrBuf' = Tail(isrBuf)
        /\ UNCHANGED <<callVars, queueVars, wake, given, heap, lpc, rmsg, taskVars, timeVars, urcVars, partial, isrPc,
                       modem, urcLeft, delivered>>
    BY <1>2 DEF IsrWrite
  <2> QED
    <3>1. ThreadsTyped'
      BY <2>3, TypeParts DEF ThreadsTyped
    <3>2. SharedTyped'
      BY <2>3, TypeParts DEF SharedTyped
    <3>3. LoopTyped'
      BY <2>3, TypeParts DEF LoopTyped
    <3>4. TimeTyped'
      BY <2>3, TypeParts DEF TimeTyped
    <3>5. LineTyped'
      BY <2>1, <2>2, <2>3, TypeParts DEF LineTyped
    <3> QED
      BY <3>1, <3>2, <3>3, <3>4, <3>5, TypePartsNext
<1>3. CASE IsrFull
  BY <1>3, EmptySeq DEF TypeOK, IsrFull
<1>4. CASE IsrGive
  BY <1>4 DEF TypeOK, IsrGive
<1> QED
  BY <1>1, <1>2, <1>3, <1>4 DEF IsrStep

LEMMA TypeNext == TypeOK /\ ControlOK /\ [Next]_vars => TypeOK'
<1> SUFFICES ASSUME TypeOK, ControlOK, [Next]_vars PROVE TypeOK'
  OBVIOUS
<1>1. CASE UNCHANGED vars
  BY <1>1 DEF TypeOK, vars, callVars, queueVars, taskVars, timeVars, urcVars, lineVars
<1> QED
  BY <1>1, TypeCall, TypeCallFails, TypeCallStep, TypeExtern, TypeSend, TypeEnd, TypeRecv, TypeWait, TypeIsr
  DEF Next, Loop, CallerNext

-----------------------------------------------------------------------------
(* What the threads hold.                                                   *)

LEMMA ControlInit == Init => ControlOK
BY DEF Init, ControlOK, Range

LEMMA ControlCallers ==
  ASSUME TypeOK, ControlOK, NEW c \in Callers, CallerNext(c)
  PROVE  ControlOK'
<1> USE DEF callVars, queueVars, taskVars, timeVars, urcVars, lineVars
<1>1. ASSUME NEW req \in Requests, Call(c, req) PROVE ControlOK'
  <2> DEFINE j == [id |-> <<c, calls[c] + 1>>, req |-> req]
  <2>1. j \in Job
    <3>1. calls[c] + 1 \in 1 .. MaxCalls
      BY <1>1, ConstantsAssumption DEF TypeOK, Call
    <3> QED
      BY <3>1, RequestsAssumption DEF Job, Tickets
  <2>2. /\ job' = [job EXCEPT ![c] = j] /\ calls' = [calls EXCEPT ![c] = @ + 1]
        /\ cpc' = [cpc EXCEPT ![c] = "enqueue"]
        /\ UNCHANGED <<apiQueue, sendQueue, rmsg, current, lpc>>
    BY <1>1 DEF Call
  <2> QED
    BY <2>1, <2>2 DEF TypeOK, ControlOK
<1>2. ASSUME NEW req \in Requests, CallFails(c, req) PROVE ControlOK'
  <2>1. /\ cpc[c] = "idle" /\ calls' = [calls EXCEPT ![c] = @ + 1]
        /\ UNCHANGED <<cpc, job, apiQueue, sendQueue, rmsg, current, lpc>>
    BY <1>2 DEF CallFails
  <2> QED
    BY <2>1 DEF TypeOK, ControlOK
<1>3. CASE EnqueueTask(c)
  <2>1. Range(sendQueue') = Range(sendQueue) \cup {job[c]} /\ ~IsMsg(job[c])
    <3>1. /\ sendQueue \in Seq(Job) /\ job[c] \in Job
          /\ sendQueue' = Append(sendQueue, job[c]) /\ ~IsMsg(job[c])
      BY <1>3 DEF TypeOK, ControlOK, EnqueueTask
    <3> QED
      BY <3>1, RangeAppend
  <2> QED
    BY <1>3, <2>1 DEF TypeOK, ControlOK, EnqueueTask
<1>4. CASE EnqueueMsg(c)
  <2>1. Range(apiQueue') = Range(apiQueue) \cup {job[c]} /\ IsMsg(job[c]) /\ job[c].req \in Requests
    <3>1. /\ apiQueue \in Seq(Job) /\ job[c] \in Job
          /\ apiQueue' = Append(apiQueue, job[c]) /\ IsMsg(job[c])
      BY <1>4 DEF TypeOK, ControlOK, EnqueueMsg
    <3>2. job[c].req \in Requests
      BY <3>1 DEF Job
    <3> QED
      BY <3>1, <3>2, RangeAppend
  <2>2. job[c].req.sync
    BY <2>1, RequestsAssumption DEF IsMsg
  <2> QED
    BY <1>4, <2>1, <2>2 DEF TypeOK, ControlOK, EnqueueMsg
<1>5. CASE EnqueueTimeout(c)
  BY <1>5 DEF TypeOK, ControlOK, EnqueueTimeout
<1>6. CASE GiveWake(c)
  BY <1>6 DEF TypeOK, ControlOK, GiveWake
<1>7. CASE Awaken(c)
  BY <1>7 DEF TypeOK, ControlOK, Awaken
<1>8. CASE Return(c)
  BY <1>8 DEF TypeOK, ControlOK, Return
<1> QED
  BY <1>1, <1>2, <1>3, <1>4, <1>5, <1>6, <1>7, <1>8 DEF CallerNext, CallStep

LEMMA ControlLoop ==
  ASSUME TypeOK, ControlOK, Loop
  PROVE  ControlOK'
<1> USE DEF callVars, queueVars, taskVars, timeVars, urcVars, lineVars
<1>1. CASE ExternHandle
  <2>1. Head(apiQueue) \in Range(apiQueue) /\ Range(apiQueue') \subseteq Range(apiQueue)
    BY <1>1, RangeTail DEF TypeOK, ExternHandle
  <2>2. Head(apiQueue) \in Job
    BY <1>1, HeadTailProperties DEF TypeOK, ExternHandle
  <2>3. /\ rmsg' = Head(apiQueue) /\ lpc' = "externGive"
        /\ UNCHANGED <<cpc, job, calls, sendQueue, current>>
    BY <1>1 DEF ExternHandle
  <2> QED
    BY <2>1, <2>2, <2>3 DEF ControlOK
<1>2. CASE SendStart
  <2>1. Head(sendQueue) \in Range(sendQueue) /\ Range(sendQueue') \subseteq Range(sendQueue)
    BY <1>2, RangeTail DEF TypeOK, SendStart, Startable
  <2>2. Head(sendQueue) # NoTask
    BY <1>2, HeadTailProperties, NoTaskIsNone DEF TypeOK, SendStart, Startable
  <2>3. /\ current' = Head(sendQueue) /\ lpc' = "transmit"
        /\ UNCHANGED <<cpc, job, calls, apiQueue, rmsg>>
    BY <1>2 DEF SendStart
  <2> QED
    BY <2>1, <2>2, <2>3 DEF ControlOK
<1>3. CASE SendDrop
  <2>1. Range(sendQueue') \subseteq Range(sendQueue)
    BY <1>3, RangeTail DEF TypeOK, SendDrop, Startable
  <2> QED
    BY <1>3, <2>1 DEF ControlOK, SendDrop
<1>4. CASE \/ ExternGive \/ ExternFree \/ ExternDone \/ SendSkip \/ Transmit \/ TransmitFails
  BY <1>4 DEF ControlOK, ExternGive, ExternFree, ExternDone, SendSkip, Transmit, TransmitFails, EndTask
<1>5. CASE EndNotify \/ EndGive
  BY <1>5 DEF ControlOK, EndNotify, EndGive
<1>6. CASE EndFree
  BY <1>6 DEF ControlOK, EndFree
<1>7. CASE RecvDone \/ RecvChunk
  BY <1>7 DEF ControlOK, RecvDone, RecvChunk
<1>8. CASE RecvLine \/ RecvPrompt \/ RecvBinary
  <2>1. /\ UNCHANGED <<cpc, job, calls, apiQueue, sendQueue, rmsg, current>>
        /\ lpc' = "recv" \/ (lpc' = "endNotify" /\ current # NoTask)
    BY <1>8 DEF RecvLine, RecvPrompt, RecvBinary, EndTask, Mode
  <2> QED
    BY <2>1 DEF ControlOK
<1>9. CASE CheckTimeout \/ ComputeWait \/ Take
  BY <1>9 DEF ControlOK, CheckTimeout, ComputeWait, Take, EndTask
<1> QED
  BY <1>1, <1>2, <1>3, <1>4, <1>5, <1>6, <1>7, <1>8, <1>9 DEF Loop

LEMMA ControlNext == TypeOK /\ ControlOK /\ [Next]_vars => ControlOK'
<1> SUFFICES ASSUME TypeOK, ControlOK, [Next]_vars PROVE ControlOK'
  OBVIOUS
<1>1. CASE Tick \/ IsrStart \/ IsrStep
  BY <1>1 DEF ControlOK, Tick, IsrStart, IsrStep, IsrWrite, IsrFull, IsrGive, callVars, queueVars, taskVars
<1>2. CASE UNCHANGED vars
  BY <1>2 DEF ControlOK, vars, callVars, queueVars, taskVars
<1> QED
  BY <1>1, <1>2, ControlCallers, ControlLoop DEF Next

\* The state of every component stays in its range, whatever the threads, the
\* interrupt and the modem do and whichever operations fail: no queue, ring or
\* response buffer outgrows its capacity and no identifier or tick its width.
THEOREM TypeCorrect == Spec => []TypeOK
<1>1. Init => TypeOK /\ ControlOK
  BY TypeInit, ControlInit
<1>2. TypeOK /\ ControlOK /\ [Next]_vars => (TypeOK /\ ControlOK)'
  BY TypeNext, ControlNext
<1> QED
  BY <1>1, <1>2, PTL DEF Spec

-----------------------------------------------------------------------------
(* Wake-ups.                                                                *)

LEMMA ApiWokenNext == TypeOK /\ ControlOK /\ ApiWoken /\ [Next]_vars => ApiWoken'
<1> SUFFICES ASSUME TypeOK, ControlOK, ApiWoken, [Next]_vars PROVE ApiWoken'
  OBVIOUS
<1> USE DEF callVars, queueVars, taskVars, timeVars, urcVars, lineVars
<1>1. ASSUME NEW c \in Callers, NEW req \in Requests, Call(c, req) \/ CallFails(c, req) PROVE ApiWoken'
  <2>1. /\ UNCHANGED <<lpc, apiQueue, wake>>
        /\ cpc[c] = "idle" /\ cpc' \in {cpc, [cpc EXCEPT ![c] = "enqueue"]}
        /\ \A d \in Callers \ {c} : job'[d] = job[d]
    BY <1>1 DEF Call, CallFails, TypeOK
  <2> QED
    BY <2>1 DEF ApiWoken, GivePending, TypeOK
<1>2. ASSUME NEW c \in Callers, EnqueueMsg(c) PROVE ApiWoken'
  <2>1. /\ apiQueue \in Seq(Job) /\ job[c] \in Job
        /\ apiQueue' = Append(apiQueue, job[c])
    BY <1>2 DEF TypeOK, ControlOK, EnqueueMsg
  <2>2. job'[c] \in Range(apiQueue') /\ cpc'[c] = "giveWake"
    BY <1>2, <2>1, RangeAppend DEF TypeOK, EnqueueMsg
  <2> QED
    BY <2>2 DEF ApiWoken, GivePending
<1>3. ASSUME NEW c \in Callers, EnqueueTask(c) \/ EnqueueTimeout(c) \/ Awaken(c) \/ Return(c) PROVE ApiWoken'
  BY <1>3 DEF ApiWoken, GivePending, TypeOK, EnqueueTask, EnqueueTimeout, Awaken, Return
<1>4. ASSUME NEW c \in Callers, GiveWake(c) PROVE ApiWoken'
  BY <1>4 DEF ApiWoken, GiveWake
<1>5. CASE Loop
  BY <1>5 DEF ApiWoken, GivePending, Loop, ExternHandle, ExternGive, ExternFree, ExternDone, SendSkip, SendStart,
    SendDrop, Transmit, TransmitFails, EndTask, EndNotify, EndGive, EndFree, RecvDone, RecvChunk, RecvLine,
    RecvPrompt, RecvBinary, CheckTimeout, ComputeWait, Take
<1>6. CASE Tick \/ IsrStart \/ IsrStep
  BY <1>6 DEF ApiWoken, GivePending, Tick, IsrStart, IsrStep, IsrWrite, IsrFull, IsrGive
<1>7. CASE UNCHANGED vars
  BY <1>7 DEF ApiWoken, GivePending, vars
<1> QED
  BY <1>1, <1>2, <1>3, <1>4, <1>5, <1>6, <1>7 DEF Next, CallerNext, CallStep

\* The loop thread never goes to sleep, and never stays asleep, while a URC
\* registration or unregistration is queued and nobody is about to wake it:
\* the thread that waits for it cannot be forgotten (atc_process drains
\* external_api_queue in every round, and the queueing thread gives
\* wake_semaphore only after it has queued its message).
THEOREM ApiWakeupKept == Spec => []NoLostApiWakeup
<1>1. Init => TypeOK /\ ControlOK /\ ApiWoken
  BY TypeInit, ControlInit DEF Init, ApiWoken
<1>2. TypeOK /\ ControlOK /\ ApiWoken /\ [Next]_vars => (TypeOK /\ ControlOK /\ ApiWoken)'
  BY TypeNext, ControlNext, ApiWokenNext
<1>3. ApiWoken => NoLostApiWakeup
  BY DEF ApiWoken, NoLostApiWakeup
<1> QED
  BY <1>1, <1>2, <1>3, PTL DEF Spec

LEMMA RxWokenNext ==
  ASSUME MaxBurst = 1, TypeOK, RxWoken, [Next]_vars
  PROVE  RxWoken'
<1> USE DEF callVars, queueVars, taskVars, timeVars, urcVars, lineVars
<1>1. ASSUME NEW c \in Callers, CallerNext(c) PROVE RxWoken'
  <2>1. UNCHANGED <<lpc, ending, rx, isrPc, isrBuf>> /\ wake' \in {wake, TRUE}
    BY <1>1 DEF CallerNext, CallStep, Call, CallFails, EnqueueTask, EnqueueMsg, EnqueueTimeout, GiveWake, Awaken, Return
  <2> QED
    BY <2>1 DEF RxWoken, Drained, TypeOK
<1>2. CASE \/ ExternHandle \/ ExternGive \/ ExternFree \/ ExternDone \/ SendSkip \/ SendStart \/ SendDrop
           \/ Transmit \/ Take
  BY <1>2 DEF RxWoken, Drained, ExternHandle, ExternGive, ExternFree, ExternDone, SendSkip, SendStart, SendDrop,
    Transmit, Take
<1>3. CASE TransmitFails
  BY <1>3 DEF RxWoken, Drained, TransmitFails, EndTask
<1>4. CASE RecvDone \/ RecvChunk
  BY <1>4 DEF RxWoken, Drained, RecvDone, RecvChunk
<1>5. CASE RecvLine \/ RecvPrompt \/ RecvBinary
  <2>1. ~Drained' /\ UNCHANGED isrBuf
    BY <1>5 DEF Drained, RecvLine, RecvPrompt, RecvBinary, EndTask
  <2> QED
    BY <2>1 DEF RxWoken
<1>6. CASE EndNotify \/ EndGive \/ EndFree
  BY <1>6 DEF RxWoken, Drained, EndNotify, EndGive, EndFree
<1>7. CASE CheckTimeout \/ ComputeWait
  BY <1>7 DEF RxWoken, Drained, CheckTimeout, ComputeWait, EndTask
<1>8. CASE IsrStart
  <2>1. UNCHANGED <<lpc, ending, rx, wake>> /\ isrPc = "idle"
    BY <1>8 DEF IsrStart
  <2>2. Len(isrBuf') <= MaxBurst
    <3>1. ASSUME NEW k \in 1 .. MaxBurst, k <= Len(modem), isrBuf' = SubSeq(modem, 1, k)
          PROVE  Len(isrBuf') <= MaxBurst
      BY <3>1, SubSeqProperties, LenProperties, ConstantsAssumption DEF TypeOK
    <3>2. ASSUME isrBuf' = <<[kind |-> "urc", of |-> NoTask]>>
          PROVE  Len(isrBuf') <= MaxBurst
      BY <3>2
    <3> QED
      BY <1>8, <3>1, <3>2 DEF IsrStart
  <2> QED
    BY <2>1, <2>2 DEF RxWoken, Drained
<1>9. CASE IsrWrite
  <2>1. Tail(isrBuf) = <<>>
    <3>1. isrBuf \in Seq(Item) /\ isrBuf # <<>> /\ Len(isrBuf) <= 1
      BY <1>9 DEF TypeOK, RxWoken, IsrWrite
    <3> QED
      BY <3>1, HeadTailProperties, LenProperties, EmptySeq
  <2> QED
    BY <1>9, <2>1, EmptySeq DEF IsrWrite, RxWoken
<1>10. CASE IsrFull
  BY <1>10 DEF IsrFull, RxWoken, Drained
<1>11. CASE IsrGive
  BY <1>11 DEF IsrGive, RxWoken
<1>12. CASE Tick
  BY <1>12 DEF Tick, RxWoken, Drained
<1>13. CASE UNCHANGED vars
  BY <1>13 DEF vars, RxWoken, Drained
<1> QED
  BY <1>1, <1>2, <1>3, <1>4, <1>5, <1>6, <1>7, <1>8, <1>9, <1>10, <1>11, <1>12, <1>13
  DEF Next, Loop, IsrStep

\* When the interrupt hands over one item per call, the loop thread never
\* sleeps over received data, although atc_receive_data does not give
\* wake_semaphore when the ring is full: a full ring means that an earlier
\* call is giving it or has given it. With longer calls this is false.
THEOREM RxWakeupKept == MaxBurst = 1 => (Spec => []NoLostRxWakeup)
<1> SUFFICES ASSUME MaxBurst = 1 PROVE Spec => []NoLostRxWakeup
  OBVIOUS
<1>1. Init => TypeOK /\ ControlOK /\ RxWoken
  BY TypeInit, ControlInit, ConstantsAssumption DEF Init, RxWoken, Drained
<1>2. TypeOK /\ ControlOK /\ RxWoken /\ [Next]_vars => (TypeOK /\ ControlOK /\ RxWoken)'
  BY TypeNext, ControlNext, RxWokenNext
<1>3. RxWoken => NoLostRxWakeup
  BY DEF RxWoken, Drained, NoLostRxWakeup
<1> QED
  BY <1>1, <1>2, <1>3, PTL DEF Spec

-----------------------------------------------------------------------------
(* Jobs handed over.                                                        *)

LEMMA DistinctTail ==
  ASSUME NEW q \in Seq(Job), q # <<>>, DistinctIds(q)
  PROVE  DistinctIds(Tail(q)) /\ \A j \in Range(Tail(q)) : j.id # Head(q).id
<1>1. /\ Len(q) \in Nat \ {0} /\ DOMAIN q = 1 .. Len(q) /\ Head(q) = q[1]
      /\ DOMAIN Tail(q) = 1 .. Len(q) - 1 /\ \A i \in 1 .. Len(q) - 1 : Tail(q)[i] = q[i + 1]
  BY HeadTailProperties, LenProperties
<1>2. ASSUME NEW i \in DOMAIN Tail(q) PROVE i + 1 \in DOMAIN q /\ i + 1 # 1 /\ Tail(q)[i] = q[i + 1] /\ i \in Int
  BY <1>1
<1>3. ASSUME NEW i \in DOMAIN Tail(q), NEW k \in DOMAIN Tail(q), Tail(q)[i].id = Tail(q)[k].id PROVE i = k
  <2>1. i + 1 = k + 1
    BY <1>2, <1>3 DEF DistinctIds
  <2> QED
    BY <1>2, <2>1
<1>4. ASSUME NEW i \in DOMAIN Tail(q) PROVE Tail(q)[i].id # Head(q).id
  <2>1. 1 \in DOMAIN q
    BY <1>1
  <2> QED
    BY <1>1, <1>2, <2>1 DEF DistinctIds
<1> QED
  BY <1>3, <1>4 DEF DistinctIds, Range

LEMMA DistinctAppend ==
  ASSUME NEW q \in Seq(Job), NEW e \in Job, DistinctIds(q), \A j \in Range(q) : j.id # e.id
  PROVE  DistinctIds(Append(q, e))
<1>1. /\ Len(q) \in Nat /\ DOMAIN q = 1 .. Len(q) /\ DOMAIN Append(q, e) = 1 .. Len(q) + 1
      /\ \A i \in 1 .. Len(q) : Append(q, e)[i] = q[i]
      /\ Append(q, e)[Len(q) + 1] = e
  BY AppendProperties, LenProperties
<1>2. \A i \in 1 .. Len(q) : q[i].id # e.id
  BY <1>1 DEF Range
<1>3. 1 .. Len(q) + 1 = (1 .. Len(q)) \cup {Len(q) + 1}
  BY <1>1
<1> QED
  BY <1>1, <1>2, <1>3 DEF DistinctIds

HandedJobs == Handed(apiQueue, rmsg) \cup Handed(sendQueue, current)

LEMMA HandedType ==
  ASSUME TypeOK
  PROVE  \A j \in HandedJobs : j \in Job /\ j.id[1] \in Callers /\ j.id[2] \in Nat
<1>1. HandedJobs \subseteq Job
  BY RangeOfSeq DEF TypeOK, HandedJobs, Handed
<1>2. \A j \in Job : j.id[1] \in Callers /\ j.id[2] \in Nat
  BY ConstantsAssumption DEF Job, Tickets
<1> QED
  BY <1>1, <1>2

LEMMA HandedInit == Init => HandedOnce
BY DEF Init, HandedOnce, Handed, DistinctIds, Range

LEMMA HandedCallers ==
  ASSUME TypeOK, ControlOK, HandedOnce, NEW c \in Callers, CallerNext(c)
  PROVE  HandedOnce'
<1> USE DEF callVars, queueVars, taskVars, timeVars, urcVars, lineVars
<1>1. ASSUME NEW req \in Requests, Call(c, req) PROVE HandedOnce'
  <2>1. /\ job' = [job EXCEPT ![c] = [id |-> <<c, calls[c] + 1>>, req |-> req]]
        /\ calls' = [calls EXCEPT ![c] = @ + 1] /\ cpc' = [cpc EXCEPT ![c] = "enqueue"]
        /\ UNCHANGED <<apiQueue, sendQueue, rmsg, current>>
    BY <1>1 DEF Call
  <2>2. ASSUME NEW j \in HandedJobs
        PROVE  /\ j.id[2] <= calls'[j.id[1]]
               /\ \A d \in Callers : cpc'[d] = "enqueue" => j.id # job'[d].id
    <3>1. j.id[1] \in Callers /\ j.id[2] \in Nat /\ j.id[2] <= calls[j.id[1]]
      BY HandedType DEF HandedOnce, HandedJobs
    <3>2. j.id # <<c, calls[c] + 1>>
      BY <3>1, ConstantsAssumption DEF TypeOK
    <3>3. calls[j.id[1]] \in Nat /\ calls'[j.id[1]] \in {calls[j.id[1]], calls[j.id[1]] + 1}
      BY <2>1, <3>1, ConstantsAssumption DEF TypeOK
    <3>4. j.id[2] <= calls'[j.id[1]]
      BY <3>1, <3>3
    <3>5. ASSUME NEW d \in Callers, cpc'[d] = "enqueue" PROVE j.id # job'[d].id
      <4>1. CASE d = c
        BY <2>1, <3>2, <4>1 DEF TypeOK
      <4>2. CASE d # c
        BY <2>1, <3>5, <4>2 DEF TypeOK, HandedOnce, HandedJobs
      <4> QED
        BY <4>1, <4>2
    <3> QED
      BY <3>4, <3>5
  <2>3. HandedJobs' = HandedJobs
    BY <2>1 DEF HandedJobs, Handed
  <2>4. DistinctIds(apiQueue)' /\ DistinctIds(sendQueue)'
    BY <2>1 DEF HandedOnce, DistinctIds
  <2>5. /\ (rmsg # NoTask => \A j \in Range(apiQueue) : j.id # rmsg.id)'
        /\ (current # NoTask => \A j \in Range(sendQueue) : j.id # current.id)'
    BY <2>1 DEF HandedOnce
  <2> QED
    BY <2>2, <2>3, <2>4, <2>5 DEF HandedOnce, HandedJobs
<1>2. ASSUME NEW req \in Requests, CallFails(c, req) PROVE HandedOnce'
  <2>1. /\ calls' = [calls EXCEPT ![c] = @ + 1]
        /\ UNCHANGED <<cpc, job, apiQueue, sendQueue, rmsg, current>>
    BY <1>2 DEF CallFails
  <2>2. ASSUME NEW j \in HandedJobs PROVE j.id[2] <= calls'[j.id[1]]
    <3>1. j.id[1] \in Callers /\ j.id[2] \in Nat /\ j.id[2] <= calls[j.id[1]]
      BY HandedType DEF HandedOnce, HandedJobs
    <3>2. calls[j.id[1]] \in Nat /\ calls'[j.id[1]] \in {calls[j.id[1]], calls[j.id[1]] + 1}
      <4>1. calls \in [Callers -> 0 .. MaxCalls] /\ MaxCalls \in Nat
        BY ConstantsAssumption DEF TypeOK
      <4>2. PICK d : d = j.id[1]
        OBVIOUS
      <4>3. d \in Callers
        BY <3>1, <4>2
      <4>4. calls[d] \in Nat /\ calls'[d] \in {calls[d], calls[d] + 1}
        BY <2>1, <4>1, <4>3
      <4> QED
        BY <4>2, <4>4
    <3> DEFINE n == j.id[2]
               before == calls[j.id[1]]
               after == calls'[j.id[1]]
    <3>3. n \in Nat /\ n <= before /\ before \in Nat /\ (after = before \/ after = before + 1)
      BY <3>1, <3>2
    <3> HIDE DEF n, before, after
    <3>4. n <= after
      BY <3>3
    <3> QED
      BY <3>4 DEF n, after
  <2>3. HandedJobs' = HandedJobs
    BY <2>1 DEF HandedJobs, Handed
  <2>4. DistinctIds(apiQueue)' /\ DistinctIds(sendQueue)'
    BY <2>1 DEF HandedOnce, DistinctIds
  <2>5. ASSUME NEW j \in HandedJobs PROVE \A d \in Callers : cpc'[d] = "enqueue" => j.id # job'[d].id
    BY <2>1 DEF HandedOnce, HandedJobs
  <2>6. /\ (rmsg # NoTask => \A j \in Range(apiQueue) : j.id # rmsg.id)'
        /\ (current # NoTask => \A j \in Range(sendQueue) : j.id # current.id)'
    BY <2>1 DEF HandedOnce
  <2> QED
    BY <2>2, <2>3, <2>4, <2>5, <2>6 DEF HandedOnce, HandedJobs
<1>3. ASSUME cpc[c] = "enqueue"
      PROVE  /\ job[c] \in Job /\ job[c].id = <<c, calls[c]>> /\ job[c].id[2] <= calls[job[c].id[1]]
             /\ \A j \in HandedJobs : j.id # job[c].id
             /\ \A d \in Callers : d # c /\ cpc[d] = "enqueue" => job[c].id # job[d].id
  <2>1. job[c].id = <<c, calls[c]>> /\ job[c] \in Job /\ calls[c] \in Nat
    BY <1>3, ConstantsAssumption DEF TypeOK, ControlOK
  <2>2. \A d \in Callers : cpc[d] = "enqueue" => job[d].id = <<d, calls[d]>>
    BY DEF ControlOK
  <2> QED
    BY <1>3, <2>1, <2>2 DEF HandedOnce, HandedJobs
<1>4. CASE EnqueueTask(c)
  <2>1. /\ sendQueue' = Append(sendQueue, job[c]) /\ cpc' = [cpc EXCEPT ![c] = "giveWake"]
        /\ cpc[c] = "enqueue" /\ UNCHANGED <<job, calls, apiQueue, rmsg, current>>
    BY <1>4 DEF EnqueueTask
  <2>2. Range(sendQueue') = Range(sendQueue) \cup {job[c]} /\ DistinctIds(sendQueue')
    BY <1>3, <2>1, RangeAppend, DistinctAppend DEF TypeOK, HandedOnce, HandedJobs, Handed
  <2>3. ASSUME NEW j \in HandedJobs'
        PROVE  /\ j.id[2] <= calls'[j.id[1]]
               /\ \A d \in Callers : cpc'[d] = "enqueue" => j.id # job'[d].id
    <3>1. j \in HandedJobs \/ j = job[c]
      BY <2>1, <2>2 DEF HandedJobs, Handed
    <3> QED
      BY <1>3, <2>1, <3>1 DEF TypeOK, HandedOnce, HandedJobs
  <2>4. current' # NoTask => \A j \in Range(sendQueue') : j.id # current'.id
    BY <1>3, <2>1, <2>2 DEF HandedOnce, HandedJobs, Handed
  <2> QED
    BY <2>1, <2>2, <2>3, <2>4 DEF HandedOnce, HandedJobs
<1>5. CASE EnqueueMsg(c)
  <2>1. /\ apiQueue' = Append(apiQueue, job[c]) /\ cpc' = [cpc EXCEPT ![c] = "giveWake"]
        /\ cpc[c] = "enqueue" /\ UNCHANGED <<job, calls, sendQueue, rmsg, current>>
    BY <1>5 DEF EnqueueMsg
  <2>2. Range(apiQueue') = Range(apiQueue) \cup {job[c]} /\ DistinctIds(apiQueue')
    BY <1>3, <2>1, RangeAppend, DistinctAppend DEF TypeOK, HandedOnce, HandedJobs, Handed
  <2>3. ASSUME NEW j \in HandedJobs'
        PROVE  /\ j.id[2] <= calls'[j.id[1]]
               /\ \A d \in Callers : cpc'[d] = "enqueue" => j.id # job'[d].id
    <3>1. j \in HandedJobs \/ j = job[c]
      BY <2>1, <2>2 DEF HandedJobs, Handed
    <3> QED
      BY <1>3, <2>1, <3>1 DEF TypeOK, HandedOnce, HandedJobs
  <2>4. rmsg' # NoTask => \A j \in Range(apiQueue') : j.id # rmsg'.id
    BY <1>3, <2>1, <2>2 DEF HandedOnce, HandedJobs, Handed
  <2>5. DistinctIds(sendQueue)' /\ (current # NoTask => \A j \in Range(sendQueue) : j.id # current.id)'
    BY <2>1 DEF HandedOnce, DistinctIds
  <2> QED
    BY <2>1, <2>2, <2>3, <2>4, <2>5 DEF HandedOnce, HandedJobs
<1>6. CASE EnqueueTimeout(c) \/ GiveWake(c) \/ Awaken(c) \/ Return(c)
  <2>1. /\ UNCHANGED <<calls, apiQueue, sendQueue, rmsg, current>>
        /\ cpc'[c] # "enqueue" /\ \A d \in Callers \ {c} : cpc'[d] = cpc[d] /\ job'[d] = job[d]
    BY <1>6 DEF TypeOK, EnqueueTimeout, GiveWake, Awaken, Return
  <2> QED
    BY <2>1 DEF HandedOnce, Handed, DistinctIds
<1> QED
  BY <1>1, <1>2, <1>4, <1>5, <1>6 DEF CallerNext, CallStep

LEMMA HandedNext ==
  ASSUME TypeOK, ControlOK, HandedOnce, [Next]_vars
  PROVE  HandedOnce'
<1> USE DEF callVars, queueVars, taskVars, timeVars, urcVars, lineVars
<1>1. CASE ExternHandle
  <2>1. /\ apiQueue \in Seq(Job) /\ apiQueue # <<>> /\ apiQueue' = Tail(apiQueue) /\ rmsg' = Head(apiQueue)
        /\ UNCHANGED <<cpc, job, calls, sendQueue, current>>
    BY <1>1 DEF TypeOK, ExternHandle
  <2>2. Head(apiQueue) \in Range(apiQueue) /\ Range(Tail(apiQueue)) \subseteq Range(apiQueue)
    BY <2>1, RangeTail
  <2>3. DistinctIds(apiQueue') /\ \A j \in Range(apiQueue') : j.id # rmsg'.id
    BY <2>1, DistinctTail DEF HandedOnce
  <2> QED
    BY <2>1, <2>2, <2>3 DEF HandedOnce, Handed, DistinctIds
<1>2. CASE SendStart \/ SendDrop
  <2>1. /\ sendQueue \in Seq(Job) /\ sendQueue # <<>> /\ sendQueue' = Tail(sendQueue)
        /\ current' \in {Head(sendQueue), NoTask}
        /\ UNCHANGED <<cpc, job, calls, apiQueue, rmsg>>
    BY <1>2 DEF TypeOK, SendStart, Startable, SendDrop
  <2>2. Head(sendQueue) \in Range(sendQueue) /\ Range(Tail(sendQueue)) \subseteq Range(sendQueue)
    BY <2>1, RangeTail
  <2>3. DistinctIds(sendQueue') /\ \A j \in Range(sendQueue') : j.id # Head(sendQueue).id
    BY <2>1, DistinctTail DEF HandedOnce
  <2> QED
    BY <2>1, <2>2, <2>3 DEF HandedOnce, Handed, DistinctIds
<1>3. CASE ExternFree \/ EndFree
  <2>1. /\ UNCHANGED <<cpc, job, calls, apiQueue, sendQueue>>
        /\ rmsg' \in {rmsg, NoTask} /\ current' \in {current, NoTask}
    BY <1>3 DEF ExternFree, EndFree
  <2> QED
    BY <2>1 DEF HandedOnce, Handed, DistinctIds
<1>4. CASE \/ ExternGive \/ ExternDone \/ SendSkip \/ Transmit \/ TransmitFails \/ EndNotify \/ EndGive
           \/ RecvDone \/ RecvChunk \/ RecvLine \/ RecvPrompt \/ RecvBinary \/ CheckTimeout \/ ComputeWait \/ Take
           \/ Tick \/ IsrStart \/ IsrStep \/ UNCHANGED vars
  <2>1. UNCHANGED <<cpc, job, calls, apiQueue, sendQueue, rmsg, current>>
    BY <1>4 DEF ExternGive, ExternDone, SendSkip, Transmit, TransmitFails, EndNotify, EndGive, RecvDone, RecvChunk,
      RecvLine, RecvPrompt, RecvBinary, CheckTimeout, ComputeWait, Take, Tick, IsrStart, IsrStep, IsrWrite, IsrFull,
      IsrGive, vars
  <2> QED
    BY <2>1 DEF HandedOnce, Handed, DistinctIds
<1> QED
  BY <1>1, <1>2, <1>3, <1>4, HandedCallers DEF Next, Loop

-----------------------------------------------------------------------------
(* Semaphores and the callers' frames.                                      *)

\* The job of a thread in a call carries the thread's name.
LEMMA JobIds ==
  ASSUME TypeOK, ControlOK, NEW c \in Callers, cpc[c] # "idle"
  PROVE  /\ job[c] \in Job /\ job[c].id = <<c, calls[c]>> /\ job[c].id \in Tickets
BY DEF ControlOK, Job

\* A ticket that was used before differs from the next one of any thread.
LEMMA FreshTicket ==
  ASSUME TypeOK, NEW c \in Callers, NEW t \in Tickets, t[2] <= calls[t[1]]
  PROVE  t # <<c, calls[c] + 1>>
BY ConstantsAssumption DEF TypeOK, Tickets

LEMMA CallsGrow ==
  ASSUME TypeOK, NEW c \in Callers, NEW t \in Tickets, t[2] <= calls[t[1]],
         calls' = [calls EXCEPT ![c] = @ + 1]
  PROVE  t[2] <= calls'[t[1]]
<1>1. t[1] \in Callers /\ t[2] \in Nat
  BY DEF Tickets
<1>2. calls[t[1]] \in Nat /\ calls'[t[1]] \in {calls[t[1]], calls[t[1]] + 1}
  BY <1>1, ConstantsAssumption DEF TypeOK
<1> QED
  BY <1>1, <1>2

LEMMA SemaphoreBlock ==
  ASSUME NEW j \in Job, j.req.sync
  PROVE  <<j.id, "sem">> \in Blocks(j)
<1>1. "sem" = AllocOrder(j.req)[2] /\ 2 \in DOMAIN AllocOrder(j.req)
  <2>1. CASE j.req.api \in MsgApis
    BY <2>1 DEF AllocOrder
  <2>2. CASE j.req.api \notin MsgApis /\ j.req.api = "send"
    BY <2>2 DEF AllocOrder
  <2>3. CASE j.req.api \notin MsgApis /\ j.req.api # "send"
    <3>1. AllocOrder(j.req) = <<"data", "sem", "prompt">>
      BY <2>3 DEF AllocOrder
    <3> QED
      BY <3>1
  <2> QED
    BY <2>1, <2>2, <2>3
<1>2. "sem" \in Range(AllocOrder(j.req))
  BY <1>1 DEF Range
<1> QED
  BY <1>2 DEF Blocks

LEMMA SemaphoresInit == Init => SemaphoresOK
BY DEF Init, SemaphoresOK

LEMMA SemaphoresCallers ==
  ASSUME TypeOK, ControlOK, SemaphoresOK, NEW c \in Callers, CallerNext(c)
  PROVE  SemaphoresOK'
<1> USE DEF callVars, queueVars, taskVars, timeVars, urcVars, lineVars
<1> DEFINE Holds(d) == /\ <<job[d].id, "sem">> \in heap
                       /\ cpc[d] = "enqueue" => job[d].id \notin given
           InCall(d) == cpc[d] \in {"enqueue", "giveWake", "await", "delete"} /\ job[d].req.sync
<1>0. given \subseteq Tickets
  BY DEF TypeOK
<1>1. ASSUME NEW req \in Requests, Call(c, req) PROVE SemaphoresOK'
  <2> DEFINE j == [id |-> <<c, calls[c] + 1>>, req |-> req]
  <2>1. /\ job' = [job EXCEPT ![c] = j] /\ heap' = heap \cup Blocks(j)
        /\ calls' = [calls EXCEPT ![c] = @ + 1] /\ cpc' = [cpc EXCEPT ![c] = "enqueue"]
        /\ UNCHANGED given
    BY <1>1 DEF Call
  <2>2. j \in Job
    <3>1. calls[c] + 1 \in 1 .. MaxCalls
      BY <1>1, ConstantsAssumption DEF TypeOK, Call
    <3> QED
      BY <3>1, RequestsAssumption DEF Job, Tickets
  <2>3. \A t \in given' : t[2] <= calls'[t[1]]
    BY <1>0, <2>1, CallsGrow DEF SemaphoresOK
  <2>4. j.id \notin given
    BY <1>0, FreshTicket DEF SemaphoresOK
  <2>5. ASSUME NEW d \in Callers, InCall(d)' PROVE Holds(d)'
    <3>1. CASE d = c
      <4>1. job'[d] = j /\ j.req.sync
        BY <2>1, <2>5, <3>1 DEF TypeOK
      <4>2. <<j.id, "sem">> \in Blocks(j)
        BY <2>2, <4>1, SemaphoreBlock
      <4> QED
        BY <2>1, <2>4, <4>1, <4>2
    <3>2. CASE d # c
      BY <2>1, <2>5, <3>2 DEF TypeOK, SemaphoresOK
    <3> QED
      BY <3>1, <3>2
  <2> QED
    BY <2>3, <2>5 DEF SemaphoresOK
<1>2. ASSUME NEW req \in Requests, CallFails(c, req) PROVE SemaphoresOK'
  <2>1. heap' = heap
    BY <1>2 DEF CallFails, Unwound
  <2>2. calls' = [calls EXCEPT ![c] = @ + 1] /\ UNCHANGED <<cpc, job, given>>
    BY <1>2 DEF CallFails
  <2>3. \A t \in given' : t[2] <= calls'[t[1]]
    BY <1>0, <2>2, CallsGrow DEF SemaphoresOK
  <2> QED
    BY <2>1, <2>2, <2>3 DEF SemaphoresOK
<1>3. CASE EnqueueTask(c) \/ EnqueueMsg(c)
  <2>1. UNCHANGED <<job, calls, given, heap>> /\ cpc[c] = "enqueue" /\ cpc' = [cpc EXCEPT ![c] = "giveWake"]
    BY <1>3 DEF EnqueueTask, EnqueueMsg
  <2> QED
    BY <2>1 DEF TypeOK, SemaphoresOK
<1>4. CASE EnqueueTimeout(c) \/ Return(c)
  <2>1. /\ cpc[c] # "idle" /\ cpc' = [cpc EXCEPT ![c] = "idle"] /\ job' = [job EXCEPT ![c] = NoTask]
        /\ UNCHANGED <<calls, given>>
    BY <1>4 DEF EnqueueTimeout, Return
  <2>2. \A b \in heap \ heap' : b[1] = job[c].id
    BY <1>4 DEF EnqueueTimeout, Return, Blocks
  <2>3. ASSUME NEW d \in Callers, InCall(d)' PROVE Holds(d)'
    <3>1. d # c /\ InCall(d) /\ job'[d] = job[d] /\ cpc'[d] = cpc[d]
      BY <2>1, <2>3 DEF TypeOK
    <3>2. job[d].id # job[c].id
      BY <2>1, <3>1, JobIds
    <3>3. <<job[d].id, "sem">> \in heap'
      BY <2>2, <3>1, <3>2 DEF SemaphoresOK
    <3> QED
      BY <2>1, <3>1, <3>3 DEF SemaphoresOK
  <2> QED
    BY <2>1, <2>3 DEF SemaphoresOK
<1>5. CASE GiveWake(c)
  BY <1>5 DEF TypeOK, SemaphoresOK, GiveWake
<1>6. CASE Awaken(c)
  BY <1>6 DEF TypeOK, SemaphoresOK, Awaken
<1> QED
  BY <1>1, <1>2, <1>3, <1>4, <1>5, <1>6 DEF CallerNext, CallStep

LEMMA SemaphoresNext ==
  ASSUME TypeOK, ControlOK, HandedOnce, SemaphoresOK, [Next]_vars
  PROVE  SemaphoresOK'
<1> USE DEF callVars, queueVars, taskVars, timeVars, urcVars, lineVars
<1>1. ASSUME NEW j \in HandedJobs, given' = given \cup {j.id}, UNCHANGED <<cpc, job, calls, heap>>
      PROVE  SemaphoresOK'
  BY <1>1 DEF SemaphoresOK, HandedOnce, HandedJobs
<1>2. CASE ExternGive
  <2>1. rmsg \in HandedJobs
    BY <1>2, NoTaskIsNone DEF ControlOK, ExternGive, HandedJobs, Handed
  <2> QED
    BY <1>1, <1>2, <2>1 DEF ExternGive
<1>3. CASE EndGive
  <2>1. current \in HandedJobs
    BY <1>3 DEF ControlOK, EndGive, HandedJobs, Handed
  <2> QED
    BY <1>1, <1>3, <2>1 DEF EndGive
<1>4. CASE ExternFree \/ SendStart \/ EndFree
  <2>1. UNCHANGED <<cpc, job, calls, given>> /\ \A t \in Tickets : <<t, "sem">> \in heap => <<t, "sem">> \in heap'
    BY <1>4 DEF ExternFree, SendStart, EndFree
  <2>2. \A c \in Callers : cpc[c] # "idle" => job[c].id \in Tickets
    BY JobIds
  <2> QED
    BY <2>1, <2>2 DEF SemaphoresOK
<1>5. CASE \/ ExternHandle \/ ExternDone \/ SendSkip \/ SendDrop \/ Transmit \/ TransmitFails \/ EndNotify
           \/ RecvDone \/ RecvChunk \/ RecvLine \/ RecvPrompt \/ RecvBinary \/ CheckTimeout \/ ComputeWait \/ Take
           \/ Tick \/ IsrStart \/ IsrStep \/ UNCHANGED vars
  <2>1. UNCHANGED <<cpc, job, calls, given, heap>>
    BY <1>5 DEF ExternHandle, ExternDone, SendSkip, SendDrop, Transmit, TransmitFails, EndNotify, RecvDone, RecvChunk,
      RecvLine, RecvPrompt, RecvBinary, CheckTimeout, ComputeWait, Take, Tick, IsrStart, IsrStep, IsrWrite, IsrFull,
      IsrGive, vars
  <2> QED
    BY <2>1 DEF SemaphoresOK
<1> QED
  BY <1>2, <1>3, <1>4, <1>5, SemaphoresCallers DEF Next, Loop

\* What CallerFrameAlive says of one job.
Alive(j) == /\ job[j.id[1]] = j /\ cpc[j.id[1]] \in {"giveWake", "await"}
            /\ <<j.id, "sem">> \in heap /\ j.id \notin given

LEMMA FrameIsAlive == CallerFrameAlive <=> \A j \in AwaitedJobs : Alive(j)
BY DEF CallerFrameAlive, Alive

LEMMA AwaitedType ==
  ASSUME TypeOK, ControlOK
  PROVE  \A j \in AwaitedJobs : j \in HandedJobs /\ j \in Job /\ j.id \in Tickets /\ j.id[1] \in Callers /\ j.req.sync
<1>1. AwaitedJobs \subseteq HandedJobs
  BY NoTaskIsNone DEF ControlOK, AwaitedJobs, HandedJobs, Handed
<1>2. \A j \in HandedJobs : j \in Job
  BY HandedType
<1>3. \A j \in AwaitedJobs : j.req.sync
  BY DEF ControlOK, AwaitedJobs
<1> QED
  BY <1>1, <1>2, <1>3, TicketsOfCallers DEF Job

LEMMA FrameInit == Init => CallerFrameAlive
BY DEF Init, CallerFrameAlive, AwaitedJobs, Range

LEMMA FrameCallers ==
  ASSUME TypeOK, ControlOK, SemaphoresOK, CallerFrameAlive, NEW c \in Callers, CallerNext(c)
  PROVE  CallerFrameAlive'
<1> USE DEF callVars, queueVars, taskVars, timeVars, urcVars, lineVars
<1>0. \A j \in AwaitedJobs : Alive(j) /\ j.id[1] \in Callers /\ j \in Job /\ j.id \in Tickets
  BY FrameIsAlive, AwaitedType
<1>1. ASSUME NEW req \in Requests, Call(c, req) PROVE CallerFrameAlive'
  <2>1. /\ cpc[c] = "idle" /\ \A d \in Callers \ {c} : job'[d] = job[d] /\ cpc'[d] = cpc[d]
        /\ heap \subseteq heap' /\ UNCHANGED <<given, apiQueue, sendQueue, lpc, rmsg, current>>
    BY <1>1 DEF TypeOK, Call
  <2>2. AwaitedJobs' = AwaitedJobs
    BY <2>1 DEF AwaitedJobs
  <2> QED
    BY <1>0, <2>1, <2>2, FrameIsAlive DEF Alive, CallerFrameAlive
<1>2. ASSUME NEW req \in Requests, CallFails(c, req) PROVE CallerFrameAlive'
  <2>1. heap' = heap
    BY <1>2 DEF CallFails, Unwound
  <2>2. UNCHANGED <<cpc, job, given, apiQueue, sendQueue, lpc, rmsg, current>>
    BY <1>2 DEF CallFails
  <2> QED
    BY <2>1, <2>2 DEF CallerFrameAlive, AwaitedJobs
<1>3. CASE EnqueueTask(c) \/ EnqueueMsg(c)
  <2>1. /\ cpc[c] = "enqueue" /\ cpc' = [cpc EXCEPT ![c] = "giveWake"]
        /\ UNCHANGED <<job, given, heap, lpc, rmsg, current>>
    BY <1>3 DEF EnqueueTask, EnqueueMsg
  <2>2. job[c] \in Job /\ job[c].id = <<c, calls[c]>>
    BY <2>1, JobIds
  <2>3. Range(apiQueue') \cup Range(sendQueue') = Range(apiQueue) \cup Range(sendQueue) \cup {job[c]}
    <3>1. /\ apiQueue \in Seq(Job) /\ sendQueue \in Seq(Job)
          /\ \/ apiQueue' = Append(apiQueue, job[c]) /\ sendQueue' = sendQueue
             \/ sendQueue' = Append(sendQueue, job[c]) /\ apiQueue' = apiQueue
      BY <1>3 DEF TypeOK, EnqueueTask, EnqueueMsg
    <3>2. /\ Range(Append(apiQueue, job[c])) = Range(apiQueue) \cup {job[c]}
          /\ Range(Append(sendQueue, job[c])) = Range(sendQueue) \cup {job[c]}
      BY <2>2, <3>1, RangeAppend
    <3>3. \/ Range(apiQueue') = Range(apiQueue) \cup {job[c]} /\ Range(sendQueue') = Range(sendQueue)
          \/ Range(sendQueue') = Range(sendQueue) \cup {job[c]} /\ Range(apiQueue') = Range(apiQueue)
      BY <3>1, <3>2
    <3> QED
      BY <3>3
  <2>4. \A j \in AwaitedJobs' : j \in AwaitedJobs \/ (j = job[c] /\ j.req.sync)
    BY <2>1, <2>3 DEF AwaitedJobs
  <2>5. ASSUME NEW j \in AwaitedJobs' PROVE Alive(j)'
    <3>1. CASE j = job[c] /\ j.req.sync
      BY <2>1, <2>2, <3>1 DEF TypeOK, SemaphoresOK, Alive
    <3>2. CASE j \in AwaitedJobs
      BY <1>0, <2>1, <3>2 DEF TypeOK, Alive
    <3> QED
      BY <2>4, <3>1, <3>2
  <2> QED
    BY <2>5 DEF CallerFrameAlive, Alive
<1>4. CASE EnqueueTimeout(c) \/ Return(c)
  <2>1. /\ cpc[c] \in {"enqueue", "delete"} /\ cpc' = [cpc EXCEPT ![c] = "idle"]
        /\ job' = [job EXCEPT ![c] = NoTask]
        /\ UNCHANGED <<calls, given, apiQueue, sendQueue, lpc, rmsg, current>>
    BY <1>4 DEF EnqueueTimeout, Return
  <2>2. \A b \in heap \ heap' : b[1] = job[c].id
    BY <1>4 DEF EnqueueTimeout, Return, Blocks
  <2>3. job[c].id[1] = c
    BY <2>1, JobIds
  <2>4. ASSUME NEW j \in AwaitedJobs PROVE Alive(j)'
    <3>1. Alive(j) /\ j.id[1] # c /\ j.id[1] \in Callers
      BY <1>0, <2>1 DEF Alive
    <3>2. <<j.id, "sem">> \in heap'
      BY <2>2, <2>3, <3>1 DEF Alive
    <3> QED
      BY <2>1, <3>1, <3>2 DEF TypeOK, Alive
  <2>5. AwaitedJobs' = AwaitedJobs
    BY <2>1 DEF AwaitedJobs
  <2> QED
    BY <2>4, <2>5 DEF CallerFrameAlive, Alive
<1>5. CASE GiveWake(c)
  <2>1. /\ cpc[c] = "giveWake" /\ UNCHANGED <<given, heap, apiQueue, sendQueue, lpc, rmsg, current>>
        /\ \A d \in Callers \ {c} : job'[d] = job[d] /\ cpc'[d] = cpc[d]
        /\ job[c].req.sync => job'[c] = job[c] /\ cpc'[c] = "await"
    BY <1>5 DEF TypeOK, GiveWake
  <2>2. ASSUME NEW j \in AwaitedJobs PROVE Alive(j)'
    <3>1. Alive(j) /\ j.req.sync /\ j.id[1] \in Callers
      BY <1>0, AwaitedType
    <3> QED
      BY <2>1, <3>1 DEF Alive
  <2>3. AwaitedJobs' = AwaitedJobs
    BY <2>1 DEF AwaitedJobs
  <2> QED
    BY <2>2, <2>3 DEF CallerFrameAlive, Alive
<1>6. CASE Awaken(c)
  <2>1. /\ job[c].id \in given /\ given' \subseteq given /\ cpc' = [cpc EXCEPT ![c] = "delete"]
        /\ UNCHANGED <<job, heap, apiQueue, sendQueue, lpc, rmsg, current>>
    BY <1>6 DEF Awaken
  <2>2. ASSUME NEW j \in AwaitedJobs PROVE Alive(j)'
    BY <1>0, <2>1 DEF TypeOK, Alive
  <2>3. AwaitedJobs' = AwaitedJobs
    BY <2>1 DEF AwaitedJobs
  <2> QED
    BY <2>2, <2>3 DEF CallerFrameAlive, Alive
<1> QED
  BY <1>1, <1>2, <1>3, <1>4, <1>5, <1>6 DEF CallerNext, CallStep

LEMMA FrameLoop ==
  ASSUME TypeOK, ControlOK, HandedOnce, CallerFrameAlive, Loop
  PROVE  CallerFrameAlive'
<1> USE DEF callVars, queueVars, taskVars, timeVars, urcVars, lineVars
<1>0. \A j \in AwaitedJobs : Alive(j) /\ j.id[1] \in Callers /\ j \in Job /\ j.id \in Tickets
  BY FrameIsAlive, AwaitedType
<1>1. ASSUME AwaitedJobs' \subseteq AwaitedJobs, UNCHANGED <<cpc, job, given>>,
             \A t \in Tickets : <<t, "sem">> \in heap => <<t, "sem">> \in heap'
      PROVE  CallerFrameAlive'
  BY <1>0, <1>1 DEF Alive, CallerFrameAlive
<1>2. CASE ExternHandle
  <2>1. /\ apiQueue \in Seq(Job) /\ apiQueue # <<>> /\ apiQueue' = Tail(apiQueue) /\ rmsg' = Head(apiQueue)
        /\ lpc = "extern" /\ lpc' = "externGive"
        /\ UNCHANGED <<cpc, job, given, heap, sendQueue, current>>
    BY <1>2 DEF TypeOK, ExternHandle
  <2>2. Head(apiQueue) \in Range(apiQueue) /\ Range(Tail(apiQueue)) \subseteq Range(apiQueue)
    BY <2>1, RangeTail
  <2>3. AwaitedJobs' \subseteq AwaitedJobs
    BY <2>1, <2>2 DEF AwaitedJobs, ControlOK
  <2> QED
    BY <1>1, <2>1, <2>3
<1>3. CASE SendStart \/ SendDrop
  <2>1. /\ sendQueue \in Seq(Job) /\ sendQueue # <<>> /\ sendQueue' = Tail(sendQueue)
        /\ current' \in {Head(sendQueue), NoTask}
        /\ lpc = "send" /\ lpc' \in {"transmit", "recv"} /\ heap \subseteq heap'
        /\ UNCHANGED <<cpc, job, given, apiQueue, rmsg>>
    BY <1>3 DEF TypeOK, SendStart, Startable, SendDrop
  <2>2. Head(sendQueue) \in Range(sendQueue) /\ Range(Tail(sendQueue)) \subseteq Range(sendQueue)
    BY <2>1, RangeTail
  <2>3. AwaitedJobs' \subseteq AwaitedJobs
    BY <2>1, <2>2 DEF AwaitedJobs
  <2> QED
    BY <1>1, <2>1, <2>3
<1>4. CASE ExternGive
  <2>1. /\ lpc = "externGive" /\ lpc' = "externFree" /\ given' = given \cup {rmsg.id}
        /\ UNCHANGED <<cpc, job, heap, apiQueue, sendQueue, rmsg, current>>
    BY <1>4 DEF ExternGive
  <2>2. rmsg \in AwaitedJobs /\ IsMsg(rmsg) /\ rmsg \in Job
    BY <2>1 DEF AwaitedJobs, ControlOK
  <2>3. ASSUME NEW j \in AwaitedJobs' PROVE j \in AwaitedJobs /\ j.id # rmsg.id
    <3>1. j \in AwaitedJobs
      BY <2>1 DEF AwaitedJobs
    <3>2. CASE j \in Range(apiQueue)
      BY <2>2, <3>1, <3>2, NoTaskIsNone DEF HandedOnce
    <3>3. CASE j \notin Range(apiQueue)
      <4>1. ~IsMsg(j)
        BY <2>1, <3>3 DEF AwaitedJobs, ControlOK
      <4> QED
        BY <1>0, <2>2, <3>1, <4>1 DEF Alive
    <3> QED
      BY <3>1, <3>2, <3>3
  <2> QED
    BY <1>0, <2>1, <2>3 DEF Alive, CallerFrameAlive
<1>5. CASE EndGive
  <2>1. /\ lpc = "endGive" /\ lpc' = "endFree" /\ given' = given \cup {current.id}
        /\ UNCHANGED <<cpc, job, heap, apiQueue, sendQueue, rmsg, current>>
    BY <1>5 DEF EndGive
  <2>2. current # NoTask /\ ~IsMsg(current) /\ current.req.sync
    BY <2>1 DEF ControlOK
  <2>3. ASSUME NEW j \in AwaitedJobs' PROVE j \in AwaitedJobs /\ j.id # current.id
    <3>1. j \in Range(apiQueue) \cup Range(sendQueue) /\ j \in AwaitedJobs
      BY <2>1 DEF AwaitedJobs
    <3>2. CASE j \in Range(sendQueue)
      BY <2>2, <3>1, <3>2 DEF HandedOnce
    <3>3. CASE j \in Range(apiQueue) /\ j.id = current.id
      <4>1. IsMsg(j)
        BY <3>3 DEF ControlOK
      <4>2. current \in AwaitedJobs
        BY <2>1, <2>2 DEF AwaitedJobs
      <4> QED
        BY <1>0, <2>2, <3>1, <3>3, <4>1, <4>2 DEF Alive
    <3> QED
      BY <3>1, <3>2, <3>3
  <2> QED
    BY <1>0, <2>1, <2>3 DEF Alive, CallerFrameAlive
<1>6. CASE ExternFree \/ EndFree
  <2>1. /\ UNCHANGED <<cpc, job, given, apiQueue, sendQueue>> /\ lpc' \notin {"externGive", "endFree"}
        /\ current' = NoTask \/ (current' = current /\ lpc # "endFree")
        /\ \A t \in Tickets : <<t, "sem">> \in heap => <<t, "sem">> \in heap'
    BY <1>6 DEF ExternFree, EndFree
  <2>2. AwaitedJobs' \subseteq AwaitedJobs
    BY <2>1 DEF AwaitedJobs
  <2> QED
    BY <1>1, <2>1, <2>2
<1>7. CASE \/ ExternDone \/ SendSkip \/ Transmit \/ TransmitFails \/ EndNotify \/ RecvDone \/ RecvChunk \/ RecvLine
           \/ RecvPrompt \/ RecvBinary \/ CheckTimeout \/ ComputeWait \/ Take
  <2>1. /\ UNCHANGED <<cpc, job, given, heap, apiQueue, sendQueue, rmsg, current>>
        /\ lpc \notin {"externGive", "endFree"} /\ lpc' # "externGive"
    BY <1>7 DEF ExternDone, SendSkip, Transmit, TransmitFails, EndNotify, RecvDone, RecvChunk, RecvLine, RecvPrompt,
      RecvBinary, CheckTimeout, ComputeWait, Take, EndTask
  <2>2. AwaitedJobs' \subseteq AwaitedJobs
    BY <2>1 DEF AwaitedJobs
  <2> QED
    BY <1>1, <2>1, <2>2
<1> QED
  BY <1>2, <1>3, <1>4, <1>5, <1>6, <1>7 DEF Loop

\* The inductive invariant behind the memory safety of synchronous calls.
FrameInv == TypeOK /\ ControlOK /\ HandedOnce /\ SemaphoresOK /\ CallerFrameAlive

LEMMA FrameNext == FrameInv /\ [Next]_vars => FrameInv'
<1> SUFFICES ASSUME FrameInv, [Next]_vars PROVE FrameInv'
  OBVIOUS
<1>1. TypeOK' /\ ControlOK' /\ HandedOnce' /\ SemaphoresOK'
  BY TypeNext, ControlNext, HandedNext, SemaphoresNext DEF FrameInv
<1>2. CASE Tick \/ IsrStart \/ IsrStep \/ UNCHANGED vars
  <2>1. UNCHANGED <<cpc, job, given, heap, apiQueue, sendQueue, lpc, rmsg, current>>
    BY <1>2 DEF Tick, IsrStart, IsrStep, IsrWrite, IsrFull, IsrGive, vars, callVars, queueVars, taskVars
  <2> QED
    BY <1>1, <2>1 DEF FrameInv, CallerFrameAlive, AwaitedJobs
<1> QED
  BY <1>1, <1>2, FrameCallers, FrameLoop DEF FrameInv, Next

\* The loop thread only ever writes to the frame, and gives the semaphore, of
\* a synchronous call that has not returned: a registration, a command or a
\* prompt command that is queued or running has its thread still inside the
\* call, and the semaphore exists and was not given. The task and the message
\* hold raw pointers into that frame, so this is what makes them safe.
THEOREM FramesAlive == Spec => []CallerFrameAlive
<1>1. Init => FrameInv
  BY TypeInit, ControlInit, HandedInit, SemaphoresInit, FrameInit DEF FrameInv
<1>2. FrameInv /\ [Next]_vars => FrameInv'
  BY FrameNext
<1>3. FrameInv => CallerFrameAlive
  BY DEF FrameInv
<1> QED
  BY <1>1, <1>2, <1>3, PTL DEF Spec

LEMMA FrameInvariant == Spec => []FrameInv
<1>1. Init => FrameInv
  BY TypeInit, ControlInit, HandedInit, SemaphoresInit, FrameInit DEF FrameInv
<1> QED
  BY <1>1, FrameNext, PTL DEF Spec

-----------------------------------------------------------------------------
(* Steps that neither hand anything over nor give anything back.            *)

QuietStep ==
  \/ ExternDone \/ SendSkip \/ Transmit \/ TransmitFails
  \/ RecvDone \/ RecvChunk \/ RecvLine \/ RecvPrompt \/ RecvBinary
  \/ CheckTimeout \/ ComputeWait \/ Take
  \/ Tick \/ IsrStart \/ IsrStep \/ UNCHANGED vars

\* Where the loop thread holds a message or a result that has been reported.
Holding == {"externGive", "externFree", "endGive", "endFree"}

LEMMA QuietStepKeeps ==
  ASSUME QuietStep
  PROVE  /\ UNCHANGED <<cpc, job, calls, out, apiQueue, sendQueue, given, heap, rmsg, current, delivered>>
         /\ lpc' = lpc \/ {lpc, lpc'} \cap Holding = {}
<1> USE DEF callVars, queueVars, taskVars, timeVars, urcVars, lineVars, Holding
<1>1. CASE ExternDone \/ SendSkip \/ Transmit \/ TransmitFails
  BY <1>1 DEF ExternDone, SendSkip, Transmit, TransmitFails, EndTask
<1>2. CASE RecvDone \/ RecvChunk \/ RecvLine
  BY <1>2 DEF RecvDone, RecvChunk, RecvLine, EndTask
<1>3. CASE RecvPrompt \/ RecvBinary
  BY <1>3 DEF RecvPrompt, RecvBinary, EndTask
<1>4. CASE CheckTimeout \/ ComputeWait \/ Take
  BY <1>4 DEF CheckTimeout, ComputeWait, Take, EndTask
<1>5. CASE Tick \/ IsrStart \/ IsrStep \/ UNCHANGED vars
  BY <1>5 DEF Tick, IsrStart, IsrStep, IsrWrite, IsrFull, IsrGive, vars
<1> QED
  BY <1>1, <1>2, <1>3, <1>4, <1>5 DEF QuietStep

LEMMA StepKinds ==
  ASSUME [Next]_vars
  PROVE  \/ QuietStep \/ \E c \in Callers : CallerNext(c)
         \/ ExternHandle \/ ExternGive \/ ExternFree
         \/ SendStart \/ SendDrop \/ EndNotify \/ EndGive \/ EndFree
BY DEF Next, Loop, QuietStep
===============================================================================
