------------------------------ MODULE EventLoop ------------------------------
(***************************************************************************)
(* One ATCortex context: the thread that runs atc_process, the application *)
(* threads that call the public API, the UART interrupt that calls         *)
(* atc_receive_data, and the modem at the other end of the line.           *)
(*                                                                         *)
(* Received data is abstracted to items: a complete line ("ok", "error",   *)
(* "text" or "urc") or an unterminated chunk ("prompt": the bytes of the   *)
(* prompt string; "data": one unit of binary data).                        *)
(***************************************************************************)
EXTENDS Integers, Sequences, FiniteSets, Functions, UrcHandle

CONSTANTS
  Callers,        \* the application threads
  Requests,       \* the API calls a thread may make, see Request
  MaxCalls,       \* bound: calls made by one thread
  SendQueueLen,   \* depth of send_queue (6 in the code)
  ApiQueueLen,    \* depth of external_api_queue (5 in the code)
  RxCap,          \* items the receive ring holds
  MaxBurst,       \* bound: items passed to one atc_receive_data call
  UrcBudget,      \* bound: unsolicited lines the modem sends
  ResponseMax,    \* ATC_RX_RESPONSE_MAX, in items
  BufLen,         \* room in a synchronous caller's response_buf, in items
  TickMod,        \* 2^32 in the code: the width of the millisecond tick
  MaxLag,         \* bound: ticks that pass while the loop thread is runnable
  MayFail,        \* which operations may fail, a subset of FailurePoints
  NullReadTraps,  \* whether reading through a NULL task pointer may trap
  LineAnswers,    \* what the modem may answer to a line command
  PromptAnswers,  \* what the modem may answer to a prompt command
  NoTask          \* a NULL pointer

ATC_TIMEOUT_MAX == TickMod - 1

MsgApis == {"register", "unregister"}
Apis == {"send", "prompt"} \cup MsgApis
Results == {"ATC_SUCCESS", "ATC_ERROR", "ATC_TIMEOUT", "ATC_HARDWARE_ERROR"}
BlockKinds == {"data", "sem", "prompt", "msg", "task"}
LineKinds == {"ok", "error", "text", "urc"}
Kinds == LineKinds \cup {"prompt", "data"}
FailurePoints == {"api alloc", "task alloc", "entry alloc", "atc_send"}

\* A call: arg is recv_len for "prompt" and the identifier for "unregister".
Request == [api : Apis, sync : BOOLEAN, timeout : 0 .. ATC_TIMEOUT_MAX, arg : Nat]

Tickets == Callers \X (1 .. MaxCalls)

\* A struct send_task or a struct msg; id stands for the addresses in it.
Job == [id : Tickets, req : Requests]
Item == [kind : Kinds, of : Tickets \cup {NoTask}]

ASSUME ConstantsAssumption ==
  /\ MaxCalls \in Nat /\ UrcBudget \in Nat /\ MaxLag \in Nat
  /\ SendQueueLen \in Nat \ {0} /\ ApiQueueLen \in Nat \ {0}
  /\ RxCap \in Nat \ {0} /\ MaxBurst \in Nat \ {0}
  /\ ResponseMax \in Nat \ {0} /\ BufLen \in Nat
  /\ TickMod \in Nat \ {0, 1}
  /\ MayFail \subseteq FailurePoints
  /\ NullReadTraps \in BOOLEAN
  /\ LineAnswers \subseteq Seq(Kinds) /\ PromptAnswers \subseteq Seq(Kinds)
  /\ NoTask \notin Job \cup Tickets

ASSUME RequestsAssumption ==
  /\ Requests \subseteq Request
  /\ \A r \in Requests : r.api \in MsgApis => r.sync

VARIABLES
  cpc, job, calls, out,          \* per thread: control, call in progress, calls made, out-parameters
  apiQueue, sendQueue,           \* external_api_queue, send_queue
  wake, given,                   \* wake_semaphore; the callers' semaphores whose count is 1
  heap,                          \* live allocations: <<ticket, kind of block>>
  lpc, rmsg,                     \* control of the loop thread; the message it is handling
  current, status, timestamp,    \* current_send_task and two of its fields
  respLen, ending,               \* response_length; arguments of the running command_end_handle
  waitLeft, now, lag, age,       \* time left in the take; tick; ticks this round; ticks since dispatch
  urcIds, urcNextId,             \* identifiers in urc_handler_list; urc_next_id
  rx, partial,                   \* receive ring; whether line_buffer holds an unfinished line
  isrPc, isrBuf, modem, urcLeft, \* the interrupt, its unread data; the modem's pending output
  delivered                      \* history: the result each response handler was called with

callVars == <<cpc, job, calls, out>>
queueVars == <<apiQueue, sendQueue>>
taskVars == <<current, status, timestamp, respLen, ending>>
timeVars == <<waitLeft, now, lag, age>>
urcVars == <<urcIds, urcNextId>>
lineVars == <<isrPc, isrBuf, modem, urcLeft>>
vars == <<callVars, queueVars, wake, given, heap, lpc, rmsg, taskVars, timeVars,
          urcVars, rx, partial, lineVars, delivered>>

NotEnding == [result |-> "ATC_SUCCESS", from |-> "recv", of |-> NoTask]

IsMsg(j) == j.req.api \in MsgApis

\* 0 asks for no timeout and is replaced by ATC_TIMEOUT_MAX.
Timeout_Zero(j) == j.req.timeout   \* mutant: it is not
Timeout(j) == IF j.req.timeout = 0 THEN ATC_TIMEOUT_MAX ELSE j.req.timeout

\* uint32_t arithmetic: the ticks since dispatch, modulo 2^32.
Elapsed_NoWrap == now - timestamp   \* mutant: the difference is not modulo 2^32
Elapsed == (now - timestamp) % TickMod

\* What is left of the running command's timeout.
Remaining_Whole == Timeout(current)    \* mutant: the time already spent is forgotten
Remaining_Forever == ATC_TIMEOUT_MAX   \* mutant: the wait is not shortened at all
Remaining == IF Elapsed < Timeout(current) THEN Timeout(current) - Elapsed ELSE 0

\* The allocations of a call, in the order it makes them.
AllocOrder(req) ==
  IF req.api \in MsgApis THEN <<"msg", "sem">>
  ELSE IF req.api = "send" THEN IF req.sync THEN <<"data", "sem">> ELSE <<"data">>
  ELSE IF req.sync THEN <<"data", "sem", "prompt">> ELSE <<"data", "prompt">>

Blocks(j) == {j.id} \X Range(AllocOrder(j.req))

\* What the error path frees when allocation number k fails.
Unwound_First(req, k) == {AllocOrder(req)[1]}   \* mutant: only the first block is freed
Unwound(req, k) == {AllocOrder(req)[i] : i \in 1 .. k - 1}

Init ==
  /\ cpc = [c \in Callers |-> "idle"] /\ job = [c \in Callers |-> NoTask]
  /\ calls = [c \in Callers |-> 0]
  /\ out = [c \in Callers |-> [result |-> "unset", value |-> 0]]
  /\ apiQueue = <<>> /\ sendQueue = <<>>
  /\ wake = FALSE /\ given = {} /\ heap = {}
  /\ lpc = "extern" /\ rmsg = NoTask
  /\ current = NoTask /\ status = "LINE_RECV" /\ timestamp = 0
  /\ respLen = 0 /\ ending = NotEnding
  /\ waitLeft = 0 /\ now = 0 /\ lag = 0 /\ age = 0
  /\ urcIds = {} /\ urcNextId = 1
  /\ rx = <<>> /\ partial = FALSE
  /\ isrPc = "idle" /\ isrBuf = <<>> /\ modem = <<>> /\ urcLeft = UrcBudget
  /\ delivered = [t \in Tickets |-> "none"]

-----------------------------------------------------------------------------
(* The application threads: the functions of send_msg_handle.c and          *)
(* extern_msg_handle.c that run in the caller's context.                    *)

\* Allocate everything the call needs and build the task or the message.
Call(c, req) ==
  /\ cpc[c] = "idle" /\ calls[c] < MaxCalls
  /\ LET j == [id |-> <<c, calls[c] + 1>>, req |-> req]
     IN  /\ job' = [job EXCEPT ![c] = j]
         /\ heap' = heap \cup Blocks(j)
  /\ calls' = [calls EXCEPT ![c] = @ + 1]
  /\ out' = [out EXCEPT ![c] = [result |-> "unset", value |-> IF req.api \in MsgApis THEN 0 ELSE BufLen]]
  /\ cpc' = [cpc EXCEPT ![c] = "enqueue"]
  /\ UNCHANGED <<queueVars, wake, given, lpc, rmsg, taskVars, timeVars, urcVars, rx, partial, lineVars, delivered>>

\* The k-th allocation fails: the error path frees the others, ATC_ERROR.
CallFails(c, req) ==
  /\ "api alloc" \in MayFail
  /\ cpc[c] = "idle" /\ calls[c] < MaxCalls
  /\ \E k \in DOMAIN AllocOrder(req) :
       heap' = heap \cup ({<<c, calls[c] + 1>>} \X
                           ({AllocOrder(req)[i] : i \in 1 .. k - 1} \ Unwound(req, k)))
  /\ calls' = [calls EXCEPT ![c] = @ + 1]
  /\ UNCHANGED <<cpc, job, out, queueVars, wake, given, lpc, rmsg, taskVars, timeVars, urcVars, rx, partial,
                 lineVars, delivered>>

\* atc_queue_send copies the task or the message into a queue with room.
EnqueueTask(c) ==
  /\ cpc[c] = "enqueue" /\ ~IsMsg(job[c])
  /\ Len(sendQueue) < SendQueueLen
  /\ sendQueue' = Append(sendQueue, job[c])
  /\ cpc' = [cpc EXCEPT ![c] = "giveWake"]
  /\ UNCHANGED <<job, calls, out, apiQueue, wake, given, heap, lpc, rmsg, taskVars, timeVars, urcVars, rx, partial,
                 lineVars, delivered>>

EnqueueMsg(c) ==
  /\ cpc[c] = "enqueue" /\ IsMsg(job[c])
  /\ Len(apiQueue) < ApiQueueLen
  /\ apiQueue' = Append(apiQueue, job[c])
  /\ cpc' = [cpc EXCEPT ![c] = "giveWake"]
  /\ UNCHANGED <<job, calls, out, sendQueue, wake, given, heap, lpc, rmsg, taskVars, timeVars, urcVars, rx, partial,
                 lineVars, delivered>>

\* The queue stayed full for 1000 ms: free everything, ATC_ERROR.
EnqueueTimeout(c) ==
  /\ cpc[c] = "enqueue"
  /\ IF IsMsg(job[c]) THEN Len(apiQueue) = ApiQueueLen ELSE Len(sendQueue) = SendQueueLen
  /\ heap' = heap \ Blocks(job[c])
  /\ job' = [job EXCEPT ![c] = NoTask]
  /\ cpc' = [cpc EXCEPT ![c] = "idle"]
  /\ UNCHANGED <<calls, out, queueVars, wake, given, lpc, rmsg, taskVars, timeVars, urcVars, rx, partial, lineVars,
                 delivered>>


\* Wake the loop thread; an asynchronous call returns ATC_SUCCESS here.
GiveWake(c) ==
  /\ cpc[c] = "giveWake"
  /\ wake' = TRUE
  /\ cpc' = [cpc EXCEPT ![c] = IF job[c].req.sync THEN "await" ELSE "idle"]
  /\ job' = [job EXCEPT ![c] = IF job[c].req.sync THEN @ ELSE NoTask]
  /\ UNCHANGED <<calls, out, queueVars, given, heap, lpc, rmsg, taskVars, timeVars, urcVars, rx, partial, lineVars,
                 delivered>>

\* Mutant: the wait is cut short, the caller goes on without its result.
Awaken_Early(c) ==
  /\ cpc[c] = "await"
  /\ given' = given \ {job[c].id}
  /\ cpc' = [cpc EXCEPT ![c] = "delete"]
  /\ UNCHANGED <<job, calls, out, queueVars, wake, heap, lpc, rmsg, taskVars, timeVars, urcVars, rx, partial, lineVars,
                 delivered>>

\* atc_semaphore_take(task.semaphore, ATC_TIMEOUT_MAX) returns.
Awaken(c) ==
  /\ cpc[c] = "await" /\ job[c].id \in given
  /\ given' = given \ {job[c].id}
  /\ cpc' = [cpc EXCEPT ![c] = "delete"]
  /\ UNCHANGED <<job, calls, out, queueVars, wake, heap, lpc, rmsg, taskVars, timeVars, urcVars, rx, partial, lineVars,
                 delivered>>

\* Delete the semaphore and return: the caller's frame is gone.
Return(c) ==
  /\ cpc[c] = "delete"
  /\ heap' = heap \ {<<job[c].id, "sem">>}
  /\ job' = [job EXCEPT ![c] = NoTask]
  /\ cpc' = [cpc EXCEPT ![c] = "idle"]
  /\ UNCHANGED <<calls, out, queueVars, wake, given, lpc, rmsg, taskVars, timeVars, urcVars, rx, partial, lineVars,
                 delivered>>

\* The steps of a call under way; making a call is the application's choice.
CallStep(c) ==
  \/ EnqueueTask(c) \/ EnqueueMsg(c) \/ EnqueueTimeout(c)
  \/ GiveWake(c) \/ Awaken(c) \/ Return(c)

CallerNext(c) == CallStep(c) \/ \E req \in Requests : Call(c, req) \/ CallFails(c, req)

-----------------------------------------------------------------------------
(* atc_process, first stage: extern_msg_handle drains external_api_queue.   *)

\* _atc_urc_register: the counter has moved on even when the entry or its
\* list node cannot be allocated and -1 (here result ATC_ERROR) is returned.
RegisterUrc(c) ==
  \E id \in UrcId :
    /\ IsAssigned(id, urcIds, urcNextId)
    /\ urcNextId' = NextId(id)
    /\ \/ /\ urcIds' = urcIds \cup {id}
          /\ out' = [out EXCEPT ![c] = [result |-> "ATC_SUCCESS", value |-> id]]
       \/ /\ "entry alloc" \in MayFail
          /\ out' = [out EXCEPT ![c] = [result |-> "ATC_ERROR", value |-> 0]]
          /\ UNCHANGED urcIds

UnregisterUrc(c, id) ==
  /\ urcIds' = urcIds \ {id}
  /\ out' = [out EXCEPT ![c].result = IF id \in urcIds THEN "ATC_SUCCESS" ELSE "ATC_ERROR"]
  /\ UNCHANGED urcNextId

\* Receive a message, execute it and write the result to the caller's frame.
ExternHandle ==
  /\ lpc = "extern" /\ apiQueue # <<>>
  /\ apiQueue' = Tail(apiQueue)
  /\ rmsg' = Head(apiQueue)
  /\ LET m == Head(apiQueue)
     IN  IF m.req.api = "register" THEN RegisterUrc(m.id[1]) ELSE UnregisterUrc(m.id[1], m.req.arg)
  /\ lpc' = "externGive"
  /\ UNCHANGED <<cpc, job, calls, sendQueue, wake, given, heap, taskVars, timeVars, rx, partial, lineVars, delivered>>

\* Mutant: the caller is let go only when its request succeeded.
ExternGive_OnSuccess ==
  /\ lpc = "externGive"
  /\ given' = IF out[rmsg.id[1]].result = "ATC_SUCCESS" THEN given \cup {rmsg.id} ELSE given
  /\ lpc' = "externFree"
  /\ UNCHANGED <<callVars, queueVars, wake, heap, rmsg, taskVars, timeVars, urcVars, rx, partial, lineVars, delivered>>

ExternGive ==
  /\ lpc = "externGive"
  /\ given' = given \cup {rmsg.id}
  /\ lpc' = "externFree"
  /\ UNCHANGED <<callVars, queueVars, wake, heap, rmsg, taskVars, timeVars, urcVars, rx, partial, lineVars, delivered>>

\* Mutant: one message per round, an if instead of the while.
ExternFree_Single ==
  /\ lpc = "externFree"
  /\ heap' = heap \ {<<rmsg.id, "msg">>}
  /\ rmsg' = NoTask
  /\ lpc' = "send"
  /\ UNCHANGED <<callVars, queueVars, wake, given, taskVars, timeVars, urcVars, rx, partial, lineVars, delivered>>

ExternFree ==
  /\ lpc = "externFree"
  /\ heap' = heap \ {<<rmsg.id, "msg">>}
  /\ rmsg' = NoTask
  /\ lpc' = "extern"
  /\ UNCHANGED <<callVars, queueVars, wake, given, taskVars, timeVars, urcVars, rx, partial, lineVars, delivered>>

ExternDone ==
  /\ lpc = "extern" /\ apiQueue = <<>>
  /\ lpc' = "send"
  /\ UNCHANGED <<callVars, queueVars, wake, given, heap, rmsg, taskVars, timeVars, urcVars, rx, partial, lineVars,
                 delivered>>

-----------------------------------------------------------------------------
(* Second stage: send_msg_handle starts at most one queued command.         *)

Startable_AnyTime == sendQueue # <<>>   \* mutant: no check for a running command
Startable == current = NoTask /\ sendQueue # <<>>

SendSkip ==
  /\ lpc = "send" /\ ~Startable
  /\ lpc' = "recv"
  /\ UNCHANGED <<callVars, queueVars, wake, given, heap, rmsg, taskVars, timeVars, urcVars, rx, partial, lineVars,
                 delivered>>

SendStart ==
  /\ lpc = "send" /\ Startable
  /\ LET t == Head(sendQueue)
     IN  /\ current' = t
         /\ status' = IF t.req.api = "prompt" THEN "PROMPT" ELSE "LINE_RECV"
         /\ heap' = heap \cup {<<t.id, "task">>}
  /\ sendQueue' = Tail(sendQueue)
  /\ respLen' = 0 /\ timestamp' = now /\ age' = 0
  /\ lpc' = "transmit"
  /\ UNCHANGED <<callVars, apiQueue, wake, given, rmsg, ending, waitLeft, now, lag, urcVars, rx, partial, lineVars,
                 delivered>>

\* No memory for current_send_task: the received task is dropped as it is.
SendDrop ==
  /\ "task alloc" \in MayFail
  /\ lpc = "send" /\ Startable
  /\ sendQueue' = Tail(sendQueue)
  /\ lpc' = "recv"
  /\ UNCHANGED <<callVars, apiQueue, wake, given, heap, rmsg, taskVars, timeVars, urcVars, rx, partial, lineVars,
                 delivered>>

\* atc_send puts the command on the line; the modem picks its answer.
Transmit ==
  /\ lpc = "transmit"
  /\ \E a \in IF current.req.api = "prompt" THEN PromptAnswers ELSE LineAnswers :
       modem' = modem \o [i \in DOMAIN a |-> [kind |-> a[i], of |-> current.id]]
  /\ lpc' = "recv"
  /\ UNCHANGED <<callVars, queueVars, wake, given, heap, rmsg, taskVars, timeVars, urcVars, rx, partial, isrPc, isrBuf,
                 urcLeft, delivered>>

\* Call command_end_handle from the given place, because of an item of ticket of.
EndTask(result, from, of) ==
  /\ ending' = [result |-> result, from |-> from, of |-> of]
  /\ lpc' = "endNotify"

TransmitFails ==
  /\ "atc_send" \in MayFail
  /\ lpc = "transmit"
  /\ EndTask("ATC_HARDWARE_ERROR", "transmit", NoTask)
  /\ UNCHANGED <<callVars, queueVars, wake, given, heap, rmsg, current, status, timestamp, respLen, timeVars, urcVars,
                 rx, partial, lineVars, delivered>>

-----------------------------------------------------------------------------
(* command_end_handle with a current task.                                  *)

\* What sync_response_handler makes of the caller's out-parameters o: the
\* length is left alone when there is no response.
Reported_IfAny(o) ==   \* mutant: nor is the result written then
  IF respLen = 0 THEN o
  ELSE [result |-> ending.result, value |-> IF respLen < o.value THEN respLen ELSE o.value]
Reported(o) ==
  [result |-> ending.result,
   value  |-> IF respLen = 0 THEN o.value ELSE IF respLen < o.value THEN respLen ELSE o.value]

\* The response handler runs: sync_response_handler writes to the frame of a
\* synchronous caller, an asynchronous caller's callback is called.
EndNotify ==
  /\ lpc = "endNotify"
  /\ delivered' = [delivered EXCEPT ![current.id] = ending.result]
  /\ IF current.req.sync
     THEN /\ out' = [out EXCEPT ![current.id[1]] = Reported(@)]
          /\ lpc' = "endGive"
     ELSE /\ lpc' = "endFree"
          /\ UNCHANGED out
  /\ UNCHANGED <<cpc, job, calls, queueVars, wake, given, heap, rmsg, taskVars, timeVars, urcVars, rx, partial,
                 lineVars>>

\* Mutant: the semaphore is given only after a success.
EndGive_OnSuccess ==
  /\ lpc = "endGive"
  /\ given' = IF ending.result = "ATC_SUCCESS" THEN given \cup {current.id} ELSE given
  /\ lpc' = "endFree"
  /\ UNCHANGED <<callVars, queueVars, wake, heap, rmsg, taskVars, timeVars, urcVars, rx, partial, lineVars, delivered>>

EndGive ==
  /\ lpc = "endGive"
  /\ given' = given \cup {current.id}
  /\ lpc' = "endFree"
  /\ UNCHANGED <<callVars, queueVars, wake, heap, rmsg, taskVars, timeVars, urcVars, rx, partial, lineVars, delivered>>

\* Free the task, clear the response buffer and the stack, return. After a
\* prompt match the loop of byte_prompt_handle then reads the prompt_len of
\* current_send_task, which is NULL by now: undefined, so it may trap.
EndFree ==
  /\ lpc = "endFree"
  /\ heap' = heap \ ({current.id} \X {"data", "prompt", "task"})
  /\ current' = NoTask /\ status' = "LINE_RECV" /\ timestamp' = 0 /\ age' = 0
  /\ respLen' = 0
  /\ ending' = NotEnding
  /\ \/ lpc' = IF ending.from = "timeout" THEN "wait" ELSE "recv"
     \/ ending.from = "prompt" /\ NullReadTraps /\ lpc' = "trap"
  /\ UNCHANGED <<callVars, queueVars, wake, given, rmsg, waitLeft, now, lag, urcVars, rx, partial, lineVars, delivered>>

-----------------------------------------------------------------------------
(* Third stage: recv_data_handle empties the receive ring.                  *)

\* command_end_markers: the lines that end a command.
FinalKinds_AnyLine == {"ok", "error", "text"}   \* mutant: every line that is no URC
FinalKinds == {"ok", "error"}

Mode == IF current = NoTask THEN "LINE_RECV" ELSE status

RecvDone ==
  /\ lpc = "recv" /\ rx = <<>>
  /\ lpc' = "timeout"
  /\ UNCHANGED <<callVars, queueVars, wake, given, heap, rmsg, taskVars, timeVars, urcVars, rx, partial, lineVars,
                 delivered>>

\* A chunk without an end of line stays in line_buffer.
RecvChunk ==
  /\ lpc = "recv" /\ rx # <<>> /\ Mode = "LINE_RECV" /\ Head(rx).kind \notin LineKinds
  /\ rx' = Tail(rx)
  /\ partial' = TRUE
  /\ UNCHANGED <<callVars, queueVars, wake, given, heap, lpc, rmsg, taskVars, timeVars, urcVars, lineVars, delivered>>

\* line_handle: a URC goes to its handler, any other line to the response
\* buffer, where a final result ends the command. What was left in
\* line_buffer becomes the beginning of the line and hides its kind.
RecvLine ==
  /\ lpc = "recv" /\ rx # <<>> /\ Mode = "LINE_RECV" /\ Head(rx).kind \in LineKinds
  /\ rx' = Tail(rx)
  /\ partial' = FALSE
  /\ LET kind   == IF partial THEN "text" ELSE Head(rx).kind
         isUrc  == kind = "urc" /\ urcIds # {}
         pushed == IF respLen + 1 < ResponseMax THEN respLen + 1 ELSE respLen
         final  == kind \in FinalKinds
     IN  /\ respLen' = IF isUrc THEN respLen ELSE IF final /\ current = NoTask THEN 0 ELSE pushed
         /\ IF final /\ current # NoTask
            THEN EndTask(IF kind = "ok" THEN "ATC_SUCCESS" ELSE "ATC_ERROR", "recv", Head(rx).of)
            ELSE UNCHANGED <<lpc, ending>>
  /\ UNCHANGED <<callVars, queueVars, wake, given, heap, rmsg, current, status, timestamp, timeVars, urcVars, lineVars,
                 delivered>>

\* byte_prompt_handle: everything but the prompt string passes unseen.
RecvPrompt ==
  /\ lpc = "recv" /\ rx # <<>> /\ Mode = "PROMPT"
  /\ rx' = Tail(rx)
  /\ IF Head(rx).kind # "prompt" THEN UNCHANGED <<lpc, status, respLen, ending>>
     ELSE IF current.req.arg # 0
     THEN /\ status' = "BINARY" /\ respLen' = 0
          /\ UNCHANGED <<lpc, ending>>
     ELSE /\ EndTask("ATC_SUCCESS", "prompt", Head(rx).of)
          /\ UNCHANGED <<status, respLen>>
  /\ UNCHANGED <<callVars, queueVars, wake, given, heap, rmsg, current, timestamp, timeVars, urcVars, partial, lineVars,
                 delivered>>

\* byte_binary_handle: any item counts as received data until arg are there.
RecvBinary ==
  /\ lpc = "recv" /\ rx # <<>> /\ Mode = "BINARY"
  /\ rx' = Tail(rx)
  /\ respLen' = IF respLen < ResponseMax THEN respLen + 1 ELSE respLen
  /\ IF respLen < ResponseMax /\ respLen + 1 >= current.req.arg
     THEN EndTask("ATC_SUCCESS", "recv", Head(rx).of)
     ELSE UNCHANGED <<lpc, ending>>
  /\ UNCHANGED <<callVars, queueVars, wake, given, heap, rmsg, current, status, timestamp, timeVars, urcVars, partial,
                 lineVars, delivered>>

-----------------------------------------------------------------------------
(* Last stage: the timeout check, the wait and the next round.              *)

CheckTimeout ==
  /\ lpc = "timeout"
  /\ IF current # NoTask /\ Elapsed >= Timeout(current)
     THEN EndTask("ATC_TIMEOUT", "timeout", NoTask)
     ELSE /\ lpc' = "wait"
          /\ UNCHANGED ending
  /\ UNCHANGED <<callVars, queueVars, wake, given, heap, rmsg, current, status, timestamp, respLen, timeVars, urcVars,
                 rx, partial, lineVars, delivered>>

ComputeWait ==
  /\ lpc = "wait"
  /\ waitLeft' = IF current = NoTask THEN ATC_TIMEOUT_MAX ELSE Remaining
  /\ lag' = 0
  /\ lpc' = "take"
  /\ UNCHANGED <<callVars, queueVars, wake, given, heap, rmsg, taskVars, now, age, urcVars, rx, partial, lineVars,
                 delivered>>

\* atc_semaphore_take returns: it took the semaphore or its time is over.
Take ==
  /\ lpc = "take" /\ (wake \/ waitLeft = 0)
  /\ wake' = FALSE
  /\ waitLeft' = 0
  /\ lpc' = "extern"
  /\ UNCHANGED <<callVars, queueVars, given, heap, rmsg, taskVars, now, lag, age, urcVars, rx, partial, lineVars,
                 delivered>>

Loop ==
  \/ ExternHandle \/ ExternGive \/ ExternFree \/ ExternDone
  \/ SendSkip \/ SendStart \/ SendDrop \/ Transmit \/ TransmitFails
  \/ RecvDone \/ RecvChunk \/ RecvLine \/ RecvPrompt \/ RecvBinary
  \/ EndNotify \/ EndGive \/ EndFree
  \/ CheckTimeout \/ ComputeWait \/ Take

Asleep == lpc = "take" /\ ~wake /\ waitLeft > 0

\* One millisecond, while a command runs (else nobody reads the clock). The
\* loop thread leaves a round unfinished for at most MaxLag of them.
Tick ==
  /\ current # NoTask
  /\ IF Asleep THEN UNCHANGED lag ELSE lag < MaxLag /\ lag' = lag + 1
  /\ now' = (now + 1) % TickMod
  /\ age' = IF age < TickMod THEN age + 1 ELSE age
  /\ waitLeft' = IF lpc = "take" /\ waitLeft \notin {0, ATC_TIMEOUT_MAX} THEN waitLeft - 1 ELSE waitLeft
  /\ UNCHANGED <<callVars, queueVars, wake, given, heap, lpc, rmsg, taskVars, urcVars, rx, partial, lineVars, delivered>>

-----------------------------------------------------------------------------
(* The UART interrupt: atc_receive_data(context, data, length).             *)

\* Data arrives: the next items of the modem's answers, or a URC line.
IsrStart ==
  /\ isrPc = "idle"
  /\ \/ /\ \E k \in 1 .. MaxBurst :
             /\ k <= Len(modem)
             /\ isrBuf' = SubSeq(modem, 1, k)
             /\ modem' = SubSeq(modem, k + 1, Len(modem))
        /\ UNCHANGED urcLeft
     \/ /\ urcLeft > 0
        /\ urcLeft' = urcLeft - 1
        /\ isrBuf' = <<[kind |-> "urc", of |-> NoTask]>>
        /\ UNCHANGED modem
  /\ isrPc' = "write"
  /\ UNCHANGED <<callVars, queueVars, wake, given, heap, lpc, rmsg, taskVars, timeVars, urcVars, rx, partial, delivered>>

IsrWrite ==
  /\ isrPc = "write" /\ isrBuf # <<>> /\ Len(rx) < RxCap
  /\ rx' = Append(rx, Head(isrBuf))
  /\ isrBuf' = Tail(isrBuf)
  /\ UNCHANGED <<callVars, queueVars, wake, given, heap, lpc, rmsg, taskVars, timeVars, urcVars, partial, isrPc, modem,
                 urcLeft, delivered>>

\* The ring is full: return at once, the rest of the data is lost.
IsrFull ==
  /\ isrPc = "write" /\ isrBuf # <<>> /\ Len(rx) = RxCap
  /\ isrBuf' = <<>>
  /\ isrPc' = "idle"
  /\ UNCHANGED <<callVars, queueVars, wake, given, heap, lpc, rmsg, taskVars, timeVars, urcVars, rx, partial, modem,
                 urcLeft, delivered>>

\* Mutant: the interrupt wakes the loop thread for complete lines only.
IsrGive_LinesOnly ==
  /\ isrPc = "write" /\ isrBuf = <<>>
  /\ wake' = (wake \/ \E i \in DOMAIN rx : rx[i].kind \in LineKinds)
  /\ isrPc' = "idle"
  /\ UNCHANGED <<callVars, queueVars, given, heap, lpc, rmsg, taskVars, timeVars, urcVars, rx, partial, isrBuf, modem,
                 urcLeft, delivered>>

IsrGive ==
  /\ isrPc = "write" /\ isrBuf = <<>>
  /\ wake' = TRUE
  /\ isrPc' = "idle"
  /\ UNCHANGED <<callVars, queueVars, given, heap, lpc, rmsg, taskVars, timeVars, urcVars, rx, partial, isrBuf, modem,
                 urcLeft, delivered>>

IsrStep == IsrWrite \/ IsrFull \/ IsrGive

Next ==
  \/ Loop
  \/ \E c \in Callers : CallerNext(c)
  \/ IsrStart \/ IsrStep
  \/ Tick

\* The scheduler runs the loop thread and every thread inside a call, an
\* interrupt returns, time passes. Nobody has to call and no modem to answer.
Fairness ==
  /\ WF_vars(Loop)
  /\ \A c \in Callers : WF_vars(CallStep(c))
  /\ WF_vars(IsrStep)
  /\ WF_vars(Tick)

Spec == Init /\ [][Next]_vars /\ Fairness

-----------------------------------------------------------------------------
TypeOK ==
  /\ cpc \in [Callers -> {"idle", "enqueue", "giveWake", "await", "delete"}]
  /\ job \in [Callers -> Job \cup {NoTask}]
  /\ calls \in [Callers -> 0 .. MaxCalls]
  /\ out \in [Callers -> [result : Results \cup {"unset"}, value : Nat]]
  /\ apiQueue \in Seq(Job) /\ Len(apiQueue) <= ApiQueueLen
  /\ sendQueue \in Seq(Job) /\ Len(sendQueue) <= SendQueueLen
  /\ wake \in BOOLEAN /\ given \subseteq Tickets
  /\ heap \subseteq Tickets \X BlockKinds
  /\ lpc \in {"extern", "externGive", "externFree", "send", "transmit", "recv", "endNotify", "endGive",
              "endFree", "timeout", "wait", "take", "trap"}
  /\ rmsg \in Job \cup {NoTask} /\ current \in Job \cup {NoTask}
  /\ status \in {"LINE_RECV", "PROMPT", "BINARY"}
  /\ timestamp \in 0 .. ATC_TIMEOUT_MAX /\ now \in 0 .. ATC_TIMEOUT_MAX
  /\ respLen \in 0 .. ResponseMax
  /\ ending \in [result : Results, from : {"transmit", "recv", "prompt", "timeout"}, of : Tickets \cup {NoTask}]
  /\ waitLeft \in 0 .. ATC_TIMEOUT_MAX /\ lag \in 0 .. MaxLag /\ age \in 0 .. TickMod
  /\ urcIds \subseteq UrcId /\ urcNextId \in UrcId
  /\ rx \in Seq(Item) /\ Len(rx) <= RxCap /\ partial \in BOOLEAN
  /\ isrPc \in {"idle", "write"} /\ isrBuf \in Seq(Item) /\ modem \in Seq(Item)
  /\ urcLeft \in 0 .. UrcBudget
  /\ delivered \in [Tickets -> Results \cup {"none"}]

(* What the threads hold, for the proofs: the inductive part of the        *)
(* invariants below.                                                        *)

\* A thread in a call holds its latest job, the loop thread a message while it
\* handles one and a task while it sends or ends one; messages and tasks do
\* not get into each other's queue.
ControlOK ==
  /\ \A c \in Callers :
       cpc[c] # "idle" => /\ job[c] \in Job /\ job[c].id = <<c, calls[c]>>
                          /\ cpc[c] \in {"await", "delete"} => job[c].req.sync
  /\ \A j \in Range(apiQueue) : IsMsg(j) /\ j.req.sync
  /\ \A j \in Range(sendQueue) : ~IsMsg(j)
  /\ lpc \in {"externGive", "externFree"} => rmsg \in Job /\ IsMsg(rmsg) /\ rmsg.req.sync
  /\ current # NoTask => ~IsMsg(current)
  /\ lpc \in {"transmit", "endNotify", "endGive", "endFree"} => current # NoTask
  /\ lpc = "endGive" => current.req.sync

\* The jobs that have left their thread: those of the API queue and of the
\* send queue, with the one the loop thread has taken out of it.
Handed(queue, taken) == Range(queue) \cup ({taken} \ {NoTask})

DistinctIds(queue) == \A i, k \in DOMAIN queue : queue[i].id = queue[k].id => i = k

\* No job is handed over twice.
HandedOnce ==
  /\ \A j \in Handed(apiQueue, rmsg) \cup Handed(sendQueue, current) :
       /\ j.id[2] <= calls[j.id[1]]
       /\ \A c \in Callers : cpc[c] = "enqueue" => j.id # job[c].id
  /\ DistinctIds(apiQueue) /\ DistinctIds(sendQueue)
  /\ rmsg # NoTask => \A j \in Range(apiQueue) : j.id # rmsg.id
  /\ current # NoTask => \A j \in Range(sendQueue) : j.id # current.id

\* A thread that waits or is about to has a semaphore that exists and is
\* given at most once.
SemaphoresOK ==
  /\ \A t \in given : t[2] <= calls[t[1]]
  /\ \A c \in Callers :
       cpc[c] \in {"enqueue", "giveWake", "await", "delete"} /\ job[c].req.sync =>
         /\ <<job[c].id, "sem">> \in heap
         /\ cpc[c] = "enqueue" => job[c].id \notin given

-----------------------------------------------------------------------------
(* Frames and memory.                                                       *)

\* The synchronous jobs whose caller still waits for the loop thread.
AwaitedJobs ==
  {j \in Range(apiQueue) \cup Range(sendQueue) : j.req.sync}
    \cup (IF lpc = "externGive" THEN {rmsg} ELSE {})
    \cup (IF current # NoTask /\ lpc # "endFree" THEN {j \in {current} : j.req.sync} ELSE {})

\* The out-parameters and the semaphore the loop thread is going to use
\* (sync_response_handler, extern_msg_handle) belong to a call that has not
\* returned: its thread is still in the call that made the job, the
\* semaphore exists and has not been given.
CallerFrameAlive ==
  \A j \in AwaitedJobs :
    LET c == j.id[1]
    IN  /\ job[c] = j /\ cpc[c] \in {"giveWake", "await"}
        /\ <<j.id, "sem">> \in heap /\ j.id \notin given

\* The allocations somebody is still responsible for freeing.
OwnedBlocks ==
  LET building  == {job[c] : c \in {d \in Callers : cpc[d] = "enqueue"}}
      insideNow == {job[c] : c \in {d \in Callers : cpc[d] \in {"giveWake", "await", "delete"} /\ job[d].req.sync}}
      handedOn  == Range(sendQueue) \cup Range(apiQueue) \cup ({rmsg, current} \ {NoTask})
  IN  (UNION {Blocks(j) : j \in building})
        \cup {<<j.id, "sem">> : j \in insideNow}
        \cup (UNION {Blocks(j) \ {<<j.id, "sem">>} : j \in handedOn})
        \cup {<<j.id, "task">> : j \in {current} \ {NoTask}}

\* No leak and no dangling pointer: at every step the live allocations of
\* the send and message paths are exactly those with an owner.
HeapOwned == heap = OwnedBlocks

\* A synchronous call that was let go finds its result in its frame, the one
\* its response handler was called with.
ReturnedResult ==
  \A c \in Callers :
    cpc[c] = "delete" =>
      /\ out[c].result # "unset"
      /\ ~IsMsg(job[c]) => out[c].result = delivered[job[c].id]

-----------------------------------------------------------------------------
(* Wake-ups.                                                                *)

\* A thread or the interrupt has queued something and will give wake_semaphore.
GivePending(S) == \E c \in Callers : cpc[c] = "giveWake" /\ job[c] \in S

\* The loop thread never sleeps over a URC request: it is awake, about to be
\* woken, or external_api_queue is empty.
NoLostApiWakeup ==
  lpc = "take" /\ ~wake /\ apiQueue # <<>> => GivePending(Range(apiQueue))

\* Inductive form of NoLostApiWakeup: a request that arrives after the API
\* queue was drained leaves a wake-up for the end of the round.
ApiWoken ==
  lpc \notin {"extern", "externGive", "externFree"} /\ apiQueue # <<>> => wake \/ GivePending(Range(apiQueue))

\* Inductive form of NoLostRxWakeup: data that arrives after the ring was
\* drained leaves a wake-up, or the interrupt is past its last write.
Drained == lpc \in {"timeout", "wait", "take"} \/ (lpc \in {"endNotify", "endGive", "endFree"} /\ ending.from = "timeout")

RxWoken ==
  /\ Len(isrBuf) <= MaxBurst
  /\ Drained /\ rx # <<>> => wake \/ (isrPc = "write" /\ isrBuf = <<>>)

\* The loop thread never sleeps over received data.
NoLostRxWakeup ==
  lpc = "take" /\ ~wake /\ rx # <<>> => isrPc = "write"

\* The loop thread never sleeps over a queued command while none is running.
NoLostSendWakeup ==
  lpc = "take" /\ ~wake /\ current = NoTask /\ sendQueue # <<>> => GivePending(Range(sendQueue))


\* A synchronous call whose command runs with a timeout returns, however the
\* command ends (the comment in atc_send_sync: wait until the send completes
\* or times out).
SyncCallReturns ==
  \A c \in Callers :
    cpc[c] \in {"giveWake", "await"} /\ current = job[c] /\ job[c].req.sync /\ job[c].req.timeout # 0 ~> cpc[c] = "idle"

\* A registration or unregistration returns, whatever else is going on.
MsgCallReturns == \A c \in Callers : (cpc[c] = "await" /\ IsMsg(job[c])) ~> cpc[c] = "idle"

\* A command that runs with a timeout ends, whatever the modem does.
RunningCommandEnds == current # NoTask /\ current.req.timeout # 0 ~> current = NoTask

-----------------------------------------------------------------------------
(* Results and time.                                                        *)

\* As long as no command has timed out, the final result line or the data
\* that ends a command is the modem's answer to that very command.
AnswersMatch ==
  lpc = "endNotify" /\ (\A t \in Tickets : delivered[t] # "ATC_TIMEOUT") => ending.of \in {NoTask, current.id}

\* A command does not end as timed out before as many ticks have passed since
\* its dispatch as it allows, 2^32 - 1 if it asked for no timeout, although the
\* code compares wrapping ticks; one that asked for a timeout does not run on
\* for longer than the lag of the loop thread.
TimeoutWindow ==
  current # NoTask =>
    /\ lpc = "endNotify" /\ ending.result = "ATC_TIMEOUT" =>
         age >= IF current.req.timeout = 0 THEN ATC_TIMEOUT_MAX ELSE current.req.timeout
    /\ current.req.timeout # 0 => age <= current.req.timeout + 2 * MaxLag

\* The loop thread's sleep ends exactly at the running command's deadline.
NeverOversleeps ==
  Asleep /\ current # NoTask /\ current.req.timeout # 0 => age + waitLeft = current.req.timeout

\* recv_len may be 0 when no data is wanted (ATCortex.h): the match of the
\* prompt ends the command and the loop thread carries on.
NoNullTaskRead == lpc # "trap"

-----------------------------------------------------------------------------
(* The event loop implements the command service: a command is accepted     *)
(* when it enters send_queue, starts when it becomes current_send_task and  *)
(* ends when its response handler is called.                                *)

Service == INSTANCE CommandService WITH
  Commands <- Tickets,
  Outcomes <- Results,
  Idle     <- NoTask,
  accepted <- {t \in Tickets : delivered[t] # "none"}
                \cup {j.id : j \in Range(sendQueue) \cup ({current} \ {NoTask})},
  waiting  <- [i \in DOMAIN sendQueue |-> sendQueue[i].id],
  running  <- IF current = NoTask \/ lpc \in {"endGive", "endFree"} THEN NoTask ELSE current.id,
  outcome  <- delivered

\* Every command gets exactly one result, in the order of acceptance.
ImplementsCommandService == Service!Spec
===============================================================================
