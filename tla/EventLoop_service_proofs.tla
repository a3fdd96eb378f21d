----------------------- MODULE EventLoop_service_proofs -----------------------
(***************************************************************************)
(* What a caller is told: the result it finds in its frame, and that the   *)
(* event loop implements the command service, for every value of the       *)
(* constants.                                                              *)
(***************************************************************************)
EXTENDS EventLoop_proofs

-----------------------------------------------------------------------------
(* The inductive invariant.                                                 *)

\* A thread in a call that handed its job over still holds that very job.
HandedAsMade ==
  \A j \in HandedJobs, c \in Callers : cpc[c] # "idle" /\ job[c].id = j.id => job[c] = j

\* The loop thread has let the synchronous call of thread c go.
LetGo(c) ==
  /\ cpc[c] \in {"giveWake", "await", "delete"} /\ job[c].req.sync
  /\ job[c].id \in given \/ cpc[c] = "delete"

\* The frame of the thread that made job j holds its result.
HasResult(j) ==
  /\ out[j.id[1]].result # "unset"
  /\ ~IsMsg(j) => out[j.id[1]].result = delivered[j.id]

\* A thread is let go only after its result was written, and nobody writes to
\* its frame from then on.
ResultsKept ==
  /\ \A c \in Callers : LetGo(c) => HasResult(job[c])
  /\ lpc = "externGive" => HasResult(rmsg)
  /\ lpc = "endGive" => HasResult(current)

\* Only a command that was started has a result, and the running one gets its
\* result when its response handler is called.
OutcomesKept ==
  /\ \A t \in Tickets : delivered[t] # "none" => t[2] <= calls[t[1]]
  /\ \A c \in Callers : cpc[c] = "enqueue" => delivered[job[c].id] = "none"
  /\ \A j \in Range(sendQueue) : delivered[j.id] = "none"
  /\ current # NoTask => (delivered[current.id] = "none" <=> lpc \notin {"endGive", "endFree"})

ServiceInv == FrameInv /\ HandedAsMade /\ ResultsKept /\ OutcomesKept

LEMMA ServiceInit == Init => HandedAsMade /\ ResultsKept /\ OutcomesKept
BY DEF Init, HandedAsMade, HandedJobs, Handed, ResultsKept, LetGo, OutcomesKept, Range

\* Only EnqueueTask and EnqueueMsg hand a job over.
LEMMA HandedGrow ==
  ASSUME TypeOK, ControlOK, [Next]_vars
  PROVE  \A j \in HandedJobs' :
           j \in HandedJobs \/ \E c \in Callers : /\ cpc[c] = "enqueue" /\ j = job[c] /\ job' = job
                                                  /\ cpc' = [cpc EXCEPT ![c] = "giveWake"]
<1> USE DEF callVars, queueVars, taskVars, HandedJobs, Handed
<1>1. CASE QuietStep
  BY <1>1, QuietStepKeeps
<1>2. ASSUME NEW c \in Callers, CallerNext(c)
      PROVE  \/ HandedJobs' = HandedJobs
             \/ /\ cpc[c] = "enqueue" /\ HandedJobs' = HandedJobs \cup {job[c]} /\ job' = job
                /\ cpc' = [cpc EXCEPT ![c] = "giveWake"]
  <2>1. CASE EnqueueTask(c)
    <3>1. sendQueue \in Seq(Job) /\ job[c] \in Job /\ sendQueue' = Append(sendQueue, job[c])
      BY <2>1 DEF TypeOK, ControlOK, EnqueueTask
    <3>2. Range(sendQueue') = Range(sendQueue) \cup {job[c]}
      BY <3>1, RangeAppend
    <3> QED
      BY <2>1, <3>2 DEF EnqueueTask
  <2>2. CASE EnqueueMsg(c)
    <3>1. apiQueue \in Seq(Job) /\ job[c] \in Job /\ apiQueue' = Append(apiQueue, job[c])
      BY <2>2 DEF TypeOK, ControlOK, EnqueueMsg
    <3>2. Range(apiQueue') = Range(apiQueue) \cup {job[c]}
      BY <3>1, RangeAppend
    <3> QED
      BY <2>2, <3>2 DEF EnqueueMsg
  <2>3. ASSUME NEW req \in Requests, Call(c, req) \/ CallFails(c, req)
        PROVE  UNCHANGED <<apiQueue, sendQueue, rmsg, current>>
    BY <2>3 DEF Call, CallFails
  <2>4. CASE EnqueueTimeout(c) \/ GiveWake(c) \/ Awaken(c) \/ Return(c)
    BY <2>4 DEF EnqueueTimeout, GiveWake, Awaken, Return
  <2> QED
    BY <1>2, <2>1, <2>2, <2>3, <2>4 DEF CallerNext, CallStep
<1>3. CASE ExternHandle
  <2>1. apiQueue \in Seq(Job) /\ apiQueue # <<>>
    BY <1>3 DEF TypeOK, ExternHandle
  <2> QED
    BY <1>3, <2>1, RangeTail DEF ExternHandle
<1>4. CASE SendStart \/ SendDrop
  <2>1. sendQueue \in Seq(Job) /\ sendQueue # <<>>
    BY <1>4 DEF TypeOK, SendStart, SendDrop, Startable
  <2>2. /\ sendQueue' = Tail(sendQueue) /\ current' \in {current, Head(sendQueue)}
        /\ UNCHANGED <<apiQueue, rmsg>>
    BY <1>4 DEF SendStart, SendDrop
  <2> QED
    BY <2>1, <2>2, RangeTail
<1>5. CASE ExternGive \/ ExternFree \/ EndNotify \/ EndGive \/ EndFree
  BY <1>5 DEF ExternGive, ExternFree, EndNotify, EndGive, EndFree
<1> QED
  BY <1>1, <1>2, <1>3, <1>4, <1>5, StepKinds

LEMMA HandedAsMadeNext ==
  ASSUME FrameInv, HandedAsMade, [Next]_vars
  PROVE  HandedAsMade'
<1> SUFFICES ASSUME NEW j \in HandedJobs', NEW c \in Callers, cpc'[c] # "idle", job'[c].id = j.id
             PROVE  job'[c] = j
  BY DEF HandedAsMade
<1>1. TypeOK /\ ControlOK /\ HandedOnce
  BY DEF FrameInv
<1>2. \/ job'[c] = job[c] /\ cpc[c] # "idle"
      \/ \E req \in Requests : Call(c, req)
  <2>1. ASSUME NEW d \in Callers, NEW req \in Requests, Call(d, req) PROVE d = c \/ (job'[c] = job[c] /\ cpc'[c] = cpc[c])
    BY <1>1, <2>1 DEF TypeOK, Call
  <2>2. ASSUME NEW d \in Callers, NEW req \in Requests, CallFails(d, req) PROVE job'[c] = job[c] /\ cpc'[c] = cpc[c]
    BY <2>2 DEF CallFails
  <2>3. ASSUME NEW d \in Callers, CallStep(d) PROVE cpc[c] # "idle" /\ job'[c] = job[c]
    BY <1>1, <2>3 DEF TypeOK, CallStep, EnqueueTask, EnqueueMsg, EnqueueTimeout, GiveWake, Awaken, Return
  <2>4. CASE ExternHandle \/ ExternGive \/ ExternFree \/ SendStart \/ SendDrop \/ EndNotify \/ EndGive \/ EndFree
    BY <2>4 DEF callVars, ExternHandle, ExternGive, ExternFree, SendStart, SendDrop, EndNotify, EndGive, EndFree
  <2>5. CASE QuietStep
    BY <2>5, QuietStepKeeps
  <2> QED
    BY <2>1, <2>2, <2>3, <2>4, <2>5, StepKinds DEF CallerNext
<1>3. j \in HandedJobs \/ \E d \in Callers : cpc[d] = "enqueue" /\ j = job[d] /\ job' = job
                                             /\ cpc' = [cpc EXCEPT ![d] = "giveWake"]
  BY <1>1, HandedGrow
<1>4. ASSUME NEW d \in Callers, cpc[d] = "enqueue", j = job[d], job' = job, cpc' = [cpc EXCEPT ![d] = "giveWake"]
      PROVE  job'[c] = j
  <2>1. job[d].id[1] = d
    BY <1>1, <1>4, JobIds
  <2>2. cpc[c] # "idle"
    BY <1>1, <1>4 DEF TypeOK
  <2>3. job[c].id[1] = c
    BY <1>1, <2>2, JobIds
  <2> QED
    BY <1>4, <2>1, <2>3
<1>5. CASE j \in HandedJobs
  <2>1. CASE \E req \in Requests : Call(c, req)
    <3>1. job'[c].id = <<c, calls[c] + 1>>
      BY <1>1, <2>1 DEF TypeOK, Call
    <3>2. j.id \in Tickets /\ j.id[2] <= calls[j.id[1]]
      BY <1>1, <1>5, HandedType DEF HandedOnce, HandedJobs, Job
    <3> QED
      BY <1>1, <3>1, <3>2, FreshTicket
  <2> QED
    BY <1>2, <1>5, <2>1 DEF HandedAsMade
<1> QED
  BY <1>3, <1>4, <1>5

-----------------------------------------------------------------------------
(* Results.                                                                 *)

\* The jobs whose result the loop thread is about to report or has reported.
LEMMA ReportedJobs ==
  ASSUME FrameInv
  PROVE  /\ lpc = "externGive" => rmsg \in AwaitedJobs /\ IsMsg(rmsg)
         /\ lpc \in {"endNotify", "endGive"} /\ current.req.sync => current \in AwaitedJobs
         /\ lpc \in {"endNotify", "endGive", "endFree"} => current \in Job /\ ~IsMsg(current) /\ current # NoTask
         /\ lpc = "endGive" => current.req.sync
BY DEF FrameInv, TypeOK, ControlOK, AwaitedJobs

\* A frame the loop thread is going to write to is not one of a call that was
\* let go.
LEMMA LetGoNotAwaited ==
  ASSUME FrameInv, NEW c \in Callers, LetGo(c)
  PROVE  /\ job[c] \in Job /\ job[c].id[1] = c
         /\ \A j \in AwaitedJobs : j \in Job /\ j.id[1] \in Callers /\ j.id[1] # c
<1>1. job[c] \in Job /\ job[c].id = <<c, calls[c]>>
  BY JobIds DEF FrameInv, LetGo
<1>2. \A j \in AwaitedJobs : j \in Job /\ j.id[1] \in Callers /\ Alive(j)
  BY AwaitedType, FrameIsAlive DEF FrameInv
<1>3. ASSUME NEW j \in AwaitedJobs, j.id[1] = c PROVE FALSE
  BY <1>2, <1>3 DEF Alive, LetGo
<1> QED
  BY <1>1, <1>2, <1>3

LEMMA ResultsCallers ==
  ASSUME FrameInv, ResultsKept, NEW c \in Callers, CallerNext(c)
  PROVE  ResultsKept'
<1> USE DEF callVars, queueVars, taskVars, timeVars, urcVars, lineVars
<1>0. TypeOK /\ ControlOK /\ SemaphoresOK
  BY DEF FrameInv
<1>1. UNCHANGED <<lpc, rmsg, current, delivered>>
  BY DEF CallerNext, CallStep, Call, CallFails, EnqueueTask, EnqueueMsg, EnqueueTimeout, GiveWake, Awaken, Return
<1>2. ASSUME NEW req \in Requests, Call(c, req) PROVE ResultsKept'
  <2>1. /\ cpc[c] = "idle" /\ cpc'[c] = "enqueue" /\ UNCHANGED given
        /\ \A d \in Callers \ {c} : out'[d] = out[d] /\ job'[d] = job[d] /\ cpc'[d] = cpc[d]
    BY <1>0, <1>2 DEF TypeOK, Call
  <2>2. ASSUME NEW d \in Callers, LetGo(d)' PROVE HasResult(job[d])' /\ job'[d] = job[d]
    <3>1. d # c /\ LetGo(d)
      BY <2>1, <2>2 DEF LetGo
    <3>2. job[d].id[1] = d /\ HasResult(job[d])
      BY <3>1, LetGoNotAwaited DEF ResultsKept
    <3> QED
      BY <1>1, <2>1, <3>1, <3>2 DEF HasResult
  <2>3. ASSUME NEW j \in AwaitedJobs PROVE j.id[1] \in Callers /\ j.id[1] # c
    BY <1>0, <2>1, <2>3, AwaitedType, FrameIsAlive DEF FrameInv, Alive
  <2>4. (lpc = "externGive" => HasResult(rmsg)')
    BY <1>1, <2>1, <2>3, ReportedJobs DEF ResultsKept, HasResult
  <2>5. (lpc = "endGive" => HasResult(current)')
    BY <1>1, <2>1, <2>3, ReportedJobs DEF ResultsKept, HasResult
  <2> QED
    BY <1>1, <2>2, <2>4, <2>5 DEF ResultsKept
<1>3. ASSUME UNCHANGED out,
             \A d \in Callers : LetGo(d)' => LetGo(d) /\ job'[d] = job[d]
      PROVE  ResultsKept'
  BY <1>1, <1>3 DEF ResultsKept, HasResult
<1>4. ASSUME NEW req \in Requests, CallFails(c, req) PROVE ResultsKept'
  <2>1. UNCHANGED <<cpc, job, given, out>>
    BY <1>4 DEF CallFails
  <2> QED
    BY <1>3, <2>1 DEF LetGo
<1>5. CASE EnqueueTask(c) \/ EnqueueMsg(c)
  <2>1. cpc[c] = "enqueue" /\ cpc' = [cpc EXCEPT ![c] = "giveWake"] /\ UNCHANGED <<job, given, out>>
    BY <1>5 DEF EnqueueTask, EnqueueMsg
  <2>2. job[c].req.sync => job[c].id \notin given
    BY <1>0, <2>1 DEF SemaphoresOK
  <2> QED
    BY <1>0, <1>3, <2>1, <2>2 DEF TypeOK, LetGo
<1>6. CASE EnqueueTimeout(c) \/ Return(c)
  <2>1. /\ cpc' = [cpc EXCEPT ![c] = "idle"] /\ UNCHANGED <<given, out>>
        /\ \A d \in Callers \ {c} : job'[d] = job[d]
    BY <1>0, <1>6 DEF TypeOK, EnqueueTimeout, Return
  <2> QED
    BY <1>0, <1>3, <2>1 DEF TypeOK, LetGo
<1>7. CASE GiveWake(c)
  <2>1. /\ cpc[c] = "giveWake" /\ UNCHANGED <<given, out>>
        /\ cpc'[c] = IF job[c].req.sync THEN "await" ELSE "idle"
        /\ job[c].req.sync => job'[c] = job[c]
        /\ \A d \in Callers \ {c} : job'[d] = job[d] /\ cpc'[d] = cpc[d]
    BY <1>0, <1>7 DEF TypeOK, GiveWake
  <2> QED
    BY <1>3, <2>1 DEF LetGo
<1>8. CASE Awaken(c)
  <2>1. /\ cpc[c] = "await" /\ job[c].id \in given /\ given' \subseteq given /\ UNCHANGED <<job, out>>
        /\ \A d \in Callers \ {c} : cpc'[d] = cpc[d]
    BY <1>0, <1>8 DEF TypeOK, Awaken
  <2>2. job[c].req.sync
    BY <1>0, <2>1 DEF ControlOK
  <2> QED
    BY <1>3, <2>1, <2>2 DEF LetGo
<1> QED
  BY <1>2, <1>4, <1>5, <1>6, <1>7, <1>8 DEF CallerNext, CallStep

LEMMA ResultsNext ==
  ASSUME FrameInv, HandedAsMade, ResultsKept, [Next]_vars
  PROVE  ResultsKept'
<1> USE DEF callVars, queueVars, taskVars, timeVars, urcVars, lineVars
<1>0. TypeOK /\ ControlOK
  BY DEF FrameInv
<1>a. \A c \in Callers : LetGo(c) => HasResult(job[c]) /\ job[c] \in Job /\ job[c].id[1] = c
  BY LetGoNotAwaited DEF ResultsKept
<1>1. CASE ExternHandle
  <2>1. /\ apiQueue \in Seq(Job) /\ apiQueue # <<>> /\ lpc' = "externGive" /\ rmsg' = Head(apiQueue)
        /\ UNCHANGED <<cpc, job, given, delivered>>
    BY <1>0, <1>1 DEF TypeOK, ExternHandle
  <2> DEFINE m == Head(apiQueue)
  <2>2. m \in Range(apiQueue)
    BY <2>1, RangeTail
  <2>3. m \in AwaitedJobs /\ IsMsg(m)
    BY <1>0, <2>2 DEF AwaitedJobs, ControlOK
  <2>4. m.id[1] \in Callers
    BY <1>0, <2>3, AwaitedType
  <2>5. out'[m.id[1]].result \in {"ATC_SUCCESS", "ATC_ERROR"} /\ \A d \in Callers \ {m.id[1]} : out'[d] = out[d]
    <3>1. CASE RegisterUrc(m.id[1])
      <4>1. \E r \in {"ATC_SUCCESS", "ATC_ERROR"} : \E v : out' = [out EXCEPT ![m.id[1]] = [result |-> r, value |-> v]]
        BY <3>1 DEF RegisterUrc
      <4> HIDE DEF m
      <4> QED
        BY <1>0, <2>4, <4>1 DEF TypeOK
    <3>2. CASE UnregisterUrc(m.id[1], m.req.arg)
      BY <1>0, <2>4, <3>2 DEF TypeOK, UnregisterUrc
    <3> QED
      BY <1>1, <3>1, <3>2 DEF ExternHandle
  <2>6. ASSUME NEW d \in Callers, LetGo(d)' PROVE HasResult(job[d])' /\ job'[d] = job[d]
    <3>1. LetGo(d)
      BY <2>1, <2>6 DEF LetGo
    <3>2. m.id[1] # d
      BY <2>3, <3>1, LetGoNotAwaited
    <3> QED
      BY <1>a, <2>1, <2>5, <3>1, <3>2 DEF HasResult
  <2>7. HasResult(rmsg)'
    BY <2>1, <2>3, <2>5 DEF HasResult, IsMsg
  <2> QED
    BY <2>1, <2>6, <2>7 DEF ResultsKept
<1>2. ASSUME NEW j \in AwaitedJobs, HasResult(j), given' = given \cup {j.id},
             UNCHANGED <<cpc, job, out, delivered>>, lpc' \notin {"externGive", "endGive"}
      PROVE  ResultsKept'
  <2>1. Alive(j)
    BY FrameIsAlive DEF FrameInv
  <2>2. ASSUME NEW d \in Callers, LetGo(d)' PROVE HasResult(job[d])
    <3>1. CASE LetGo(d)
      BY <1>a, <3>1
    <3>2. CASE job[d].id = j.id
      <4>1. job[d].id[1] = d
        BY <1>0, <1>2, <2>2, JobIds DEF LetGo
      <4> QED
        BY <1>2, <2>1, <3>2, <4>1 DEF Alive
    <3> QED
      BY <1>2, <2>2, <3>1, <3>2 DEF LetGo
  <2> QED
    BY <1>2, <2>2 DEF ResultsKept, HasResult
<1>3. CASE ExternGive
  <2>1. /\ lpc = "externGive" /\ lpc' = "externFree" /\ given' = given \cup {rmsg.id}
        /\ UNCHANGED <<cpc, job, out, delivered>>
    BY <1>3 DEF ExternGive
  <2>2. rmsg \in AwaitedJobs /\ HasResult(rmsg)
    BY <2>1, ReportedJobs DEF ResultsKept
  <2> QED
    BY <1>2, <2>1, <2>2
<1>4. CASE EndGive
  <2>1. /\ lpc = "endGive" /\ lpc' = "endFree" /\ given' = given \cup {current.id}
        /\ UNCHANGED <<cpc, job, out, delivered>>
    BY <1>4 DEF EndGive
  <2>2. current \in AwaitedJobs /\ HasResult(current)
    BY <2>1, ReportedJobs DEF ResultsKept
  <2> QED
    BY <1>2, <2>1, <2>2
<1>5. CASE EndNotify
  <2>1. /\ lpc = "endNotify" /\ UNCHANGED <<cpc, job, given, current>>
        /\ delivered' = [delivered EXCEPT ![current.id] = ending.result]
        /\ IF current.req.sync
           THEN lpc' = "endGive" /\ out' = [out EXCEPT ![current.id[1]] = Reported(@)]
           ELSE lpc' = "endFree" /\ out' = out
    BY <1>5 DEF EndNotify
  <2>2. current \in Job /\ current.id \in Tickets /\ ~IsMsg(current) /\ current # NoTask
    BY <2>1, ReportedJobs DEF Job
  <2>3. current.id[1] \in Callers
    BY <2>2, TicketsOfCallers
  <2>4. ending.result \in Results /\ \A o : Reported(o).result = ending.result
    BY <1>0 DEF TypeOK, Reported
  <2>5. current.req.sync => /\ out'[current.id[1]].result = ending.result
                            /\ \A d \in Callers \ {current.id[1]} : out'[d] = out[d]
    BY <1>0, <2>1, <2>3, <2>4 DEF TypeOK
  <2>6. delivered'[current.id] = ending.result /\ \A t \in Tickets \ {current.id} : delivered'[t] = delivered[t]
    BY <1>0, <2>1, <2>2 DEF TypeOK
  <2>7. ASSUME NEW d \in Callers, LetGo(d) PROVE HasResult(job[d])'
    <3>1. HasResult(job[d]) /\ job[d] \in Job /\ job[d].id[1] = d /\ job[d].id \in Tickets /\ job'[d] = job[d]
      BY <1>a, <2>1, <2>7 DEF Job
    <3>2. CASE current.req.sync
      <4>1. current.id[1] # d
        BY <2>1, <2>7, <3>2, ReportedJobs, LetGoNotAwaited
      <4> QED
        BY <2>5, <2>6, <3>1, <3>2, <4>1 DEF HasResult
    <3>3. CASE ~current.req.sync
      <4>1. job[d].id # current.id
        BY <2>2, <2>7, <3>3 DEF HandedAsMade, HandedJobs, Handed, LetGo
      <4> QED
        BY <2>1, <2>6, <3>1, <3>3, <4>1 DEF HasResult
    <3> QED
      BY <3>2, <3>3
  <2>8. current.req.sync => HasResult(current)'
    BY <2>1, <2>4, <2>5, <2>6 DEF HasResult, Results
  <2>9. \A d \in Callers : LetGo(d)' => LetGo(d) /\ job'[d] = job[d]
    BY <2>1 DEF LetGo
  <2> QED
    BY <2>1, <2>7, <2>8, <2>9 DEF ResultsKept
<1>6. CASE ExternFree \/ SendStart \/ SendDrop \/ EndFree \/ QuietStep
  <2>1. /\ UNCHANGED <<cpc, job, given, out, delivered>>
        /\ \/ lpc' \notin {"externGive", "endGive"}
           \/ UNCHANGED <<lpc, rmsg, current>>
    BY <1>6, QuietStepKeeps DEF ExternFree, SendStart, SendDrop, EndFree, Holding
  <2>2. \A d \in Callers : LetGo(d)' => LetGo(d) /\ job'[d] = job[d]
    BY <2>1 DEF LetGo
  <2>3. \A j : HasResult(j)' = HasResult(j)
    BY <2>1 DEF HasResult
  <2> QED
    BY <2>1, <2>2, <2>3 DEF ResultsKept, HasResult
<1> QED
  BY <1>1, <1>3, <1>4, <1>5, <1>6, ResultsCallers, StepKinds

-----------------------------------------------------------------------------
(* Outcomes.                                                                *)

LEMMA OutcomesNext ==
  ASSUME FrameInv, OutcomesKept, [Next]_vars
  PROVE  OutcomesKept'
<1> USE DEF callVars, queueVars, taskVars, timeVars, urcVars, lineVars
<1>0. TypeOK /\ ControlOK /\ HandedOnce
  BY DEF FrameInv
<1>1. ASSUME NEW c \in Callers, NEW req \in Requests, Call(c, req) \/ CallFails(c, req) PROVE OutcomesKept'
  <2>1. /\ calls' = [calls EXCEPT ![c] = @ + 1]
        /\ UNCHANGED <<sendQueue, current, lpc, delivered>>
    BY <1>1 DEF Call, CallFails
  <2>2. \A t \in Tickets : delivered'[t] # "none" => t[2] <= calls'[t[1]]
    BY <1>0, <2>1, CallsGrow DEF OutcomesKept
  <2>3. ASSUME NEW d \in Callers, cpc'[d] = "enqueue" PROVE delivered'[job'[d].id] = "none"
    <3>1. CASE d = c /\ Call(c, req)
      <4>1. job'[c].id = <<c, calls[c] + 1>> /\ <<c, calls[c] + 1>> \in Tickets
        BY <1>0, <3>1, ConstantsAssumption DEF TypeOK, Call, Tickets
      <4> QED
        BY <1>0, <2>1, <3>1, <4>1, FreshTicket DEF OutcomesKept
    <3>2. CASE d # c /\ Call(c, req)
      <4>1. job'[d] = job[d] /\ cpc'[d] = cpc[d]
        BY <1>0, <3>2 DEF TypeOK, Call
      <4> QED
        BY <2>1, <2>3, <4>1 DEF OutcomesKept
    <3>3. CASE CallFails(c, req)
      BY <2>1, <2>3, <3>3 DEF OutcomesKept, CallFails
    <3> QED
      BY <1>1, <3>1, <3>2, <3>3
  <2> QED
    BY <2>1, <2>2, <2>3 DEF OutcomesKept
<1>2. ASSUME NEW c \in Callers, CallStep(c) PROVE OutcomesKept'
  <2>1. /\ UNCHANGED <<calls, current, lpc, delivered>>
        /\ \A d \in Callers : cpc'[d] = "enqueue" => cpc[d] = "enqueue" /\ job'[d] = job[d]
    BY <1>0, <1>2 DEF TypeOK, CallStep, EnqueueTask, EnqueueMsg, EnqueueTimeout, GiveWake, Awaken, Return
  <2>2. \A j \in Range(sendQueue') : j \in Range(sendQueue) \/ (cpc[c] = "enqueue" /\ j = job[c])
    <3>1. CASE EnqueueTask(c)
      <4>1. /\ sendQueue \in Seq(Job) /\ job[c] \in Job /\ sendQueue' = Append(sendQueue, job[c])
            /\ cpc[c] = "enqueue"
        BY <1>0, <3>1 DEF TypeOK, ControlOK, EnqueueTask
      <4> QED
        BY <4>1, RangeAppend
    <3>2. CASE ~EnqueueTask(c)
      BY <1>2, <3>2 DEF CallStep, EnqueueMsg, EnqueueTimeout, GiveWake, Awaken, Return
    <3> QED
      BY <3>1, <3>2
  <2> QED
    BY <2>1, <2>2 DEF OutcomesKept
<1>3. CASE SendStart \/ SendDrop
  <2>1. /\ sendQueue \in Seq(Job) /\ sendQueue # <<>> /\ sendQueue' = Tail(sendQueue)
        /\ UNCHANGED <<cpc, job, calls, delivered>>
        /\ \/ current' = Head(sendQueue) /\ lpc' = "transmit"
           \/ current = NoTask /\ current' = NoTask
    BY <1>0, <1>3 DEF TypeOK, SendStart, Startable, SendDrop
  <2>2. Head(sendQueue) \in Range(sendQueue) /\ Range(Tail(sendQueue)) \subseteq Range(sendQueue)
    BY <2>1, RangeTail
  <2> QED
    BY <2>1, <2>2 DEF OutcomesKept
<1>4. CASE EndNotify
  <2>1. /\ lpc = "endNotify" /\ lpc' \in {"endGive", "endFree"}
        /\ UNCHANGED <<cpc, job, calls, sendQueue, current>>
        /\ delivered' = [delivered EXCEPT ![current.id] = ending.result]
    BY <1>4 DEF EndNotify
  <2>2. current \in Job /\ current.id \in Tickets /\ current \in HandedJobs /\ current # NoTask
    BY <2>1, ReportedJobs DEF Job, HandedJobs, Handed
  <2>3. delivered'[current.id] # "none" /\ \A t \in Tickets \ {current.id} : delivered'[t] = delivered[t]
    BY <1>0, <2>1, <2>2 DEF TypeOK, Results
  <2>4. ASSUME NEW t \in Tickets, delivered'[t] # "none" PROVE t[2] <= calls[t[1]]
    BY <1>0, <2>2, <2>3, <2>4 DEF HandedOnce, HandedJobs, OutcomesKept
  <2>5. ASSUME NEW d \in Callers, cpc[d] = "enqueue" PROVE delivered'[job[d].id] = "none"
    <3>1. job[d].id # current.id /\ job[d].id \in Tickets
      BY <1>0, <2>2, <2>5, JobIds DEF HandedOnce, HandedJobs
    <3> QED
      BY <2>3, <2>5, <3>1 DEF OutcomesKept
  <2>6. ASSUME NEW j \in Range(sendQueue) PROVE delivered'[j.id] = "none"
    <3>1. j.id # current.id /\ j.id \in Tickets
      BY <1>0, <2>2, HandedType DEF HandedOnce, HandedJobs, Handed, Job
    <3> QED
      BY <2>3, <3>1 DEF OutcomesKept
  <2> QED
    BY <2>1, <2>3, <2>4, <2>5, <2>6 DEF OutcomesKept
<1>5. CASE EndGive
  BY <1>5 DEF OutcomesKept, EndGive
<1>6. CASE EndFree
  BY <1>6 DEF OutcomesKept, EndFree
<1>7. CASE ExternHandle \/ ExternGive \/ ExternFree
  BY <1>7 DEF OutcomesKept, ExternHandle, ExternGive, ExternFree
<1>8. CASE QuietStep
  <2>1. /\ UNCHANGED <<cpc, job, calls, sendQueue, current, delivered>>
        /\ lpc' \in {"endGive", "endFree"} <=> lpc \in {"endGive", "endFree"}
    BY <1>8, QuietStepKeeps DEF Holding
  <2> QED
    BY <2>1 DEF OutcomesKept
<1> QED
  BY <1>1, <1>2, <1>3, <1>4, <1>5, <1>6, <1>7, <1>8, StepKinds DEF CallerNext

LEMMA ServiceInvariant == Spec => []ServiceInv
<1>1. Init => ServiceInv
  BY TypeInit, ControlInit, HandedInit, SemaphoresInit, FrameInit, ServiceInit DEF FrameInv, ServiceInv
<1>2. ServiceInv /\ [Next]_vars => ServiceInv'
  BY FrameNext, HandedAsMadeNext, ResultsNext, OutcomesNext DEF ServiceInv
<1> QED
  BY <1>1, <1>2, PTL DEF Spec

\* A synchronous call that returns finds a result in its frame, and for a
\* command it is the one its response handler was called with: nothing that
\* the loop thread, other threads or later commands do comes between.
THEOREM ResultReturned == Spec => []ReturnedResult
<1>1. ServiceInv => ReturnedResult
  <2> SUFFICES ASSUME ServiceInv, NEW c \in Callers, cpc[c] = "delete"
               PROVE  /\ out[c].result # "unset"
                      /\ ~IsMsg(job[c]) => out[c].result = delivered[job[c].id]
    BY DEF ReturnedResult
  <2>1. LetGo(c)
    BY DEF ServiceInv, FrameInv, ControlOK, LetGo
  <2>2. job[c].id[1] = c
    BY <2>1, LetGoNotAwaited DEF ServiceInv
  <2> QED
    BY <2>1, <2>2 DEF ServiceInv, ResultsKept, HasResult
<1> QED
  BY <1>1, ServiceInvariant, PTL

-----------------------------------------------------------------------------
(* The event loop implements CommandService.                                *)

\* The refinement mapping, by parts.
Ids(q) == [i \in DOMAIN q |-> q[i].id]
Accepted == {t \in Tickets : delivered[t] # "none"}
              \cup {j.id : j \in Range(sendQueue) \cup ({current} \ {NoTask})}
Running == IF current = NoTask \/ lpc \in {"endGive", "endFree"} THEN NoTask ELSE current.id

LEMMA RangeHeadTail ==
  ASSUME NEW q \in Seq(Job), q # <<>>
  PROVE  Range(q) = {Head(q)} \cup Range(Tail(q))
<1>1. /\ Len(q) \in Nat \ {0} /\ DOMAIN q = 1 .. Len(q) /\ Head(q) = q[1]
      /\ DOMAIN Tail(q) = 1 .. Len(q) - 1 /\ \A i \in 1 .. Len(q) - 1 : Tail(q)[i] = q[i + 1]
  BY HeadTailProperties, LenProperties
<1>2. ASSUME NEW i \in DOMAIN q PROVE q[i] \in {Head(q)} \cup Range(Tail(q))
  <2>1. CASE i = 1
    BY <1>1, <2>1
  <2>2. CASE i # 1
    <3>1. i - 1 \in DOMAIN Tail(q) /\ Tail(q)[i - 1] = q[i]
      BY <1>1, <2>2
    <3> QED
      BY <3>1 DEF Range
  <2> QED
    BY <2>1, <2>2
<1>3. Range(q) \subseteq {Head(q)} \cup Range(Tail(q))
  BY <1>2 DEF Range
<1> QED
  BY <1>3, RangeTail

LEMMA IdsType ==
  ASSUME NEW q \in Seq(Job)
  PROVE  /\ Ids(q) \in Seq(Tickets) /\ Len(Ids(q)) = Len(q) /\ Len(q) \in Nat /\ DOMAIN q = 1 .. Len(q)
         /\ \A i \in 1 .. Len(q) : Ids(q)[i] = q[i].id
<1>1. Len(q) \in Nat /\ DOMAIN q = 1 .. Len(q) /\ \A i \in 1 .. Len(q) : q[i].id \in Tickets
  <2>1. Len(q) \in Nat /\ DOMAIN q = 1 .. Len(q) /\ \A i \in 1 .. Len(q) : q[i] \in Job
    BY LenProperties, ElementOfSeq
  <2>2. \A j \in Job : j.id \in Tickets
    BY DEF Job
  <2> QED
    BY <2>1, <2>2
<1>2. Ids(q) = [i \in 1 .. Len(q) |-> q[i].id]
  BY <1>1 DEF Ids
<1>3. Ids(q) \in Seq(Tickets)
  BY <1>1, <1>2, IsASeq
<1> QED
  BY <1>1, <1>2, <1>3, LenProperties

LEMMA IdsTail ==
  ASSUME NEW q \in Seq(Job), q # <<>>
  PROVE  Ids(q) # <<>> /\ Head(Ids(q)) = Head(q).id /\ Ids(Tail(q)) = Tail(Ids(q))
<1>1. /\ Len(q) \in Nat \ {0} /\ Head(q) = q[1] /\ Tail(q) \in Seq(Job) /\ Len(Tail(q)) = Len(q) - 1
      /\ \A i \in 1 .. Len(q) - 1 : Tail(q)[i] = q[i + 1]
  BY HeadTailProperties, LenProperties, EmptySeq
<1>2. /\ Ids(q) \in Seq(Tickets) /\ Len(Ids(q)) = Len(q) /\ \A i \in 1 .. Len(q) : Ids(q)[i] = q[i].id
  BY IdsType
<1>3. Ids(q) # <<>>
  BY <1>1, <1>2, EmptySeq
<1>4. /\ Head(Ids(q)) = Ids(q)[1] /\ Tail(Ids(q)) \in Seq(Tickets) /\ Len(Tail(Ids(q))) = Len(q) - 1
      /\ \A i \in 1 .. Len(q) - 1 : Tail(Ids(q))[i] = Ids(q)[i + 1]
  BY <1>2, <1>3, HeadTailProperties
<1>5. /\ Ids(Tail(q)) \in Seq(Tickets) /\ Len(Ids(Tail(q))) = Len(q) - 1
      /\ \A i \in 1 .. Len(q) - 1 : Ids(Tail(q))[i] = q[i + 1].id
  BY <1>1, IdsType
<1>6. \A i \in 1 .. Len(q) - 1 : Tail(Ids(q))[i] = Ids(Tail(q))[i]
  BY <1>1, <1>2, <1>4, <1>5
<1>7. Ids(Tail(q)) = Tail(Ids(q))
  BY <1>4, <1>5, <1>6, SeqEqual
<1> QED
  BY <1>1, <1>2, <1>3, <1>4, <1>7

LEMMA IdsAppend ==
  ASSUME NEW q \in Seq(Job), NEW e \in Job
  PROVE  Ids(Append(q, e)) = Append(Ids(q), e.id)
<1>1. /\ Len(q) \in Nat /\ Append(q, e) \in Seq(Job) /\ Len(Append(q, e)) = Len(q) + 1
      /\ \A i \in 1 .. Len(q) : Append(q, e)[i] = q[i]
      /\ Append(q, e)[Len(q) + 1] = e
  BY AppendProperties, LenProperties
<1>2. /\ Ids(q) \in Seq(Tickets) /\ Len(Ids(q)) = Len(q) /\ \A i \in 1 .. Len(q) : Ids(q)[i] = q[i].id
      /\ e.id \in Tickets
  BY IdsType DEF Job
<1>3. /\ Append(Ids(q), e.id) \in Seq(Tickets) /\ Len(Append(Ids(q), e.id)) = Len(q) + 1
      /\ \A i \in 1 .. Len(q) : Append(Ids(q), e.id)[i] = q[i].id
      /\ Append(Ids(q), e.id)[Len(q) + 1] = e.id
  BY <1>2, AppendProperties
<1>4. /\ Ids(Append(q, e)) \in Seq(Tickets) /\ Len(Ids(Append(q, e))) = Len(q) + 1
      /\ \A i \in 1 .. Len(q) + 1 : Ids(Append(q, e))[i] = Append(q, e)[i].id
  BY <1>1, IdsType
<1>5. \A i \in 1 .. Len(q) + 1 : Ids(Append(q, e))[i] = Append(Ids(q), e.id)[i]
  BY <1>1, <1>3, <1>4
<1> QED
  BY <1>3, <1>4, <1>5, SeqEqual

LEMMA InitService == Init => Service!Init
<1> SUFFICES ASSUME Init PROVE Service!Init
  OBVIOUS
<1>1. DOMAIN sendQueue = {} /\ current = NoTask /\ delivered = [t \in Tickets |-> "none"]
  BY DEF Init
<1>2. Range(sendQueue) = {}
  BY <1>1 DEF Range
<1>3. Ids(sendQueue) = <<>>
  BY <1>1 DEF Init, Ids
<1>4. Accepted = {} /\ Running = NoTask
  BY <1>1, <1>2 DEF Accepted, Running
<1> QED
  BY <1>1, <1>3, <1>4 DEF Service!Init, Ids, Accepted, Running

LEMMA StepService ==
  ASSUME "task alloc" \notin MayFail, ServiceInv, [Next]_vars
  PROVE  [Service!Next]_(Service!svars)
<1> USE DEF callVars, queueVars, taskVars, timeVars, urcVars, lineVars
<1>0. TypeOK /\ ControlOK /\ HandedOnce /\ OutcomesKept
  BY DEF ServiceInv, FrameInv
<1>1. ASSUME UNCHANGED <<sendQueue, current, delivered>>,
             lpc' \in {"endGive", "endFree"} <=> lpc \in {"endGive", "endFree"}
      PROVE  UNCHANGED Service!svars
  BY <1>1 DEF Service!svars
<1>2. ASSUME NEW c \in Callers, EnqueueTask(c) PROVE Service!Next
  <2>1. /\ cpc[c] = "enqueue" /\ sendQueue' = Append(sendQueue, job[c])
        /\ UNCHANGED <<current, lpc, delivered>>
    BY <1>2 DEF EnqueueTask
  <2>2. job[c] \in Job /\ job[c].id \in Tickets /\ sendQueue \in Seq(Job)
    BY <1>0, <2>1, JobIds DEF TypeOK
  <2> PICK k \in Tickets : k = job[c].id
    BY <2>2
  <2>3. k \notin Accepted
    <3>1. delivered[k] = "none"
      BY <1>0, <2>1 DEF OutcomesKept
    <3>2. \A j \in Range(sendQueue) \cup ({current} \ {NoTask}) : j.id # k
      BY <1>0, <2>1 DEF HandedOnce, Handed
    <3> QED
      BY <3>1, <3>2 DEF Accepted
  <2>4. Range(sendQueue') = Range(sendQueue) \cup {job[c]}
    <3>1. sendQueue \in Seq(Job) /\ job[c] \in Job /\ sendQueue' = Append(sendQueue, job[c])
      BY <2>1, <2>2
    <3> QED
      BY <3>1, RangeAppend
  <2>5. Accepted' = Accepted \cup {k}
    BY <2>1, <2>4 DEF Accepted
  <2>6. Ids(sendQueue)' = Append(Ids(sendQueue), k)
    BY <2>1, <2>2, IdsAppend
  <2>7. Running' = Running
    BY <2>1 DEF Running
  <2>8. Service!Accept(k)
    BY <2>1, <2>3, <2>5, <2>6, <2>7 DEF Service!Accept, Accepted, Ids, Running
  <2> QED
    BY <2>2, <2>8 DEF Service!Next
<1>3. CASE SendStart
  <2>1. /\ current = NoTask /\ sendQueue # <<>> /\ sendQueue' = Tail(sendQueue)
        /\ current' = Head(sendQueue) /\ lpc' = "transmit" /\ UNCHANGED delivered
    BY <1>3 DEF SendStart, Startable
  <2>2. sendQueue \in Seq(Job) /\ Head(sendQueue) \in Job /\ Head(sendQueue) # NoTask
    <3>1. sendQueue \in Seq(Job)
      BY <1>0 DEF TypeOK
    <3>2. Head(sendQueue) \in Job
      BY <2>1, <3>1, HeadTailProperties
    <3> QED
      BY <3>1, <3>2, NoTaskIsNone
  <2>3. Range(sendQueue) = {Head(sendQueue)} \cup Range(sendQueue')
    BY <2>1, <2>2, RangeHeadTail
  <2>4. Accepted' = Accepted
    BY <2>1, <2>2, <2>3 DEF Accepted
  <2>5. /\ Ids(sendQueue) # <<>> /\ Ids(sendQueue)' = Tail(Ids(sendQueue))
        /\ Head(Ids(sendQueue)) = Head(sendQueue).id
    BY <2>1, <2>2, IdsTail
  <2>6. Running = NoTask /\ Running' = Head(Ids(sendQueue))
    BY <2>1, <2>2, <2>5 DEF Running
  <2>7. Service!Start
    BY <2>1, <2>4, <2>5, <2>6 DEF Service!Start, Accepted, Ids, Running
  <2> QED
    BY <2>7 DEF Service!Next
<1>4. CASE EndNotify
  <2>1. /\ lpc = "endNotify" /\ lpc' \in {"endGive", "endFree"} /\ UNCHANGED <<sendQueue, current>>
        /\ delivered' = [delivered EXCEPT ![current.id] = ending.result]
    BY <1>4 DEF EndNotify
  <2>2. current # NoTask /\ current.id \in Tickets /\ ending.result \in Results
    BY <1>0, <2>1, ReportedJobs DEF ServiceInv, TypeOK, Job
  <2>3. current.id # NoTask
    BY <2>2, NoTaskIsNone
  <2>4. Running = current.id /\ Running' = NoTask
    BY <2>1, <2>2 DEF Running
  <2>5. delivered[current.id] = "none"
    BY <1>0, <2>1, <2>2 DEF OutcomesKept
  <2>6. \A t \in Tickets : delivered'[t] = IF t = current.id THEN ending.result ELSE delivered[t]
    BY <1>0, <2>1, <2>2 DEF TypeOK
  <2>7. Accepted' = Accepted
    <3>1. {t \in Tickets : delivered'[t] # "none"} = {t \in Tickets : delivered[t] # "none"} \cup {current.id}
      BY <2>2, <2>6 DEF Results
    <3>2. current.id \in {j.id : j \in Range(sendQueue) \cup ({current} \ {NoTask})}
      BY <2>2
    <3> QED
      BY <2>1, <3>1, <3>2 DEF Accepted
  <2>8. Service!Finish(ending.result)
    BY <2>1, <2>3, <2>4, <2>5, <2>7 DEF Service!Finish, Accepted, Running, Ids
  <2> QED
    BY <2>2, <2>8 DEF Service!Next
<1>5. CASE EndFree
  <2>1. lpc = "endFree" /\ current' = NoTask /\ UNCHANGED <<sendQueue, delivered>>
    BY <1>5 DEF EndFree
  <2>2. current # NoTask /\ current.id \in Tickets
    BY <2>1, ReportedJobs DEF ServiceInv, Job
  <2>3. delivered[current.id] # "none"
    BY <1>0, <2>1, <2>2 DEF OutcomesKept
  <2>4. Accepted' = Accepted
    BY <2>1, <2>2, <2>3 DEF Accepted
  <2>5. Running = NoTask /\ Running' = NoTask
    BY <2>1 DEF Running
  <2> QED
    BY <2>1, <2>4, <2>5 DEF Service!svars, Accepted, Running
<1>6. ASSUME NEW c \in Callers, CallerNext(c), ~EnqueueTask(c)
      PROVE  UNCHANGED <<sendQueue, current, lpc, delivered>>
  BY <1>6 DEF CallerNext, CallStep, Call, CallFails, EnqueueMsg, EnqueueTimeout, GiveWake, Awaken, Return
<1>7. CASE ExternHandle \/ ExternGive \/ ExternFree \/ EndGive
  BY <1>1, <1>7 DEF ExternHandle, ExternGive, ExternFree, EndGive
<1>8. CASE QuietStep
  BY <1>1, <1>8, QuietStepKeeps DEF Holding
<1>9. ~SendDrop
  BY DEF SendDrop
<1> QED
  BY <1>1, <1>2, <1>3, <1>4, <1>5, <1>6, <1>7, <1>8, <1>9, StepKinds

\* When the task block can be allocated, every command that enters send_queue
\* is started in its turn, while no other runs, and its response handler is
\* called exactly once with one result, whatever the threads, the modem, the
\* interrupt and the clock do. Without memory for the task send_msg_handle
\* drops the command and nobody is told.
THEOREM CommandsServed == "task alloc" \notin MayFail => (Spec => ImplementsCommandService)
<1> SUFFICES ASSUME "task alloc" \notin MayFail PROVE Spec => ImplementsCommandService
  OBVIOUS
<1>1. ServiceInv /\ [Next]_vars => [Service!Next]_(Service!svars)
  BY StepService
<1> QED
  BY <1>1, InitService, ServiceInvariant, PTL DEF Spec, ImplementsCommandService, Service!Spec

-----------------------------------------------------------------------------
(* Which command an answer ends.                                            *)

\* What the modem's answers must look like: the answer to a line command has
\* at most one final line, as its last item, and the answer to a prompt
\* command has no final line and its prompt once.
AnswersTidy ==
  /\ \A a \in LineAnswers : \A i \in DOMAIN a : a[i] # "prompt" /\ (a[i] \in FinalKinds => i = Len(a))
  /\ \A a \in PromptAnswers :
       /\ \A i \in DOMAIN a : a[i] \notin FinalKinds
       /\ \A i, k \in DOMAIN a : i < k => ~(a[i] = "prompt" /\ a[k] = "prompt")

\* A command has timed out or is about to be told so.
NoTimeout ==
  /\ \A t \in Tickets : delivered[t] # "ATC_TIMEOUT"
  /\ ~(lpc = "endNotify" /\ ending.result = "ATC_TIMEOUT")

OfCurrent(x) == current # NoTask /\ x.of = current.id

\* An item that ends no command.
EndsNothing(x) == x.kind \notin FinalKinds \cup {"prompt"}

\* What the items on their way to the loop thread can be: unsolicited lines,
\* the remains of answers to commands that have ended, and what is to come of
\* the answer to the running one.
Pending ==
  {x \in Item :
     /\ x.of = NoTask => x.kind = "urc"
     /\ x.of # NoTask => OfCurrent(x) \/ delivered[x.of] # "none"
     /\ ~OfCurrent(x) => EndsNothing(x)
     /\ OfCurrent(x) =>
          /\ IF current.req.api = "prompt" THEN x.kind \notin FinalKinds ELSE x.kind # "prompt"
          /\ lpc # "transmit" /\ (lpc \in {"endNotify", "endGive", "endFree"} => EndsNothing(x))
     /\ current # NoTask /\ status = "BINARY" => x.kind # "prompt" /\ (x.of = NoTask \/ OfCurrent(x))}

\* How two of them can follow each other: nothing old comes after the answer
\* to the running command has begun, nothing of it after its final line, and
\* it has one prompt.
InOrder ==
  {p \in Item \X Item :
     OfCurrent(p[1]) =>
       /\ p[2].of = NoTask \/ OfCurrent(p[2])
       /\ OfCurrent(p[2]) => p[1].kind \notin FinalKinds /\ ~(p[1].kind = "prompt" /\ p[2].kind = "prompt")}

\* The items of three sequences, one behind the other, are in G and every two
\* of them in F.
Within(s, G) == \A i \in 1 .. Len(s) : s[i] \in G
Sorted(s, F) == \A i, k \in 1 .. Len(s) : i < k => <<s[i], s[k]>> \in F
Ahead(s, t, F) == \A i \in 1 .. Len(s), k \in 1 .. Len(t) : <<s[i], t[k]>> \in F
Tidy(a, b, c, G, F) ==
  /\ Within(a, G) /\ Within(b, G) /\ Within(c, G)
  /\ Sorted(a, F) /\ Sorted(b, F) /\ Sorted(c, F)
  /\ Ahead(a, b, F) /\ Ahead(a, c, F) /\ Ahead(b, c, F)

\* The mode of the receive machine is that of the running command.
ModesOK ==
  /\ current # NoTask => (current.req.api = "prompt" <=> status \in {"PROMPT", "BINARY"})
  /\ lpc = "transmit" => status # "BINARY"
  /\ lpc = "endNotify" /\ ending.result = "ATC_TIMEOUT" => ending.of = NoTask

AnswersOK ==
  /\ Tidy(rx, isrBuf, modem, Pending, InOrder)
  /\ lpc = "endNotify" => ending.of \in {NoTask, current.id}

AnswerInv == ModesOK /\ (NoTimeout => AnswersOK)

LEMMA TidyGrows ==
  ASSUME NEW a, NEW b, NEW c, NEW G, NEW F, NEW G2, NEW F2,
         Tidy(a, b, c, G, F), G \subseteq G2, \A x, y \in G : <<x, y>> \in F => <<x, y>> \in F2
  PROVE  Tidy(a, b, c, G2, F2)
<1>1. Within(a, G) /\ Within(b, G) /\ Within(c, G)
  BY DEF Tidy
<1>2. ASSUME NEW s, NEW t, Within(s, G), Within(t, G)
      PROVE  /\ Within(s, G2) /\ (Sorted(s, F) => Sorted(s, F2))
             /\ Ahead(s, t, F) => Ahead(s, t, F2)
  BY <1>2 DEF Within, Sorted, Ahead
<1>3. /\ Within(a, G2) /\ Within(b, G2) /\ Within(c, G2)
      /\ Sorted(a, F2) /\ Sorted(b, F2) /\ Sorted(c, F2)
  BY <1>1, <1>2 DEF Tidy
<1>4. Ahead(a, b, F2) /\ Ahead(a, c, F2) /\ Ahead(b, c, F2)
  BY <1>1, <1>2 DEF Tidy
<1> QED
  BY <1>3, <1>4 DEF Tidy

\* Consecutive items of a sequence are in the same order.
Part(s, t) == \E d \in Nat : Len(s) + d <= Len(t) /\ \A i \in 1 .. Len(s) : s[i] = t[i + d]

LEMMA PartTidy ==
  ASSUME NEW s, NEW t, NEW u, NEW G, NEW F, Part(s, t), Len(s) \in Nat, Len(t) \in Nat
  PROVE  /\ Within(t, G) => Within(s, G)
         /\ Sorted(t, F) => Sorted(s, F)
         /\ Ahead(t, u, F) => Ahead(s, u, F)
         /\ Ahead(u, t, F) => Ahead(u, s, F)
<1>1. PICK d \in Nat : Len(s) + d <= Len(t) /\ \A i \in 1 .. Len(s) : s[i] = t[i + d]
  BY DEF Part
<1>2. \A i \in 1 .. Len(s) : i + d \in 1 .. Len(t)
  BY <1>1
<1>3. Within(t, G) => Within(s, G)
  BY <1>1, <1>2 DEF Within
<1>4. \A i, k \in 1 .. Len(s) : i < k => i + d < k + d
  OBVIOUS
<1>5. Sorted(t, F) => Sorted(s, F)
  BY <1>1, <1>2, <1>4 DEF Sorted
<1>6. Ahead(t, u, F) => Ahead(s, u, F)
  BY <1>1, <1>2 DEF Ahead
<1>7. Ahead(u, t, F) => Ahead(u, s, F)
  BY <1>1, <1>2 DEF Ahead
<1> QED
  BY <1>3, <1>5, <1>6, <1>7

LEMMA TidyPop ==
  ASSUME NEW a \in Seq(Item), NEW b, NEW c, NEW G, NEW F, a # <<>>, Tidy(a, b, c, G, F)
  PROVE  /\ Head(a) \in G
         /\ Tidy(Tail(a), b, c, {y \in G : <<Head(a), y>> \in F}, F)
<1> DEFINE H == {y \in G : <<Head(a), y>> \in F}
<1>1. /\ Len(a) \in Nat \ {0} /\ Head(a) = a[1]
      /\ Len(Tail(a)) = Len(a) - 1 /\ \A i \in 1 .. Len(a) - 1 : Tail(a)[i] = a[i + 1]
  BY HeadTailProperties, LenProperties, EmptySeq
<1>2. Part(Tail(a), a) /\ Len(Tail(a)) \in Nat /\ Len(a) \in Nat
  BY <1>1 DEF Part
<1>3. Head(a) \in G
  BY <1>1 DEF Tidy, Within
<1>4. Within(Tail(a), H)
  BY <1>1 DEF Tidy, Within, Sorted
<1>5. Within(b, H) /\ Within(c, H)
  BY <1>1 DEF Tidy, Within, Ahead
<1>6. Sorted(Tail(a), F) /\ Ahead(Tail(a), b, F) /\ Ahead(Tail(a), c, F)
  BY <1>2, PartTidy DEF Tidy
<1> QED
  BY <1>3, <1>4, <1>5, <1>6 DEF Tidy

\* The interrupt copies an item of its data into the ring.
LEMMA TidyWrite ==
  ASSUME NEW a \in Seq(Item), NEW b \in Seq(Item), NEW c, NEW G, NEW F, b # <<>>, Tidy(a, b, c, G, F)
  PROVE  Tidy(Append(a, Head(b)), Tail(b), c, G, F)
<1> DEFINE e == Head(b)
           a2 == Append(a, e)
<1>1. /\ Len(b) \in Nat \ {0} /\ e = b[1] /\ e \in Item
      /\ Len(Tail(b)) = Len(b) - 1 /\ \A i \in 1 .. Len(b) - 1 : Tail(b)[i] = b[i + 1]
  BY HeadTailProperties, LenProperties, EmptySeq
<1>2. Part(Tail(b), b) /\ Len(Tail(b)) \in Nat /\ Len(b) \in Nat
  BY <1>1 DEF Part
<1>3. /\ Len(a) \in Nat /\ Len(a2) = Len(a) + 1
      /\ \A i \in 1 .. Len(a) : a2[i] = a[i]
      /\ a2[Len(a) + 1] = e
  BY <1>1, AppendProperties, LenProperties
<1> HIDE DEF e, a2
<1>4. Within(Tail(b), G) /\ Sorted(Tail(b), F) /\ Ahead(Tail(b), c, F) /\ Ahead(a, Tail(b), F)
  BY <1>2, PartTidy DEF Tidy
<1>5. e \in G /\ \A i \in 1 .. Len(a) : <<a[i], e>> \in F
  BY <1>1, <1>3 DEF Tidy, Within, Ahead
<1>6. /\ \A i \in 1 .. Len(Tail(b)) : <<e, Tail(b)[i]>> \in F
      /\ \A i \in 1 .. Len(c) : <<e, c[i]>> \in F
  BY <1>1 DEF Tidy, Sorted, Ahead
<1>7. \A i \in 1 .. Len(a2) : i \in 1 .. Len(a) \/ i = Len(a) + 1
  BY <1>3
<1>8. Within(a2, G)
  BY <1>3, <1>5, <1>7 DEF Tidy, Within
<1>9. Sorted(a2, F)
  <2> SUFFICES ASSUME NEW i \in 1 .. Len(a2), NEW k \in 1 .. Len(a2), i < k PROVE <<a2[i], a2[k]>> \in F
    BY DEF Sorted
  <2>1. i \in 1 .. Len(a) /\ a2[i] = a[i]
    BY <1>3
  <2>2. CASE k = Len(a) + 1
    BY <1>3, <1>5, <2>1, <2>2
  <2>3. CASE k \in 1 .. Len(a)
    BY <1>3, <2>1, <2>3 DEF Tidy, Sorted
  <2> QED
    BY <1>7, <2>2, <2>3
<1>10. Ahead(a2, Tail(b), F)
  BY <1>3, <1>4, <1>6, <1>7 DEF Ahead
<1>11. Ahead(a2, c, F)
  BY <1>3, <1>6, <1>7 DEF Tidy, Ahead
<1>12. Tidy(a2, Tail(b), c, G, F)
  BY <1>4, <1>8, <1>9, <1>10, <1>11 DEF Tidy
<1> QED
  BY <1>12 DEF a2, e

\* The ring is full: the interrupt drops its data.
LEMMA TidyDrop ==
  ASSUME NEW a, NEW b, NEW c, NEW G, NEW F, Tidy(a, b, c, G, F)
  PROVE  Tidy(a, <<>>, c, G, F)
<1>1. \A i \in 1 .. Len(<<>>) : FALSE
  BY EmptySeq
<1> QED
  BY <1>1 DEF Tidy, Within, Sorted, Ahead

\* An item that may be anywhere arrives instead.
LEMMA TidyInsert ==
  ASSUME NEW a, NEW b, NEW c, NEW G, NEW F, NEW u \in Item, Tidy(a, b, c, G, F),
         u \in G, \A x \in G : <<x, u>> \in F /\ <<u, x>> \in F
  PROVE  Tidy(a, <<u>>, c, G, F)
<1>0. Len(<<u>>) = 1 /\ <<u>>[1] = u
  OBVIOUS
<1>1. \A i \in 1 .. Len(<<u>>) : i = 1 /\ <<u>>[i] = u
  BY <1>0
<1>2. Within(<<u>>, G) /\ Sorted(<<u>>, F)
  BY <1>1 DEF Within, Sorted
<1>3. Ahead(a, <<u>>, F) /\ Ahead(<<u>>, c, F)
  BY <1>1 DEF Tidy, Within, Ahead
<1> QED
  BY <1>2, <1>3 DEF Tidy

\* The interrupt starts with the next items of the modem.
LEMMA TidyTake ==
  ASSUME NEW a, NEW c \in Seq(Item), NEW G, NEW F, NEW k \in 1 .. Len(c), Tidy(a, <<>>, c, G, F)
  PROVE  Tidy(a, SubSeq(c, 1, k), SubSeq(c, k + 1, Len(c)), G, F)
<1> DEFINE b2 == SubSeq(c, 1, k)
           c2 == SubSeq(c, k + 1, Len(c))
<1>1. Len(c) \in Nat /\ k \in Nat /\ \A i \in 1 .. Len(c) : c[i] \in Item
  BY LenProperties, ElementOfSeq
<1>2. Len(b2) = k /\ \A i \in 1 .. k : b2[i] = c[i]
  <2>1. Len(b2) = k /\ \A i \in 1 .. k - 1 + 1 : b2[i] = c[1 + i - 1]
    BY <1>1, SubSeqProperties
  <2> QED
    BY <1>1, <2>1
<1>3. Len(c2) = Len(c) - k /\ \A i \in 1 .. Len(c) - k : c2[i] = c[i + k]
  <2>1. /\ Len(c2) = IF k + 1 <= Len(c) THEN Len(c) - (k + 1) + 1 ELSE 0
        /\ \A i \in 1 .. Len(c) - (k + 1) + 1 : c2[i] = c[(k + 1) + i - 1]
    BY <1>1, SubSeqProperties
  <2> QED
    BY <1>1, <2>1
<1> HIDE DEF b2, c2
<1>4. Part(b2, c) /\ Len(b2) \in Nat
  BY <1>1, <1>2 DEF Part
<1>5. Part(c2, c) /\ Len(c2) \in Nat
  <2>1. Len(c2) \in Nat /\ Len(c2) + k <= Len(c) /\ \A i \in 1 .. Len(c2) : c2[i] = c[i + k]
    BY <1>1, <1>3
  <2> QED
    BY <1>1, <2>1 DEF Part
<1>6. /\ Within(b2, G) /\ Sorted(b2, F) /\ Ahead(a, b2, F)
      /\ Within(c2, G) /\ Sorted(c2, F) /\ Ahead(a, c2, F)
  BY <1>1, <1>4, <1>5, PartTidy DEF Tidy
<1>7. Ahead(b2, c2, F)
  <2> SUFFICES ASSUME NEW i \in 1 .. Len(b2), NEW n \in 1 .. Len(c2) PROVE <<b2[i], c2[n]>> \in F
    BY DEF Ahead
  <2>1. i \in 1 .. Len(c) /\ n + k \in 1 .. Len(c) /\ i < n + k
    BY <1>1, <1>2, <1>3
  <2>2. b2[i] = c[i] /\ c2[n] = c[n + k]
    BY <1>1, <1>2, <1>3
  <2> QED
    BY <2>1, <2>2 DEF Tidy, Sorted
<1>8. Tidy(a, b2, c2, G, F)
  BY <1>6, <1>7 DEF Tidy
<1> QED
  BY <1>8 DEF b2, c2

\* The modem answers: items that may follow everything on its way.
LEMMA TidyExtend ==
  ASSUME NEW a, NEW b, NEW c \in Seq(Item), NEW G, NEW F, NEW e \in Seq(Item), Tidy(a, b, c, G, F),
         Within(e, G), Sorted(e, F), NEW H, Within(a, H), Within(b, H), Within(c, H),
         \A x \in H : \A i \in 1 .. Len(e) : <<x, e[i]>> \in F
  PROVE  Tidy(a, b, c \o e, G, F)
<1> DEFINE n == Len(c)
           c2 == c \o e
<1>1. /\ n \in Nat /\ Len(e) \in Nat /\ Len(c2) = n + Len(e)
      /\ \A i \in 1 .. n + Len(e) : c2[i] = IF i <= n THEN c[i] ELSE e[i - n]
  BY ConcatProperties, LenProperties
<1> HIDE DEF c2
<1>2. \A i \in 1 .. Len(c2) : \/ i \in 1 .. Len(c) /\ c2[i] = c[i]
                              \/ i > Len(c) /\ i - Len(c) \in 1 .. Len(e) /\ c2[i] = e[i - Len(c)]
  BY <1>1
<1> HIDE DEF n
<1>3. Within(c2, G)
  BY <1>2 DEF Tidy, Within
<1>4. Ahead(a, c2, F) /\ Ahead(b, c2, F)
  BY <1>2 DEF Tidy, Ahead, Within
<1>5. Sorted(c2, F)
  <2> SUFFICES ASSUME NEW i \in 1 .. Len(c2), NEW k \in 1 .. Len(c2), i < k PROVE <<c2[i], c2[k]>> \in F
    BY DEF Sorted
  <2>0. Len(c) \in Nat /\ i \in Nat /\ k \in Nat
    BY <1>1 DEF n
  <2>1. CASE k \in 1 .. Len(c)
    <3>1. i \in 1 .. Len(c)
      BY <2>0, <2>1
    <3>2. c2[i] = c[i] /\ c2[k] = c[k]
      BY <1>2, <2>0, <2>1, <3>1
    <3> QED
      BY <2>1, <3>1, <3>2 DEF Tidy, Sorted
  <2>2. CASE k > Len(c) /\ i \in 1 .. Len(c)
    <3>1. c2[i] = c[i] /\ k - Len(c) \in 1 .. Len(e) /\ c2[k] = e[k - Len(c)]
      BY <1>2, <2>0, <2>2
    <3>2. c[i] \in H
      BY <2>2 DEF Within
    <3> QED
      BY <3>1, <3>2
  <2>3. CASE k > Len(c) /\ i > Len(c)
    <3>1. /\ i - Len(c) \in 1 .. Len(e) /\ c2[i] = e[i - Len(c)]
          /\ k - Len(c) \in 1 .. Len(e) /\ c2[k] = e[k - Len(c)]
      BY <1>2, <2>0, <2>3
    <3>2. i - Len(c) < k - Len(c)
      BY <2>0
    <3> QED
      BY <3>1, <3>2 DEF Sorted
  <2> QED
    BY <1>2, <2>0, <2>1, <2>2, <2>3
<1>6. Tidy(a, b, c2, G, F)
  BY <1>3, <1>4, <1>5 DEF Tidy
<1> QED
  BY <1>6 DEF c2

\* Steps that leave the answers and the running command alone.
Aside ==
  /\ UNCHANGED <<rx, isrBuf, modem, current, status, ending, delivered>>
  /\ lpc' = lpc \/ {lpc, lpc'} \cap {"transmit", "endNotify", "endGive", "endFree"} = {}

AnswerStep ==
  \/ SendStart \/ Transmit \/ TransmitFails
  \/ RecvChunk \/ RecvLine \/ RecvPrompt \/ RecvBinary
  \/ EndNotify \/ EndGive \/ EndFree \/ CheckTimeout
  \/ IsrStart \/ IsrWrite \/ IsrFull

LEMMA AnswerSteps == [Next]_vars => Aside \/ AnswerStep
<1> SUFFICES ASSUME [Next]_vars, ~AnswerStep PROVE Aside
  OBVIOUS
<1> USE DEF callVars, queueVars, taskVars, timeVars, urcVars, lineVars, Aside
<1>1. ASSUME NEW c \in Callers, CallerNext(c) PROVE Aside
  BY <1>1 DEF CallerNext, CallStep, Call, CallFails, EnqueueTask, EnqueueMsg, EnqueueTimeout, GiveWake, Awaken, Return
<1>2. CASE ExternHandle \/ ExternGive \/ ExternFree \/ ExternDone
  BY <1>2 DEF ExternHandle, ExternGive, ExternFree, ExternDone
<1>3. CASE SendSkip \/ SendDrop \/ RecvDone
  BY <1>3 DEF SendSkip, SendDrop, RecvDone
<1>4. CASE ComputeWait \/ Take \/ Tick \/ IsrGive \/ UNCHANGED vars
  BY <1>4 DEF ComputeWait, Take, Tick, IsrGive, vars
<1> QED
  BY <1>1, <1>2, <1>3, <1>4 DEF AnswerStep, Next, Loop, IsrStep

LEMMA ModesNext == TypeOK /\ ControlOK /\ ModesOK /\ [Next]_vars => ModesOK'
<1> SUFFICES ASSUME TypeOK, ControlOK, ModesOK, [Next]_vars PROVE ModesOK'
  OBVIOUS
<1> USE DEF lineVars
<1>1. CASE Aside
  BY <1>1 DEF Aside, ModesOK
<1>2. CASE SendStart
  <2>1. PICK t : t = Head(sendQueue)
    OBVIOUS
  <2>2. current' = t /\ status' = (IF t.req.api = "prompt" THEN "PROMPT" ELSE "LINE_RECV") /\ lpc' = "transmit"
    BY <1>2, <2>1 DEF SendStart
  <2> QED
    BY <2>2 DEF ModesOK
<1>3. CASE Transmit \/ TransmitFails \/ CheckTimeout
  BY <1>3 DEF Transmit, TransmitFails, CheckTimeout, EndTask, ModesOK, taskVars
<1>4. CASE RecvChunk \/ RecvLine \/ RecvBinary
  BY <1>4 DEF RecvChunk, RecvLine, RecvBinary, EndTask, ModesOK, taskVars
<1>5. CASE RecvPrompt
  <2>1. current # NoTask /\ status = "PROMPT"
    BY <1>5 DEF RecvPrompt, Mode
  <2>2. /\ current' = current /\ lpc = "recv" /\ lpc' # "transmit" /\ status' \in {"PROMPT", "BINARY"}
        /\ lpc' = "endNotify" => ending'.result = "ATC_SUCCESS"
    BY <1>5, <2>1 DEF RecvPrompt, EndTask
  <2> QED
    BY <2>1, <2>2 DEF ModesOK
<1>6. CASE EndNotify \/ EndGive \/ EndFree
  BY <1>6 DEF EndNotify, EndGive, EndFree, ModesOK, taskVars
<1>7. CASE IsrStart \/ IsrWrite \/ IsrFull
  BY <1>7 DEF IsrStart, IsrWrite, IsrFull, ModesOK, taskVars
<1> QED
  BY <1>1, <1>2, <1>3, <1>4, <1>5, <1>6, <1>7, AnswerSteps DEF AnswerStep

LEMMA NoTimeoutBefore == ServiceInv /\ [Next]_vars /\ NoTimeout' => NoTimeout
<1> SUFFICES ASSUME ServiceInv, [Next]_vars, NoTimeout' PROVE NoTimeout
  OBVIOUS
<1> USE DEF lineVars
<1>1. CASE Aside
  BY <1>1, AnswerSteps DEF Aside, NoTimeout
<1>2. CASE EndNotify
  <2>1. lpc = "endNotify" /\ delivered' = [delivered EXCEPT ![current.id] = ending.result]
    BY <1>2 DEF EndNotify
  <2>2. current # NoTask /\ current.id \in Tickets
    BY <2>1, ReportedJobs DEF ServiceInv, Job
  <2>3. delivered \in [Tickets -> Results \cup {"none"}]
    BY DEF ServiceInv, FrameInv, TypeOK
  <2>4. delivered[current.id] = "none"
    BY <2>1, <2>2 DEF ServiceInv, OutcomesKept
  <2>5. ending.result # "ATC_TIMEOUT"
    BY <2>1, <2>2, <2>3 DEF NoTimeout
  <2>6. \A t \in Tickets : delivered[t] # "ATC_TIMEOUT"
    BY <2>1, <2>2, <2>3, <2>4 DEF NoTimeout
  <2> QED
    BY <2>5, <2>6 DEF NoTimeout
<1>3. CASE AnswerStep /\ ~EndNotify
  <2>1. delivered' = delivered
    BY <1>3 DEF AnswerStep, SendStart, Transmit, TransmitFails, RecvChunk, RecvLine, RecvPrompt, RecvBinary,
                EndGive, EndFree, CheckTimeout, IsrStart, IsrWrite, IsrFull
  <2>2. lpc = "endNotify" => lpc' = lpc /\ ending' = ending
    BY <1>3 DEF AnswerStep, SendStart, Transmit, TransmitFails, RecvChunk, RecvLine, RecvPrompt, RecvBinary,
                EndGive, EndFree, CheckTimeout, IsrStart, IsrWrite, IsrFull, taskVars
  <2> QED
    BY <2>1, <2>2 DEF NoTimeout
<1> QED
  BY <1>1, <1>2, <1>3, AnswerSteps

LEMMA PendingTypes ==
  ASSUME ServiceInv
  PROVE  /\ NoTask \notin Tickets
         /\ current # NoTask => current \in Job /\ current.id \in Tickets
         /\ rx \in Seq(Item) /\ isrBuf \in Seq(Item) /\ modem \in Seq(Item)
BY NoTaskIsNone DEF ServiceInv, FrameInv, TypeOK, Job

\* While no command or the same one runs, in the same state of its life.
LEMMA PendingKept ==
  ASSUME UNCHANGED <<current, status, delivered>>,
         lpc' = lpc \/ lpc' \notin {"transmit", "endNotify", "endGive", "endFree"}
  PROVE  Pending \subseteq Pending' /\ InOrder' = InOrder
BY DEF Pending, InOrder, OfCurrent, EndsNothing

LEMMA AnswersAside == AnswersOK /\ Aside => AnswersOK'
<1> SUFFICES ASSUME AnswersOK, Aside PROVE AnswersOK'
  OBVIOUS
<1>1. Pending \subseteq Pending' /\ InOrder' = InOrder
  BY PendingKept DEF Aside
<1>2. UNCHANGED <<rx, isrBuf, modem>>
  BY DEF Aside
<1>3. PICK G2 : G2 = Pending'
  OBVIOUS
<1>4. Tidy(rx, isrBuf, modem, G2, InOrder)
  BY <1>1, <1>3, TidyGrows DEF AnswersOK
<1>5. Tidy(rx, isrBuf, modem, Pending, InOrder)'
  BY <1>1, <1>2, <1>3, <1>4
<1>6. lpc' = "endNotify" => ending'.of \in {NoTask, current'.id}
  BY DEF Aside, AnswersOK
<1> QED
  BY <1>5, <1>6 DEF AnswersOK

LEMMA AnswersIsr == ServiceInv /\ AnswersOK /\ (IsrStart \/ IsrWrite \/ IsrFull) => AnswersOK'
<1> SUFFICES ASSUME ServiceInv, AnswersOK, IsrStart \/ IsrWrite \/ IsrFull PROVE AnswersOK'
  OBVIOUS
<1>0. UNCHANGED <<current, status, delivered, lpc, ending>>
  BY DEF IsrStart, IsrWrite, IsrFull, taskVars
<1>1. Pending' = Pending /\ InOrder' = InOrder
  BY <1>0 DEF Pending, InOrder, OfCurrent, EndsNothing
<1>2. Tidy(rx, isrBuf, modem, Pending, InOrder)
  BY DEF AnswersOK
<1>3. Tidy(rx', isrBuf', modem', Pending, InOrder)
  <2>1. CASE IsrStart
    <3>1. rx' = rx /\ Tidy(rx, <<>>, modem, Pending, InOrder)
      BY <1>2, <2>1, TidyDrop DEF IsrStart
    <3>2. ASSUME NEW k \in 1 .. MaxBurst, k <= Len(modem), isrBuf' = SubSeq(modem, 1, k),
                 modem' = SubSeq(modem, k + 1, Len(modem))
          PROVE  Tidy(rx', isrBuf', modem', Pending, InOrder)
      <4>1. k \in 1 .. Len(modem) /\ modem \in Seq(Item)
        BY <3>2, PendingTypes, LenProperties, ConstantsAssumption
      <4> QED
        BY <3>1, <3>2, <4>1, TidyTake
    <3>3. ASSUME isrBuf' = <<[kind |-> "urc", of |-> NoTask]>>, modem' = modem
          PROVE  Tidy(rx', isrBuf', modem', Pending, InOrder)
      <4> DEFINE u == [kind |-> "urc", of |-> NoTask]
      <4>1. u \in Item /\ ~OfCurrent(u)
        BY PendingTypes DEF Item, Kinds, LineKinds, OfCurrent
      <4>2. u \in Pending
        BY <4>1 DEF Pending, EndsNothing, FinalKinds
      <4>3. ASSUME NEW x \in Pending PROVE <<x, u>> \in InOrder /\ <<u, x>> \in InOrder
        BY <4>1 DEF Pending, InOrder
      <4> HIDE DEF u
      <4>4. Tidy(rx, <<u>>, modem, Pending, InOrder)
        BY <1>2, <4>1, <4>2, <4>3, TidyInsert
      <4> QED
        BY <3>1, <3>3, <4>4 DEF u
    <3>4. \/ \E k \in 1 .. MaxBurst : /\ k <= Len(modem) /\ isrBuf' = SubSeq(modem, 1, k)
                                      /\ modem' = SubSeq(modem, k + 1, Len(modem))
          \/ isrBuf' = <<[kind |-> "urc", of |-> NoTask]>> /\ modem' = modem
      BY <2>1 DEF IsrStart
    <3> QED
      BY <3>2, <3>3, <3>4
  <2>2. CASE IsrWrite
    <3>1. isrBuf # <<>> /\ rx' = Append(rx, Head(isrBuf)) /\ isrBuf' = Tail(isrBuf) /\ modem' = modem
      BY <2>2 DEF IsrWrite
    <3> QED
      BY <1>2, <3>1, PendingTypes, TidyWrite
  <2>3. CASE IsrFull
    <3>1. rx' = rx /\ isrBuf' = <<>> /\ modem' = modem
      BY <2>3 DEF IsrFull
    <3> QED
      BY <1>2, <3>1, TidyDrop
  <2> QED
    BY <2>1, <2>2, <2>3
<1> QED
  BY <1>0, <1>1, <1>3 DEF AnswersOK

\* A command is started: everything under way is old.
LEMMA AnswersStart == ServiceInv /\ AnswersOK /\ SendStart => AnswersOK'
<1> SUFFICES ASSUME ServiceInv, AnswersOK, SendStart PROVE AnswersOK'
  OBVIOUS
<1>1. PICK t : t = Head(sendQueue)
  OBVIOUS
<1>2. /\ current = NoTask /\ sendQueue # <<>> /\ current' = t
      /\ status' # "BINARY" /\ lpc' = "transmit"
      /\ UNCHANGED <<rx, isrBuf, modem, delivered>>
  BY <1>1 DEF SendStart, Startable, lineVars
<1>3. t \in Range(sendQueue) /\ t \in Job
  BY <1>1, <1>2, RangeHeadTail, HeadTailProperties DEF ServiceInv, FrameInv, TypeOK
<1>4. t.id \in Tickets /\ delivered[t.id] = "none"
  BY <1>3 DEF ServiceInv, OutcomesKept, Job
<1>5. ASSUME NEW x \in Pending PROVE x \in Item /\ x.of # t.id /\ EndsNothing(x) /\ x \in Pending'
  <2>1. /\ x \in Item /\ ~OfCurrent(x) /\ EndsNothing(x)
        /\ x.of = NoTask => x.kind = "urc"
        /\ x.of # NoTask => delivered[x.of] # "none"
    BY <1>2 DEF Pending, OfCurrent
  <2>2. x.of # t.id
    BY <1>4, <2>1, PendingTypes
  <2>3. ~OfCurrent(x)'
    BY <1>2, <2>2 DEF OfCurrent
  <2>4. EndsNothing(x)'
    BY <2>1 DEF EndsNothing
  <2> QED
    BY <1>2, <2>1, <2>2, <2>3, <2>4 DEF Pending
<1>6. ASSUME NEW x \in Pending, NEW y \in Pending PROVE <<x, y>> \in InOrder'
  BY <1>2, <1>5 DEF InOrder, OfCurrent
<1>7. PICK G2, F2 : G2 = Pending' /\ F2 = InOrder'
  OBVIOUS
<1>8. Pending \subseteq G2 /\ \A x, y \in Pending : <<x, y>> \in F2
  BY <1>5, <1>6, <1>7
<1>9. Tidy(rx, isrBuf, modem, G2, F2)
  BY <1>8, TidyGrows DEF AnswersOK
<1> QED
  BY <1>2, <1>7, <1>9 DEF AnswersOK

\* The modem's answer as items of the command with ticket t.
LEMMA TaggedItems ==
  ASSUME NEW a \in Seq(Kinds), NEW t \in Tickets, NEW e, e = [i \in DOMAIN a |-> [kind |-> a[i], of |-> t]]
  PROVE  /\ e \in Seq(Item) /\ Len(e) = Len(a)
         /\ \A i \in 1 .. Len(a) : e[i] \in Item /\ e[i].kind = a[i] /\ e[i].of = t
<1> DEFINE r(i) == [kind |-> a[i], of |-> t]
<1>1. Len(a) \in Nat /\ DOMAIN a = 1 .. Len(a) /\ \A i \in 1 .. Len(a) : a[i] \in Kinds
  BY LenProperties, ElementOfSeq
<1>2. \A kind \in Kinds : [kind |-> kind, of |-> t] \in Item
  BY DEF Item
<1>3. \A i \in 1 .. Len(a) : r(i) \in Item /\ r(i).kind = a[i] /\ r(i).of = t
  BY <1>1, <1>2
<1>4. e = [i \in 1 .. Len(a) |-> r(i)]
  BY <1>1
<1> HIDE DEF r
<1>5. e \in Seq(Item)
  BY <1>1, <1>3, <1>4, IsASeq
<1>6. Len(e) = Len(a)
  <2>1. DOMAIN e = 1 .. Len(e) /\ Len(e) \in Nat
    BY <1>5, LenProperties
  <2>2. DOMAIN e = 1 .. Len(a)
    BY <1>4
  <2> QED
    BY <1>1, <2>1, <2>2
<1>7. \A i \in 1 .. Len(a) : e[i] = r(i)
  BY <1>4
<1> QED
  BY <1>3, <1>5, <1>6, <1>7

\* The command is on the line, or could not be put there.
LEMMA AnswersTransmit ==
  ASSUME AnswersTidy, ServiceInv, ModesOK, AnswersOK, Transmit \/ TransmitFails
  PROVE  AnswersOK'
<1>1. /\ lpc = "transmit" /\ current # NoTask /\ current.id \in Tickets /\ status # "BINARY"
      /\ UNCHANGED <<rx, isrBuf, current, status, delivered>>
      /\ lpc' \in {"recv", "endNotify"}
  <2>1. lpc = "transmit" /\ UNCHANGED <<rx, isrBuf, current, status, delivered>> /\ lpc' \in {"recv", "endNotify"}
    BY DEF Transmit, TransmitFails, EndTask, taskVars, lineVars
  <2>2. current # NoTask
    BY <2>1 DEF ServiceInv, FrameInv, ControlOK
  <2> QED
    BY <2>1, <2>2, PendingTypes DEF ModesOK
<1>2. ASSUME NEW x \in Pending PROVE x \in Item /\ ~OfCurrent(x) /\ x \in Pending'
  <2>1. x \in Item /\ ~OfCurrent(x)
    BY <1>1 DEF Pending
  <2>2. ~OfCurrent(x)' /\ (EndsNothing(x) => EndsNothing(x)')
    BY <1>1, <2>1 DEF OfCurrent, EndsNothing
  <2> QED
    BY <1>1, <2>1, <2>2 DEF Pending
<1>3. InOrder' = InOrder
  BY <1>1 DEF InOrder, OfCurrent
<1>4. PICK G2 : G2 = Pending'
  OBVIOUS
<1>5. Pending \subseteq G2
  BY <1>2, <1>4
<1>6. Tidy(rx, isrBuf, modem, Pending, InOrder)
  BY DEF AnswersOK
<1>7. Tidy(rx, isrBuf, modem, G2, InOrder)
  BY <1>5, <1>6, TidyGrows
<1>8. CASE TransmitFails
  <2>1. modem' = modem /\ ending'.of = NoTask
    BY <1>8 DEF TransmitFails, EndTask, lineVars
  <2> QED
    BY <1>1, <1>3, <1>4, <1>7, <2>1 DEF AnswersOK
<1>9. CASE Transmit
  <2>1. PICK a \in IF current.req.api = "prompt" THEN PromptAnswers ELSE LineAnswers :
          modem' = modem \o [i \in DOMAIN a |-> [kind |-> a[i], of |-> current.id]]
    BY <1>9 DEF Transmit
  <2>2. lpc' = "recv"
    BY <1>9 DEF Transmit
  <2>3. a \in Seq(Kinds)
    BY <2>1, ConstantsAssumption
  <2>4. DOMAIN a = 1 .. Len(a) /\ Len(a) \in Nat
    BY <2>3, LenProperties
  <2>5. PICK e : e = [i \in DOMAIN a |-> [kind |-> a[i], of |-> current.id]]
    OBVIOUS
  <2>6. /\ e \in Seq(Item) /\ Len(e) = Len(a)
        /\ \A i \in 1 .. Len(a) : e[i] \in Item /\ e[i].kind = a[i] /\ e[i].of = current.id
    BY <1>1, <2>3, <2>5, TaggedItems
  <2>7. /\ DOMAIN a = 1 .. Len(e) /\ Len(e) = Len(a) /\ Len(a) \in Nat
        /\ \A i \in 1 .. Len(e) : e[i] \in Item /\ e[i].kind = a[i] /\ e[i].of = current.id
    BY <2>4, <2>6
  <2>8. ASSUME NEW i \in 1 .. Len(e) PROVE OfCurrent(e[i]) /\ OfCurrent(e[i])'
    <3>1. e[i].of = current.id
      BY <2>7
    <3>2. PICK x : x = e[i]
      OBVIOUS
    <3>3. OfCurrent(x) /\ OfCurrent(x)'
      BY <1>1, <3>1, <3>2 DEF OfCurrent
    <3> QED
      BY <3>2, <3>3
  <2>9. ASSUME NEW i \in 1 .. Len(e)
        PROVE  e[i].kind \notin (IF current.req.api = "prompt" THEN FinalKinds ELSE {"prompt"})
    <3>1. i \in DOMAIN a /\ e[i].kind = a[i]
      BY <2>7
    <3>2. CASE current.req.api = "prompt"
      <4>1. a \in PromptAnswers
        BY <2>1, <3>2
      <4> QED
        BY <3>1, <3>2, <4>1 DEF AnswersTidy
    <3>3. CASE current.req.api # "prompt"
      <4>1. a \in LineAnswers
        BY <2>1, <3>3
      <4> QED
        BY <3>1, <3>3, <4>1 DEF AnswersTidy
    <3> QED
      BY <3>2, <3>3
  <2>10. Within(e, G2)
    <3> SUFFICES ASSUME NEW i \in 1 .. Len(e) PROVE e[i] \in Pending'
      BY <1>4 DEF Within
    <3>1. e[i] \in Item /\ e[i].of # NoTask /\ OfCurrent(e[i])'
      BY <1>1, <2>7, <2>8, PendingTypes
    <3>2. IF current'.req.api = "prompt" THEN e[i].kind \notin FinalKinds ELSE e[i].kind # "prompt"
      BY <1>1, <2>9
    <3> QED
      BY <1>1, <2>2, <3>1, <3>2 DEF Pending
  <2>11. Sorted(e, InOrder)
    <3> SUFFICES ASSUME NEW i \in 1 .. Len(e), NEW k \in 1 .. Len(e), i < k PROVE <<e[i], e[k]>> \in InOrder
      BY DEF Sorted
    <3>1. OfCurrent(e[k]) /\ e[i] \in Item /\ e[k] \in Item
      BY <2>7, <2>8
    <3>2. i # Len(a)
      <4>1. Len(e) = Len(a) /\ Len(a) \in Nat
        BY <2>7
      <4>2. k <= Len(a) /\ k \in Int /\ i \in Int
        BY <4>1
      <4> QED
        BY <4>2
    <3>3. e[i].kind \notin FinalKinds
      <4>1. i \in DOMAIN a /\ e[i].kind = a[i]
        BY <2>7
      <4>2. CASE a \in LineAnswers
        BY <3>2, <4>1, <4>2 DEF AnswersTidy
      <4>3. CASE a \in PromptAnswers
        BY <4>1, <4>3 DEF AnswersTidy
      <4> QED
        BY <2>1, <4>2, <4>3
    <3>4. ~(e[i].kind = "prompt" /\ e[k].kind = "prompt")
      <4>1. i \in DOMAIN a /\ k \in DOMAIN a /\ e[i].kind = a[i] /\ e[k].kind = a[k]
        BY <2>7
      <4>2. CASE a \in LineAnswers
        BY <4>1, <4>2 DEF AnswersTidy
      <4>3. CASE a \in PromptAnswers
        BY <4>1, <4>3 DEF AnswersTidy
      <4> QED
        BY <2>1, <4>2, <4>3
    <3> QED
      BY <3>1, <3>3, <3>4 DEF InOrder
  <2>12. \A x \in Pending : \A i \in 1 .. Len(e) : <<x, e[i]>> \in InOrder
    BY <1>2, <2>7 DEF InOrder
  <2>13. Within(rx, Pending) /\ Within(isrBuf, Pending) /\ Within(modem, Pending)
    BY <1>6 DEF Tidy
  <2>14. Tidy(rx, isrBuf, modem \o e, G2, InOrder)
    BY <1>7, <2>6, <2>10, <2>11, <2>12, <2>13, PendingTypes, TidyExtend
  <2>15. modem' = modem \o e
    BY <2>1, <2>5
  <2> QED
    BY <1>1, <1>3, <1>4, <2>2, <2>14, <2>15 DEF AnswersOK
<1> QED
  BY <1>8, <1>9

\* The receive machine takes an item: what comes after it may follow it.
LEMMA AnswersReceive ==
  ASSUME ServiceInv, ModesOK, AnswersOK, RecvChunk \/ RecvLine \/ RecvPrompt \/ RecvBinary
  PROVE  AnswersOK'
<1>1. PICK h : h = Head(rx)
  OBVIOUS
<1>2. /\ rx # <<>> /\ rx' = Tail(rx) /\ lpc = "recv" /\ lpc' \in {"recv", "endNotify"}
      /\ UNCHANGED <<isrBuf, modem, current, delivered>>
  BY DEF RecvChunk, RecvLine, RecvPrompt, RecvBinary, EndTask, lineVars, taskVars
<1> DEFINE H == {y \in Pending : <<h, y>> \in InOrder}
<1>3. h \in Pending /\ Tidy(Tail(rx), isrBuf, modem, H, InOrder)
  BY <1>1, <1>2, PendingTypes, TidyPop DEF AnswersOK
<1>4. InOrder' = InOrder
  BY <1>2 DEF InOrder, OfCurrent
<1>5. /\ \A y \in H : y \in Pending'
      /\ lpc' = "endNotify" => ending'.of \in {NoTask, current'.id}
  <2>1. ASSUME NEW y \in H
        PROVE  /\ y \in Pending /\ (OfCurrent(y)' <=> OfCurrent(y)) /\ (EndsNothing(y)' <=> EndsNothing(y))
               /\ OfCurrent(h) => (y.of = NoTask \/ OfCurrent(y))
               /\ OfCurrent(h) /\ OfCurrent(y) =>
                    h.kind \notin FinalKinds /\ ~(h.kind = "prompt" /\ y.kind = "prompt")
    BY <1>2 DEF InOrder, OfCurrent, EndsNothing
  <2>2. ~OfCurrent(h) => EndsNothing(h)
    BY <1>3 DEF Pending
  <2>3. CASE lpc' = "recv" /\ status' = status
    BY <1>2, <2>1, <2>3 DEF Pending
  <2>4. CASE RecvLine /\ lpc' = "endNotify"
    <3>1. /\ current # NoTask /\ status' = status /\ h.kind \in FinalKinds /\ ending'.of = h.of
      <4>1. current # NoTask /\ status' = status /\ ending'.of = h.of
        BY <1>1, <1>2, <2>4 DEF RecvLine, EndTask
      <4>2. (IF partial THEN "text" ELSE h.kind) \in FinalKinds
        BY <1>1, <1>2, <2>4 DEF RecvLine
      <4> QED
        BY <4>1, <4>2 DEF FinalKinds
    <3>2. OfCurrent(h)
      BY <2>2, <3>1 DEF EndsNothing
    <3>3. ASSUME NEW y \in H PROVE y \in Pending'
      <4>1. ~OfCurrent(y) /\ ~OfCurrent(y)'
        BY <2>1, <3>1, <3>2
      <4> QED
        BY <1>2, <2>1, <3>1, <4>1 DEF Pending
    <3> QED
      BY <1>2, <3>1, <3>2, <3>3 DEF OfCurrent
  <2>5. CASE RecvPrompt /\ status' # status
    <3>1. current # NoTask /\ lpc' = "recv" /\ h.kind = "prompt"
      BY <1>1, <1>2, <2>5 DEF RecvPrompt, Mode
    <3>2. OfCurrent(h)
      BY <2>2, <3>1 DEF EndsNothing
    <3>3. ASSUME NEW y \in H PROVE y \in Pending'
      <4>1. y.of = NoTask \/ OfCurrent(y)
        BY <2>1, <3>2
      <4>2. y.kind # "prompt"
        <5>1. CASE OfCurrent(y)
          BY <2>1, <3>1, <3>2, <5>1
        <5>2. CASE ~OfCurrent(y)
          BY <2>1, <5>2 DEF Pending, EndsNothing
        <5> QED
          BY <5>1, <5>2
      <4> QED
        BY <1>2, <2>1, <3>1, <4>1, <4>2 DEF Pending
    <3> QED
      BY <3>1, <3>3
  <2>6. CASE RecvPrompt /\ lpc' = "endNotify"
    <3>1. /\ current # NoTask /\ status = "PROMPT" /\ status' = status /\ h.kind = "prompt" /\ ending'.of = h.of
      BY <1>1, <1>2, <2>6 DEF RecvPrompt, Mode, EndTask
    <3>2. OfCurrent(h) /\ current.req.api = "prompt"
      BY <2>2, <3>1 DEF EndsNothing, ModesOK
    <3>3. ASSUME NEW y \in H PROVE y \in Pending'
      <4>1. OfCurrent(y) => EndsNothing(y)
        BY <2>1, <3>1, <3>2 DEF Pending, EndsNothing
      <4> QED
        BY <1>2, <2>1, <3>1, <4>1 DEF Pending
    <3> QED
      BY <1>2, <3>1, <3>2, <3>3 DEF OfCurrent
  <2>7. CASE RecvBinary /\ lpc' = "endNotify"
    <3>1. /\ current # NoTask /\ status = "BINARY" /\ status' = status /\ ending'.of = h.of
      BY <1>1, <1>2, <2>7 DEF RecvBinary, Mode, EndTask
    <3>2. current.req.api = "prompt" /\ h.of \in {NoTask, current.id}
      BY <1>3, <3>1 DEF ModesOK, Pending, OfCurrent
    <3>3. ASSUME NEW y \in H PROVE y \in Pending'
      <4>1. OfCurrent(y) => EndsNothing(y)
        BY <2>1, <3>1, <3>2 DEF Pending, EndsNothing
      <4> QED
        BY <1>2, <2>1, <3>1, <4>1 DEF Pending
    <3> QED
      BY <1>2, <3>1, <3>2, <3>3
  <2>8. \/ lpc' = "recv" /\ status' = status
        \/ RecvLine /\ lpc' = "endNotify"
        \/ RecvPrompt /\ (status' # status \/ lpc' = "endNotify")
        \/ RecvBinary /\ lpc' = "endNotify"
    BY <1>2 DEF RecvChunk, RecvLine, RecvPrompt, RecvBinary, taskVars
  <2> QED
    BY <2>3, <2>4, <2>5, <2>6, <2>7, <2>8
<1>6. PICK G2 : G2 = Pending'
  OBVIOUS
<1>7. H \subseteq G2
  BY <1>5, <1>6
<1> HIDE DEF H
<1>8. Tidy(Tail(rx), isrBuf, modem, G2, InOrder)
  BY <1>3, <1>7, TidyGrows
<1> QED
  BY <1>2, <1>4, <1>5, <1>6, <1>8 DEF AnswersOK

\* The command ends: what is left of its answer ends no other.
LEMMA AnswersEnd ==
  ASSUME ServiceInv, AnswersOK, EndNotify \/ EndGive \/ EndFree
  PROVE  AnswersOK'
<1>1. /\ UNCHANGED <<rx, isrBuf, modem>>
      /\ lpc \in {"endNotify", "endGive", "endFree"} /\ lpc' # "endNotify"
      /\ \/ UNCHANGED <<current, status>> /\ lpc' \in {"endGive", "endFree"}
         \/ lpc = "endFree" /\ current' = NoTask /\ delivered' = delivered
  BY DEF EndNotify, EndGive, EndFree, lineVars, taskVars
<1>2. current # NoTask /\ current.id \in Tickets
  BY <1>1, ReportedJobs DEF ServiceInv, Job
<1>3. ASSUME NEW t \in Tickets, delivered[t] # "none" PROVE delivered'[t] # "none"
  <2>1. delivered' = delivered \/ delivered' = [delivered EXCEPT ![current.id] = ending.result]
    BY DEF EndNotify, EndGive, EndFree
  <2>2. delivered \in [Tickets -> Results \cup {"none"}] /\ ending.result \in Results
    BY DEF ServiceInv, FrameInv, TypeOK
  <2> QED
    BY <1>3, <2>1, <2>2 DEF Results
<1>4. ASSUME NEW x \in Pending PROVE x \in Pending'
  <2>1. /\ x \in Item /\ EndsNothing(x) /\ EndsNothing(x)'
        /\ x.of = NoTask => x.kind = "urc"
        /\ x.of # NoTask => OfCurrent(x) \/ delivered[x.of] # "none"
        /\ x.of # NoTask => x.of \in Tickets
    BY <1>1 DEF Pending, EndsNothing, Item
  <2>2. CASE UNCHANGED <<current, status>> /\ lpc' \in {"endGive", "endFree"}
    <3>1. OfCurrent(x)' <=> OfCurrent(x)
      BY <2>2 DEF OfCurrent
    <3>2. x.of # NoTask => OfCurrent(x)' \/ delivered'[x.of] # "none"
      BY <1>3, <2>1, <3>1
    <3>3. OfCurrent(x) => IF current.req.api = "prompt" THEN x.kind \notin FinalKinds ELSE x.kind # "prompt"
      BY DEF Pending
    <3>4. current # NoTask /\ status = "BINARY" => x.kind # "prompt" /\ (x.of = NoTask \/ OfCurrent(x))
      BY DEF Pending
    <3> QED
      BY <2>1, <2>2, <3>1, <3>2, <3>3, <3>4 DEF Pending
  <2>3. CASE lpc = "endFree" /\ current' = NoTask /\ delivered' = delivered
    <3>1. delivered[current.id] # "none"
      BY <1>2, <2>3 DEF ServiceInv, OutcomesKept
    <3>2. x.of # NoTask => delivered'[x.of] # "none"
      BY <2>1, <2>3, <3>1 DEF OfCurrent
    <3>3. ~OfCurrent(x)'
      BY <2>3 DEF OfCurrent
    <3> QED
      BY <2>1, <2>3, <3>2, <3>3 DEF Pending
  <2> QED
    BY <1>1, <2>2, <2>3
<1>5. ASSUME NEW p \in InOrder PROVE p \in InOrder'
  BY <1>1 DEF InOrder, OfCurrent
<1>6. PICK G2, F2 : G2 = Pending' /\ F2 = InOrder'
  OBVIOUS
<1>7. Pending \subseteq G2 /\ InOrder \subseteq F2
  BY <1>4, <1>5, <1>6
<1>8. Tidy(rx, isrBuf, modem, G2, F2)
  BY <1>7, TidyGrows DEF AnswersOK
<1> QED
  BY <1>1, <1>6, <1>8 DEF AnswersOK

LEMMA AnswersCheck == AnswersOK /\ CheckTimeout /\ NoTimeout' => AnswersOK'
<1> SUFFICES ASSUME AnswersOK, CheckTimeout, NoTimeout' PROVE Aside
  BY AnswersAside
<1>1. lpc' # "endNotify"
  BY DEF CheckTimeout, EndTask, NoTimeout
<1> QED
  BY <1>1 DEF CheckTimeout, EndTask, Aside, lineVars

LEMMA AnswersNext == AnswersTidy /\ ServiceInv /\ AnswerInv /\ [Next]_vars => AnswerInv'
<1> SUFFICES ASSUME AnswersTidy, ServiceInv, AnswerInv, [Next]_vars PROVE AnswerInv'
  OBVIOUS
<1>1. ModesOK'
  BY ModesNext DEF AnswerInv, ServiceInv, FrameInv
<1>2. ASSUME NoTimeout' PROVE AnswersOK'
  <2>1. ModesOK /\ AnswersOK
    BY <1>2, NoTimeoutBefore DEF AnswerInv
  <2> QED
    BY <1>2, <2>1, AnswerSteps, AnswersAside, AnswersIsr, AnswersStart, AnswersTransmit, AnswersReceive, AnswersEnd,
       AnswersCheck DEF AnswerStep
<1> QED
  BY <1>1, <1>2 DEF AnswerInv

LEMMA AnswersInit == Init => AnswerInv
<1> SUFFICES ASSUME Init PROVE AnswerInv
  OBVIOUS
<1>1. rx = <<>> /\ isrBuf = <<>> /\ modem = <<>> /\ current = NoTask /\ lpc = "extern"
  BY DEF Init
<1>2. \A i \in 1 .. Len(<<>>) : FALSE
  BY EmptySeq
<1>3. Tidy(rx, isrBuf, modem, Pending, InOrder)
  BY <1>1, <1>2 DEF Tidy, Within, Sorted, Ahead
<1> QED
  BY <1>1, <1>3 DEF AnswerInv, ModesOK, AnswersOK

\* As long as no command has timed out, the final line, the prompt or the data
\* that ends a command is part of the modem's answer to that very command,
\* although nothing on the line says which command an answer belongs to: the
\* order of the lines, of the ring and of the commands keeps them apart. The
\* premise is on the modem: a final line comes last and not after the data of
\* a prompt command, which recv_data_handle.c does not wait for.
THEOREM AnswersAttributed == AnswersTidy => (Spec => []AnswersMatch)
<1> SUFFICES ASSUME AnswersTidy PROVE Spec => []AnswersMatch
  OBVIOUS
<1>1. AnswerInv => AnswersMatch
  BY DEF AnswerInv, ModesOK, AnswersOK, AnswersMatch, NoTimeout
<1>2. ServiceInv /\ AnswerInv /\ [Next]_vars => AnswerInv'
  BY AnswersNext
<1> QED
  BY <1>1, <1>2, AnswersInit, ServiceInvariant, PTL DEF Spec
===============================================================================
