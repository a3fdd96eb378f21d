------------------------ MODULE EventLoop_memory_proofs ------------------------
(***************************************************************************)
(* The allocations of the send and message paths have exactly one owner,   *)
(* for every value of the constants.                                       *)
(***************************************************************************)
EXTENDS EventLoop_service_proofs

-----------------------------------------------------------------------------
(* Which blocks a call has, and who is responsible for a block.             *)

LEMMA MsgBlocks ==
  ASSUME NEW j \in Job, IsMsg(j)
  PROVE  Blocks(j) = {<<j.id, "msg">>, <<j.id, "sem">>}
<1>1. AllocOrder(j.req) = <<"msg", "sem">>
  BY DEF IsMsg, AllocOrder
<1>2. Range(AllocOrder(j.req)) = {"msg", "sem"}
  BY <1>1 DEF Range
<1> QED
  BY <1>2 DEF Blocks

LEMMA CommandKinds ==
  ASSUME NEW j \in Job, ~IsMsg(j)
  PROVE  /\ Range(AllocOrder(j.req)) \subseteq {"data", "sem", "prompt"}
         /\ "sem" \in Range(AllocOrder(j.req)) <=> j.req.sync
<1>0. j.req.sync \in BOOLEAN
  BY RequestsAssumption DEF Job, Request
<1>1. CASE j.req.api = "send" /\ j.req.sync
  <2>1. AllocOrder(j.req) = <<"data", "sem">>
    BY <1>1 DEF AllocOrder, IsMsg
  <2> QED
    BY <1>1, <2>1 DEF Range
<1>2. CASE j.req.api = "send" /\ ~j.req.sync
  <2>1. AllocOrder(j.req) = <<"data">>
    BY <1>2 DEF AllocOrder, IsMsg
  <2> QED
    BY <1>2, <2>1 DEF Range
<1>3. CASE j.req.api # "send" /\ j.req.sync
  <2>1. AllocOrder(j.req) = <<"data", "sem", "prompt">>
    BY <1>3 DEF AllocOrder, IsMsg
  <2>2. Range(AllocOrder(j.req)) = {"data", "sem", "prompt"}
    BY <2>1 DEF Range
  <2> QED
    BY <1>3, <2>2
<1>4. CASE j.req.api # "send" /\ ~j.req.sync
  <2>1. AllocOrder(j.req) = <<"data", "prompt">>
    BY <1>4 DEF AllocOrder, IsMsg
  <2> QED
    BY <1>4, <2>1 DEF Range
<1> QED
  BY <1>0, <1>1, <1>2, <1>3, <1>4

LEMMA CommandBlocks ==
  ASSUME NEW j \in Job, ~IsMsg(j)
  PROVE  /\ \A b \in Blocks(j) : b \in {<<j.id, "data">>, <<j.id, "sem">>, <<j.id, "prompt">>}
         /\ <<j.id, "sem">> \in Blocks(j) <=> j.req.sync
BY CommandKinds DEF Blocks

\* A block belongs to one call and is not the task block of send_msg_handle.
LEMMA BlockOfCall ==
  ASSUME NEW j \in Job, NEW b \in Blocks(j)
  PROVE  b[1] = j.id /\ b[2] # "task"
<1>1. CASE IsMsg(j)
  <2>1. b \in {<<j.id, "msg">>, <<j.id, "sem">>}
    BY <1>1, MsgBlocks
  <2> QED
    BY <2>1
<1>2. CASE ~IsMsg(j)
  <2>1. b \in {<<j.id, "data">>, <<j.id, "sem">>, <<j.id, "prompt">>}
    BY <1>2, CommandBlocks
  <2> QED
    BY <2>1
<1> QED
  BY <1>1, <1>2

\* Who is responsible for freeing block b: the thread that builds the call,
\* the thread that is going to wait in it, whoever holds the job, the loop thread.
OwnsBuilding(b) == \E c \in Callers : cpc[c] = "enqueue" /\ b \in Blocks(job[c])
OwnsWaiting(b) ==
  \E c \in Callers : cpc[c] \in {"giveWake", "await", "delete"} /\ job[c].req.sync /\ b = <<job[c].id, "sem">>
OwnsHanded(b) == \E j \in HandedJobs : b \in Blocks(j) /\ b # <<j.id, "sem">>
OwnsTask(b) == current # NoTask /\ b = <<current.id, "task">>

Owns(b) == OwnsBuilding(b) \/ OwnsWaiting(b) \/ OwnsHanded(b) \/ OwnsTask(b)

LEMMA OwnedIs == \A b : b \in OwnedBlocks <=> Owns(b)
BY DEF OwnedBlocks, Owns, OwnsBuilding, OwnsWaiting, OwnsHanded, OwnsTask, HandedJobs, Handed

\* A step that frees and makes the same blocks for the heap and for their
\* owners keeps each inclusion between the two.
LEMMA SameChange ==
  ASSUME NEW freed, NEW made,
         heap' = (heap \ freed) \cup made,
         \A b : Owns(b)' <=> (Owns(b) /\ b \notin freed) \/ b \in made
  PROVE  /\ OwnedBlocks \subseteq heap => OwnedBlocks' \subseteq heap'
         /\ heap \subseteq OwnedBlocks => heap' \subseteq OwnedBlocks'
<1>1. \A b : b \in OwnedBlocks <=> Owns(b)
  BY OwnedIs
<1>2. (\A b : b \in OwnedBlocks <=> Owns(b))'
  BY OwnedIs, PTL
<1> QED
  BY <1>1, <1>2

-----------------------------------------------------------------------------
(* The inductive invariant.                                                 *)

\* The loop thread holds a message only while it handles it.
MessageHeld == rmsg # NoTask => lpc \in {"externGive", "externFree"}

MemoryInv == FrameInv /\ MessageHeld /\ OwnedBlocks \subseteq heap

LEMMA MessageHeldNext == MessageHeld /\ [Next]_vars => MessageHeld'
<1> SUFFICES ASSUME MessageHeld, [Next]_vars PROVE MessageHeld'
  OBVIOUS
<1> USE DEF callVars, queueVars, taskVars, timeVars, urcVars, lineVars, MessageHeld
<1>1. CASE \E c \in Callers : CallerNext(c)
  BY <1>1 DEF CallerNext, CallStep, Call, CallFails, EnqueueTask, EnqueueMsg, EnqueueTimeout, GiveWake, Awaken, Return
<1>2. CASE \/ ExternHandle \/ ExternGive \/ ExternFree \/ SendStart \/ SendDrop \/ EndNotify \/ EndGive \/ EndFree
  BY <1>2 DEF ExternHandle, ExternGive, ExternFree, SendStart, SendDrop, EndNotify, EndGive, EndFree
<1>3. CASE QuietStep
  BY <1>3, QuietStepKeeps DEF Holding
<1> QED
  BY <1>1, <1>2, <1>3, StepKinds

-----------------------------------------------------------------------------
(* The threads.                                                             *)

\* What a step of thread c leaves to the other threads, who own nothing of c's.
LEMMA OthersOwn ==
  ASSUME TypeOK, ControlOK, NEW c \in Callers, cpc[c] # "idle", NEW d \in Callers, d # c, cpc[d] # "idle"
  PROVE  job[d] \in Job /\ job[d].id # job[c].id
BY JobIds

LEMMA MemoryCall ==
  ASSUME MemoryInv, NEW c \in Callers, NEW req \in Requests, Call(c, req)
  PROVE  /\ OwnedBlocks' \subseteq heap'
         /\ heap \subseteq OwnedBlocks => heap' \subseteq OwnedBlocks'
<1> DEFINE j == [id |-> <<c, calls[c] + 1>>, req |-> req]
<1>1. /\ cpc[c] = "idle" /\ cpc' = [cpc EXCEPT ![c] = "enqueue"] /\ job' = [job EXCEPT ![c] = j]
      /\ heap' = heap \cup Blocks(j)
      /\ UNCHANGED <<apiQueue, sendQueue, rmsg, current>>
  BY DEF Call, queueVars, taskVars
<1> HIDE DEF j
<1>2. cpc \in [Callers -> {"idle", "enqueue", "giveWake", "await", "delete"}] /\ job \in [Callers -> Job \cup {NoTask}]
  BY DEF MemoryInv, FrameInv, TypeOK
<1>3. \A d \in Callers : IF d = c THEN cpc'[d] = "enqueue" /\ job'[d] = j ELSE cpc'[d] = cpc[d] /\ job'[d] = job[d]
  BY <1>1, <1>2
<1>4. \A b : OwnsBuilding(b)' <=> OwnsBuilding(b) \/ b \in Blocks(j)
  BY <1>1, <1>3 DEF OwnsBuilding, Blocks
<1>5. \A b : /\ OwnsWaiting(b)' <=> OwnsWaiting(b)
             /\ OwnsHanded(b)' <=> OwnsHanded(b)
             /\ OwnsTask(b)' <=> OwnsTask(b)
  BY <1>1, <1>3 DEF OwnsWaiting, OwnsHanded, OwnsTask, HandedJobs, Handed, Blocks
<1>6. \A b : Owns(b)' <=> (Owns(b) /\ b \notin {}) \/ b \in Blocks(j)
  BY <1>4, <1>5 DEF Owns
<1>7. heap' = (heap \ {}) \cup Blocks(j)
  BY <1>1
<1> QED
  BY <1>6, <1>7, SameChange DEF MemoryInv

LEMMA MemoryCallFails ==
  ASSUME MemoryInv, NEW c \in Callers, NEW req \in Requests, CallFails(c, req)
  PROVE  /\ OwnedBlocks' \subseteq heap'
         /\ heap \subseteq OwnedBlocks => heap' \subseteq OwnedBlocks'
<1>1. heap' = heap /\ UNCHANGED <<cpc, job, apiQueue, sendQueue, rmsg, current>>
  BY DEF CallFails, Unwound, queueVars, taskVars
<1>2. OwnedBlocks' = OwnedBlocks
  BY <1>1 DEF OwnedBlocks, Blocks
<1> QED
  BY <1>1, <1>2 DEF MemoryInv

\* The job changes hands with its blocks; the semaphore stays with the thread.
LEMMA MemoryEnqueue ==
  ASSUME MemoryInv, NEW c \in Callers, EnqueueTask(c) \/ EnqueueMsg(c)
  PROVE  /\ OwnedBlocks' \subseteq heap'
         /\ heap \subseteq OwnedBlocks => heap' \subseteq OwnedBlocks'
<1>1. /\ cpc[c] = "enqueue" /\ cpc' = [cpc EXCEPT ![c] = "giveWake"] /\ UNCHANGED <<job, heap, rmsg, current>>
  BY DEF EnqueueTask, EnqueueMsg, taskVars
<1>2. /\ cpc \in [Callers -> {"idle", "enqueue", "giveWake", "await", "delete"}]
      /\ job[c] \in Job /\ apiQueue \in Seq(Job) /\ sendQueue \in Seq(Job)
  BY <1>1 DEF MemoryInv, FrameInv, TypeOK, ControlOK
<1>3. HandedJobs' = HandedJobs \cup {job[c]}
  <2>1. CASE EnqueueTask(c)
    <3>1. sendQueue' = Append(sendQueue, job[c]) /\ apiQueue' = apiQueue
      BY <2>1 DEF EnqueueTask
    <3>2. Range(sendQueue') = Range(sendQueue) \cup {job[c]}
      BY <1>2, <3>1, RangeAppend
    <3> QED
      BY <1>1, <3>1, <3>2 DEF HandedJobs, Handed
  <2>2. CASE EnqueueMsg(c)
    <3>1. apiQueue' = Append(apiQueue, job[c]) /\ sendQueue' = sendQueue
      BY <2>2 DEF EnqueueMsg
    <3>2. Range(apiQueue') = Range(apiQueue) \cup {job[c]}
      BY <1>2, <3>1, RangeAppend
    <3> QED
      BY <1>1, <3>1, <3>2 DEF HandedJobs, Handed
  <2> QED
    BY <2>1, <2>2
<1>4. <<job[c].id, "sem">> \in Blocks(job[c]) <=> job[c].req.sync
  <2>1. CASE IsMsg(job[c])
    <3>1. job[c].req.sync
      BY <1>2, <2>1, RequestsAssumption DEF Job, IsMsg
    <3> QED
      BY <1>2, <3>1, SemaphoreBlock
  <2>2. CASE ~IsMsg(job[c])
    BY <1>2, <2>2, CommandBlocks
  <2> QED
    BY <2>1, <2>2
<1>5. \A d \in Callers : cpc'[d] = IF d = c THEN "giveWake" ELSE cpc[d]
  BY <1>1, <1>2
<1>6. \A b : OwnsBuilding(b) <=> OwnsBuilding(b)' \/ b \in Blocks(job[c])
  BY <1>1, <1>5 DEF OwnsBuilding, Blocks
<1>7. \A b : OwnsWaiting(b)' <=> OwnsWaiting(b) \/ (job[c].req.sync /\ b = <<job[c].id, "sem">>)
  BY <1>1, <1>5 DEF OwnsWaiting
<1>8. \A b : OwnsHanded(b)' <=> OwnsHanded(b) \/ (b \in Blocks(job[c]) /\ b # <<job[c].id, "sem">>)
  BY <1>3 DEF OwnsHanded, Blocks
<1>9. \A b : OwnsTask(b)' <=> OwnsTask(b)
  BY <1>1 DEF OwnsTask
<1>10. \A b : Owns(b)' <=> (Owns(b) /\ b \notin {}) \/ b \in {}
  BY <1>4, <1>6, <1>7, <1>8, <1>9 DEF Owns
<1>11. heap' = (heap \ {}) \cup {}
  BY <1>1
<1> QED
  BY <1>10, <1>11, SameChange DEF MemoryInv

LEMMA MemoryEnqueueTimeout ==
  ASSUME MemoryInv, NEW c \in Callers, EnqueueTimeout(c)
  PROVE  /\ OwnedBlocks' \subseteq heap'
         /\ heap \subseteq OwnedBlocks => heap' \subseteq OwnedBlocks'
<1>1. /\ cpc[c] = "enqueue" /\ cpc' = [cpc EXCEPT ![c] = "idle"] /\ job' = [job EXCEPT ![c] = NoTask]
      /\ heap' = heap \ Blocks(job[c])
      /\ UNCHANGED <<apiQueue, sendQueue, rmsg, current>>
  BY DEF EnqueueTimeout, queueVars, taskVars
<1>2. /\ cpc \in [Callers -> {"idle", "enqueue", "giveWake", "await", "delete"}]
      /\ job \in [Callers -> Job \cup {NoTask}] /\ TypeOK /\ ControlOK /\ HandedOnce /\ job[c] \in Job
  BY <1>1 DEF MemoryInv, FrameInv, TypeOK, ControlOK
<1>3. \A d \in Callers : IF d = c THEN cpc'[d] = "idle" ELSE cpc'[d] = cpc[d] /\ job'[d] = job[d]
  BY <1>1, <1>2
<1>4. \A b \in Blocks(job[c]) : b[1] = job[c].id /\ b[2] # "task"
  BY <1>2, BlockOfCall
<1>5. \A d \in Callers : d # c /\ cpc[d] # "idle" => job[d] \in Job /\ job[d].id # job[c].id
  BY <1>1, <1>2, OthersOwn
<1>6. \A b : OwnsBuilding(b)' <=> OwnsBuilding(b) /\ b \notin Blocks(job[c])
  <2>1. \A d \in Callers : d # c /\ cpc[d] # "idle" => \A b \in Blocks(job[d]) : b \notin Blocks(job[c])
    BY <1>4, <1>5, BlockOfCall
  <2> QED
    BY <1>1, <1>3, <2>1 DEF OwnsBuilding, Blocks
<1>7. \A b : OwnsWaiting(b)' <=> OwnsWaiting(b) /\ b \notin Blocks(job[c])
  BY <1>1, <1>3, <1>4, <1>5 DEF OwnsWaiting
<1>8. \A b : OwnsHanded(b)' <=> OwnsHanded(b) /\ b \notin Blocks(job[c])
  <2>1. HandedJobs' = HandedJobs
    BY <1>1 DEF HandedJobs, Handed
  <2>2. \A j \in HandedJobs : j \in Job /\ j.id # job[c].id
    BY <1>1, <1>2, HandedType DEF HandedOnce, HandedJobs
  <2>3. \A j \in HandedJobs : \A b \in Blocks(j) : b \notin Blocks(job[c])
    BY <1>4, <2>2, BlockOfCall
  <2> QED
    BY <2>1, <2>3 DEF OwnsHanded, Blocks
<1>9. \A b : OwnsTask(b)' <=> OwnsTask(b) /\ b \notin Blocks(job[c])
  BY <1>1, <1>4 DEF OwnsTask
<1>10. \A b : Owns(b)' <=> (Owns(b) /\ b \notin Blocks(job[c])) \/ b \in {}
  BY <1>6, <1>7, <1>8, <1>9 DEF Owns
<1>11. heap' = (heap \ Blocks(job[c])) \cup {}
  BY <1>1
<1> QED
  BY <1>10, <1>11, SameChange DEF MemoryInv

LEMMA MemoryWait ==
  ASSUME MemoryInv, NEW c \in Callers, GiveWake(c) \/ Awaken(c)
  PROVE  /\ OwnedBlocks' \subseteq heap'
         /\ heap \subseteq OwnedBlocks => heap' \subseteq OwnedBlocks'
<1>1. /\ cpc[c] \in {"giveWake", "await"} /\ UNCHANGED <<heap, apiQueue, sendQueue, rmsg, current>>
      /\ \A d \in Callers : d # c => cpc'[d] = cpc[d] /\ job'[d] = job[d]
      /\ IF job[c].req.sync THEN cpc'[c] \in {"await", "delete"} /\ job'[c] = job[c] ELSE cpc'[c] = "idle"
  <2>1. TypeOK /\ ControlOK
    BY DEF MemoryInv, FrameInv
  <2> QED
    BY <2>1 DEF GiveWake, Awaken, TypeOK, ControlOK, queueVars, taskVars
<1>2. \A b : OwnsBuilding(b)' <=> OwnsBuilding(b)
  BY <1>1 DEF OwnsBuilding, Blocks
<1>3. \A b : OwnsWaiting(b)' <=> OwnsWaiting(b)
  BY <1>1 DEF OwnsWaiting
<1>4. \A b : (OwnsHanded(b)' <=> OwnsHanded(b)) /\ (OwnsTask(b)' <=> OwnsTask(b))
  BY <1>1 DEF OwnsHanded, OwnsTask, HandedJobs, Handed, Blocks
<1>5. \A b : Owns(b)' <=> (Owns(b) /\ b \notin {}) \/ b \in {}
  BY <1>2, <1>3, <1>4 DEF Owns
<1>6. heap' = (heap \ {}) \cup {}
  BY <1>1
<1> QED
  BY <1>5, <1>6, SameChange DEF MemoryInv

LEMMA MemoryReturn ==
  ASSUME MemoryInv, NEW c \in Callers, Return(c)
  PROVE  /\ OwnedBlocks' \subseteq heap'
         /\ heap \subseteq OwnedBlocks => heap' \subseteq OwnedBlocks'
<1> DEFINE b0 == <<job[c].id, "sem">>
<1>1. /\ cpc[c] = "delete" /\ cpc' = [cpc EXCEPT ![c] = "idle"] /\ job' = [job EXCEPT ![c] = NoTask]
      /\ heap' = heap \ {b0}
      /\ UNCHANGED <<apiQueue, sendQueue, rmsg, current>>
  BY DEF Return, queueVars, taskVars
<1>2. /\ cpc \in [Callers -> {"idle", "enqueue", "giveWake", "await", "delete"}]
      /\ job \in [Callers -> Job \cup {NoTask}] /\ TypeOK /\ ControlOK
  BY DEF MemoryInv, FrameInv, TypeOK
<1>3. \A d \in Callers : IF d = c THEN cpc'[d] = "idle" ELSE cpc'[d] = cpc[d] /\ job'[d] = job[d]
  BY <1>1, <1>2
<1>4. \A d \in Callers : d # c /\ cpc[d] # "idle" => job[d] \in Job /\ job[d].id # job[c].id
  BY <1>1, <1>2, OthersOwn
<1>5. \A b : OwnsBuilding(b)' <=> OwnsBuilding(b) /\ b # b0
  <2>1. \A d \in Callers : d # c /\ cpc[d] # "idle" => b0 \notin Blocks(job[d])
    BY <1>4, BlockOfCall
  <2> QED
    BY <1>1, <1>3, <2>1 DEF OwnsBuilding, Blocks
<1>6. \A b : OwnsWaiting(b)' <=> OwnsWaiting(b) /\ b # b0
  BY <1>1, <1>3, <1>4 DEF OwnsWaiting
<1>7. \A b : OwnsHanded(b)' <=> OwnsHanded(b) /\ b # b0
  <2>1. HandedJobs' = HandedJobs
    BY <1>1 DEF HandedJobs, Handed
  <2>2. \A j \in HandedJobs : j \in Job
    BY <1>2, HandedType
  <2>3. \A j \in HandedJobs : b0 \in Blocks(j) => b0 = <<j.id, "sem">>
    BY <2>2, BlockOfCall
  <2> QED
    BY <2>1, <2>3 DEF OwnsHanded, Blocks
<1>8. \A b : OwnsTask(b)' <=> OwnsTask(b) /\ b # b0
  BY <1>1 DEF OwnsTask
<1>9. \A b : Owns(b)' <=> (Owns(b) /\ b \notin {b0}) \/ b \in {}
  BY <1>5, <1>6, <1>7, <1>8 DEF Owns
<1>10. heap' = (heap \ {b0}) \cup {}
  BY <1>1
<1> QED
  BY <1>9, <1>10, SameChange DEF MemoryInv

-----------------------------------------------------------------------------
(* The loop thread.                                                         *)

\* A step that leaves everybody what he has.
LEMMA MemoryKept ==
  ASSUME MemoryInv, UNCHANGED <<cpc, job, heap, current>>, HandedJobs' = HandedJobs
  PROVE  /\ OwnedBlocks' \subseteq heap'
         /\ heap \subseteq OwnedBlocks => heap' \subseteq OwnedBlocks'
<1>1. \A b : Owns(b)' <=> (Owns(b) /\ b \notin {}) \/ b \in {}
  BY DEF Owns, OwnsBuilding, OwnsWaiting, OwnsHanded, OwnsTask, Blocks
<1>2. heap' = (heap \ {}) \cup {}
  OBVIOUS
<1> QED
  BY <1>1, <1>2, SameChange DEF MemoryInv

\* A message is taken out of its queue by the loop thread, which holds none.
LEMMA MemoryExternHandle ==
  ASSUME MemoryInv, ExternHandle
  PROVE  /\ OwnedBlocks' \subseteq heap'
         /\ heap \subseteq OwnedBlocks => heap' \subseteq OwnedBlocks'
<1>1. /\ apiQueue \in Seq(Job) /\ apiQueue # <<>> /\ rmsg = NoTask
      /\ apiQueue' = Tail(apiQueue) /\ rmsg' = Head(apiQueue)
      /\ UNCHANGED <<cpc, job, heap, sendQueue, current>>
  BY DEF ExternHandle, MemoryInv, MessageHeld, FrameInv, TypeOK, taskVars
<1>2. Head(apiQueue) \in Job /\ Head(apiQueue) # NoTask
  BY <1>1, NoTaskIsNone
<1>3. Range(apiQueue) = {Head(apiQueue)} \cup Range(Tail(apiQueue))
  BY <1>1, RangeHeadTail
<1>4. HandedJobs' = HandedJobs
  BY <1>1, <1>2, <1>3 DEF HandedJobs, Handed
<1> QED
  BY <1>1, <1>4, MemoryKept

LEMMA MemoryExternFree ==
  ASSUME MemoryInv, ExternFree
  PROVE  /\ OwnedBlocks' \subseteq heap'
         /\ heap \subseteq OwnedBlocks => heap' \subseteq OwnedBlocks'
<1> DEFINE b0 == <<rmsg.id, "msg">>
<1>1. /\ lpc = "externFree" /\ rmsg' = NoTask /\ heap' = heap \ {b0}
      /\ UNCHANGED <<cpc, job, apiQueue, sendQueue, current>>
  BY DEF ExternFree, callVars, queueVars, taskVars
<1>2. TypeOK /\ ControlOK /\ HandedOnce
  BY DEF MemoryInv, FrameInv
<1>3. rmsg \in Job /\ IsMsg(rmsg) /\ rmsg # NoTask /\ rmsg \in HandedJobs
  BY <1>1, <1>2, NoTaskIsNone DEF ControlOK, HandedJobs, Handed
<1>4. Blocks(rmsg) = {b0, <<rmsg.id, "sem">>}
  BY <1>3, MsgBlocks
<1>5. \A c \in Callers : cpc[c] = "enqueue" => job[c] \in Job /\ job[c].id # rmsg.id
  BY <1>2, <1>3 DEF HandedOnce, HandedJobs, ControlOK
<1>6. \A b : OwnsBuilding(b)' <=> OwnsBuilding(b) /\ b # b0
  <2>1. \A c \in Callers : cpc[c] = "enqueue" => b0 \notin Blocks(job[c])
    BY <1>5, BlockOfCall
  <2> QED
    BY <1>1, <2>1 DEF OwnsBuilding, Blocks
<1>7. \A b : OwnsWaiting(b)' <=> OwnsWaiting(b) /\ b # b0
  BY <1>1 DEF OwnsWaiting
<1>8. \A b : OwnsHanded(b)' <=> OwnsHanded(b) /\ b # b0
  <2>1. /\ \A j \in Range(apiQueue) : j \in Job /\ j.id # rmsg.id
        /\ \A j \in Handed(sendQueue, current) : j \in Job /\ ~IsMsg(j)
    BY <1>2, <1>3, HandedType DEF HandedOnce, ControlOK, HandedJobs, Handed
  <2>2. \A j \in Range(apiQueue) : b0 \notin Blocks(j)
    BY <2>1, BlockOfCall
  <2>3. \A j \in Handed(sendQueue, current) : b0 \notin Blocks(j)
    BY <2>1, CommandBlocks
  <2>4. \A j \in HandedJobs' : b0 \notin Blocks(j)
    BY <1>1, <2>2, <2>3 DEF HandedJobs, Handed
  <2>5. HandedJobs = HandedJobs' \cup {rmsg}
    BY <1>1, <1>3 DEF HandedJobs, Handed
  <2> QED
    BY <1>4, <2>4, <2>5 DEF OwnsHanded, Blocks
<1>9. \A b : OwnsTask(b)' <=> OwnsTask(b) /\ b # b0
  BY <1>1 DEF OwnsTask
<1>10. \A b : Owns(b)' <=> (Owns(b) /\ b \notin {b0}) \/ b \in {}
  BY <1>6, <1>7, <1>8, <1>9 DEF Owns
<1>11. heap' = (heap \ {b0}) \cup {}
  BY <1>1
<1> QED
  BY <1>10, <1>11, SameChange DEF MemoryInv

LEMMA MemorySendStart ==
  ASSUME MemoryInv, SendStart
  PROVE  /\ OwnedBlocks' \subseteq heap'
         /\ heap \subseteq OwnedBlocks => heap' \subseteq OwnedBlocks'
<1> DEFINE b0 == <<Head(sendQueue).id, "task">>
<1>1. /\ sendQueue \in Seq(Job) /\ sendQueue # <<>> /\ current = NoTask
      /\ sendQueue' = Tail(sendQueue) /\ current' = Head(sendQueue) /\ heap' = heap \cup {b0}
      /\ UNCHANGED <<cpc, job, apiQueue, rmsg>>
  BY DEF SendStart, Startable, MemoryInv, FrameInv, TypeOK, callVars
<1>2. Head(sendQueue) \in Job /\ Head(sendQueue) # NoTask
  BY <1>1, NoTaskIsNone
<1>3. Range(sendQueue) = {Head(sendQueue)} \cup Range(Tail(sendQueue))
  BY <1>1, RangeHeadTail
<1>4. HandedJobs' = HandedJobs
  BY <1>1, <1>2, <1>3 DEF HandedJobs, Handed
<1>5. \A b : OwnsTask(b)' <=> OwnsTask(b) \/ b = b0
  BY <1>1, <1>2 DEF OwnsTask
<1>6. \A b : /\ OwnsBuilding(b)' <=> OwnsBuilding(b)
             /\ OwnsWaiting(b)' <=> OwnsWaiting(b)
             /\ OwnsHanded(b)' <=> OwnsHanded(b)
  BY <1>1, <1>4 DEF OwnsBuilding, OwnsWaiting, OwnsHanded, Blocks
<1>7. \A b : Owns(b)' <=> (Owns(b) /\ b \notin {}) \/ b \in {b0}
  BY <1>5, <1>6 DEF Owns
<1>8. heap' = (heap \ {}) \cup {b0}
  BY <1>1
<1> QED
  BY <1>7, <1>8, SameChange DEF MemoryInv

\* A dropped task leaves its blocks behind: nobody owns them any more.
LEMMA MemorySendDrop ==
  ASSUME MemoryInv, SendDrop
  PROVE  OwnedBlocks' \subseteq heap'
<1>1. /\ sendQueue \in Seq(Job) /\ sendQueue # <<>> /\ sendQueue' = Tail(sendQueue)
      /\ UNCHANGED <<cpc, job, heap, apiQueue, rmsg, current>>
  BY DEF SendDrop, Startable, MemoryInv, FrameInv, TypeOK, callVars, taskVars
<1>2. HandedJobs' \subseteq HandedJobs
  BY <1>1, RangeTail DEF HandedJobs, Handed
<1>3. \A b : Owns(b)' => Owns(b)
  BY <1>1, <1>2 DEF Owns, OwnsBuilding, OwnsWaiting, OwnsHanded, OwnsTask, Blocks
<1>4. \A b : b \in OwnedBlocks <=> Owns(b)
  BY OwnedIs
<1>5. (\A b : b \in OwnedBlocks <=> Owns(b))'
  BY OwnedIs, PTL
<1> QED
  BY <1>1, <1>3, <1>4, <1>5 DEF MemoryInv

LEMMA MemoryEndFree ==
  ASSUME MemoryInv, EndFree
  PROVE  /\ OwnedBlocks' \subseteq heap'
         /\ heap \subseteq OwnedBlocks => heap' \subseteq OwnedBlocks'
<1> DEFINE freed == {current.id} \X {"data", "prompt", "task"}
<1>1. /\ lpc = "endFree" /\ current' = NoTask /\ heap' = heap \ freed
      /\ UNCHANGED <<cpc, job, apiQueue, sendQueue, rmsg>>
  BY DEF EndFree, callVars, queueVars
<1>2. TypeOK /\ ControlOK /\ HandedOnce
  BY DEF MemoryInv, FrameInv
<1>3. current # NoTask /\ current \in Job /\ ~IsMsg(current) /\ current \in HandedJobs
  BY <1>1, <1>2 DEF TypeOK, ControlOK, HandedJobs, Handed
<1>4. \A b : b \in freed <=> b \in {<<current.id, "data">>, <<current.id, "prompt">>, <<current.id, "task">>}
  OBVIOUS
<1> HIDE DEF freed
<1>5. \A c \in Callers : cpc[c] = "enqueue" => job[c] \in Job /\ job[c].id # current.id
  BY <1>2, <1>3 DEF HandedOnce, HandedJobs, ControlOK
<1>6. \A b : OwnsBuilding(b)' <=> OwnsBuilding(b) /\ b \notin freed
  <2>1. \A c \in Callers : cpc[c] = "enqueue" => \A b \in Blocks(job[c]) : b \notin freed
    BY <1>4, <1>5, BlockOfCall
  <2> QED
    BY <1>1, <2>1 DEF OwnsBuilding, Blocks
<1>7. \A b : OwnsWaiting(b)' <=> OwnsWaiting(b) /\ b \notin freed
  BY <1>1, <1>4 DEF OwnsWaiting
<1>8. \A b : OwnsHanded(b)' <=> OwnsHanded(b) /\ b \notin freed
  <2>1. /\ \A j \in Handed(apiQueue, rmsg) : j \in Job /\ IsMsg(j)
        /\ \A j \in Range(sendQueue) : j \in Job /\ j.id # current.id
    <3>1. rmsg # NoTask => rmsg \in Job /\ IsMsg(rmsg)
      BY <1>1, <1>2 DEF MemoryInv, MessageHeld
    <3>2. \A j \in HandedJobs : j \in Job
      BY <1>2, HandedType
    <3> QED
      BY <1>2, <1>3, <3>1, <3>2 DEF HandedOnce, ControlOK, HandedJobs, Handed
  <2>2. \A j \in Handed(apiQueue, rmsg) : \A b \in Blocks(j) : b \notin freed
    BY <1>4, <2>1, MsgBlocks
  <2>3. \A j \in Range(sendQueue) : \A b \in Blocks(j) : b \notin freed
    BY <1>4, <2>1, BlockOfCall
  <2>4. \A j \in HandedJobs' : \A b \in Blocks(j) : b \notin freed
    BY <1>1, <2>2, <2>3 DEF HandedJobs, Handed
  <2>5. HandedJobs = HandedJobs' \cup {current}
    BY <1>1, <1>3 DEF HandedJobs, Handed
  <2>6. \A b \in Blocks(current) : b # <<current.id, "sem">> => b \in freed
    BY <1>3, <1>4, CommandBlocks
  <2> QED
    BY <2>4, <2>5, <2>6 DEF OwnsHanded, Blocks
<1>9. \A b : OwnsTask(b)' <=> OwnsTask(b) /\ b \notin freed
  BY <1>1, <1>4 DEF OwnsTask
<1>10. \A b : Owns(b)' <=> (Owns(b) /\ b \notin freed) \/ b \in {}
  BY <1>6, <1>7, <1>8, <1>9 DEF Owns
<1>11. heap' = (heap \ freed) \cup {}
  BY <1>1
<1> QED
  BY <1>10, <1>11, SameChange DEF MemoryInv

-----------------------------------------------------------------------------
(* The theorems.                                                            *)

LEMMA MemoryStep ==
  ASSUME MemoryInv, [Next]_vars
  PROVE  /\ OwnedBlocks' \subseteq heap'
         /\ ~SendDrop /\ heap \subseteq OwnedBlocks => heap' \subseteq OwnedBlocks'
<1>1. CASE \E c \in Callers : CallerNext(c)
  BY <1>1, MemoryCall, MemoryCallFails, MemoryEnqueue, MemoryEnqueueTimeout, MemoryWait, MemoryReturn
     DEF CallerNext, CallStep
<1>2. CASE QuietStep \/ ExternGive \/ EndNotify \/ EndGive
  <2>1. UNCHANGED <<cpc, job, heap, apiQueue, sendQueue, rmsg, current>>
    BY <1>2, QuietStepKeeps DEF ExternGive, EndNotify, EndGive, callVars, queueVars, taskVars
  <2>2. HandedJobs' = HandedJobs
    BY <2>1 DEF HandedJobs, Handed
  <2> QED
    BY <2>1, <2>2, MemoryKept
<1>3. CASE ExternHandle \/ ExternFree
  BY <1>3, MemoryExternHandle, MemoryExternFree
<1>4. CASE SendStart \/ SendDrop \/ EndFree
  BY <1>4, MemorySendStart, MemorySendDrop, MemoryEndFree
<1> QED
  BY <1>1, <1>2, <1>3, <1>4, StepKinds

LEMMA MemoryInit == Init => MessageHeld /\ OwnedBlocks = heap
BY NoTaskIsNone DEF Init, MessageHeld, OwnedBlocks, Range

LEMMA MemoryInvariant == Spec => []MemoryInv
<1>1. Spec => []FrameInv
  BY FrameInvariant
<1>2. Init => MessageHeld /\ OwnedBlocks \subseteq heap
  BY MemoryInit
<1>3. FrameInv /\ MessageHeld /\ OwnedBlocks \subseteq heap /\ [Next]_vars => MessageHeld' /\ (OwnedBlocks \subseteq heap)'
  BY MessageHeldNext, MemoryStep DEF MemoryInv
<1>4. FrameInv /\ MessageHeld /\ OwnedBlocks \subseteq heap => MemoryInv
  BY DEF MemoryInv
<1> QED
  BY <1>1, <1>2, <1>3, <1>4, PTL DEF Spec

\* Whatever fails and in whatever order the threads run, nothing is freed
\* while somebody is responsible for it, so nothing is used after it was freed
\* or freed twice: the blocks of a call that is being built, the semaphore of
\* a call its thread is in, the blocks of a queued or running job and the task
\* of send_msg_handle.
THEOREM NothingFreedEarly == Spec => [](OwnedBlocks \subseteq heap)
<1>1. MemoryInv => OwnedBlocks \subseteq heap
  BY DEF MemoryInv
<1> QED
  BY <1>1, MemoryInvariant, PTL

\* The live allocations of the send and message paths are exactly those with
\* an owner: nothing leaks either, in whichever way a call ends (result,
\* timeout, full queue, failed allocation in the caller). The premise is the
\* one exception of the code: when send_msg_handle gets no memory for
\* current_send_task it drops the task it has received and all its blocks.
THEOREM NothingLeaks == "task alloc" \notin MayFail => (Spec => []HeapOwned)
<1> SUFFICES ASSUME "task alloc" \notin MayFail PROVE Spec => []HeapOwned
  OBVIOUS
<1>1. ~SendDrop
  BY DEF SendDrop
<1>2. Init => HeapOwned
  BY MemoryInit DEF HeapOwned
<1>3. MemoryInv /\ HeapOwned /\ [Next]_vars => HeapOwned'
  BY <1>1, MemoryStep DEF HeapOwned
<1> QED
  BY <1>2, <1>3, MemoryInvariant, PTL DEF Spec
===============================================================================
