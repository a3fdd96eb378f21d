-------------------------- MODULE AtcContext_proofs --------------------------
(***************************************************************************)
(* Theorems about AtcContext: initialisation under the interrupt and the   *)
(* identifiers of the URC handlers, for every number of attempts, of       *)
(* identifiers and of handlers.                                            *)
(***************************************************************************)
EXTENDS AtcContext, FiniteSetTheorems, TLAPS

(* The inductive invariant behind InitOwnership.                           *)

\* The stages of atc_init in order, 0 outside it.
Stage == [start |-> 0, failed |-> 0, buffer |-> 1, capacity |-> 2, read_index |-> 3, write_index |-> 4,
          byte_stack |-> 5, items |-> 6, external_api_queue |-> 7, send_queue |-> 8, urc_handler_list |-> 9,
          wake_semaphore |-> 10, extern |-> 0, send |-> 0, recv |-> 0, take |-> 0, trap |-> 0]

\* The stage that sets a field: the stack's is set once it has its items.
SetAt(p) == IF p = "byte_stack" THEN Stage["items"] ELSE Stage[p]

\* What the stages before this one set is there; what those to come will
\* set, the list apart, is NULL or from an earlier call.
InOrder ==
  /\ \A p \in Pointers : field[p] <= attempt
  /\ \A p \in Pointers : SetAt(p) < Stage[lpc] => field[p] # 0
  /\ \A p \in Pointers \ {"urc_handler_list"} : Stage[lpc] \in 1 .. SetAt(p) => field[p] < attempt
  /\ Stage[lpc] > 0 => attempt > 0 /\ result = "none"
  /\ lpc = "items" => <<"byte_stack", attempt>> \in heap

\* A byte that arrives after the ring was emptied is announced.
EarlyByteWoken == lpc = "take" /\ ~Missing /\ rx > 0 => wake \/ isr = "give"

\* The registry's part of the invariant, and the context's.
Registry ==
  /\ urc_handler_list \in Seq(UrcId) /\ urc_next_id \in 0 .. IntMax
  /\ pc \in {"idle", "search", "insert"} /\ candidate \in UrcId /\ from \in UrcId
  /\ recent \in Seq(UrcId) /\ stale \subseteq Latest
  /\ UniqueIds /\ SearchPast

Fields ==
  /\ lpc \in DOMAIN Stage
  /\ attempt \in 0 .. MaxAttempts /\ result \in {"none", "ATC_SUCCESS", "ATC_ERROR"}
  /\ field \in [Pointers -> 0 .. MaxAttempts]
  /\ heap \subseteq Allocated \X (1 .. MaxAttempts)
  /\ InOrder /\ InitOwnership

Waking ==
  /\ read_index \in 0 .. RxCap /\ write_index \in 0 .. RxCap
  /\ wake \in BOOLEAN /\ isr \in {"idle", "give"}
  /\ EarlyByteWoken

Inv == Registry /\ Fields /\ Waking

USE IntMaxAssumption, RegistryAssumption, ContextAssumption

-----------------------------------------------------------------------------
(* Identifiers.                                                             *)

\* The successor of an identifier is one.
LEMMA NextIdType == ASSUME NEW id \in UrcId PROVE NextId(id) \in UrcId
BY DEF NextId, UrcId

\* Going on from an identifier passes that one and no other.
LEMMA StepsNext ==
  ASSUME NEW a \in UrcId, NEW b \in UrcId, NEW id \in UrcId, Steps(a, id) < Steps(a, NextId(b))
  PROVE  Steps(a, id) < Steps(a, b) \/ id = b
BY DEF NextId, Steps, UrcId

\* Beginning a registration keeps the registry's part of the invariant.
LEMMA BeginStep ==
  ASSUME Registry, RegisterBegin
  PROVE  Registry'
<1>1. First \in UrcId
  BY DEF First, Registry, UrcId
<1>2. \A id \in UrcId : ~(Steps(First, id) < Steps(First, First))
  BY <1>1 DEF Steps, UrcId
<1> QED
  BY <1>1, <1>2 DEF RegisterBegin, Registry, UniqueIds, SearchPast, Latest

\* A round of the search passes an identifier in use or stops at a free one.
LEMMA SearchStep ==
  ASSUME Registry, RegisterSearch
  PROVE  Registry'
<1>1. candidate \in UrcId /\ NextId(candidate) \in UrcId /\ NextId(candidate) \in 0 .. IntMax
  BY NextIdType DEF Registry, UrcId
<1>2. Used' = Used /\ from' = from /\ UNCHANGED urc_handler_list
  BY DEF RegisterSearch, Used
<1>3. SearchPast'
  <2>1. CASE candidate \in Used
    <3>1. candidate' = NextId(candidate) /\ pc' = "search"
      BY <2>1 DEF RegisterSearch
    <3>2. ASSUME NEW id \in UrcId, Steps(from, id) < Steps(from, NextId(candidate)) PROVE id \in Used
      BY <1>1, <2>1, <3>2, StepsNext DEF Registry, SearchPast, RegisterSearch
    <3> QED
      BY <1>2, <3>1, <3>2 DEF SearchPast, Registry
  <2>2. CASE candidate \notin Used
    BY <1>2, <2>2 DEF RegisterSearch, SearchPast, Registry
  <2> QED
    BY <2>1, <2>2
<1> QED
  BY <1>1, <1>2, <1>3 DEF RegisterSearch, Registry, UniqueIds, Latest

\* The new identifier differs from those in the list.
LEMMA InsertStep ==
  ASSUME Registry, RegisterInsert
  PROVE  Registry'
<1>1. candidate \in UrcId /\ candidate \notin Used
  BY DEF Registry, SearchPast, RegisterInsert
<1>2. recent' \in Seq(UrcId)
  <2> DEFINE n == IF Len(recent) < Apart THEN Len(recent) + 1 ELSE Apart
  <2>1. Apart \in Nat /\ n \in Nat /\ \A k \in 1 .. n : k = 1 \/ recent[k - 1] \in UrcId
    BY DEF Apart, Registry
  <2>2. recent' = [k \in 1 .. n |-> IF k = 1 THEN candidate ELSE recent[k - 1]]
    BY DEF RegisterInsert, UseUp
  <2> HIDE DEF n
  <2> QED
    BY <1>1, <2>1, <2>2
<1>3. UniqueIds' /\ urc_handler_list' \in Seq(UrcId)
  <2>1. CASE urc_handler_list' = Append(urc_handler_list, candidate)
    <3>1. \A i \in DOMAIN urc_handler_list : urc_handler_list[i] # candidate
      BY <1>1 DEF Used
    <3> QED
      BY <1>1, <2>1, <3>1 DEF UniqueIds, Registry
  <2>2. CASE UNCHANGED urc_handler_list
    BY <2>2 DEF UniqueIds, Registry
  <2> QED
    BY <2>1, <2>2 DEF RegisterInsert
<1>4. stale' \subseteq Latest'
  BY DEF RegisterInsert, UseUp
<1> QED
  BY <1>1, <1>2, <1>3, <1>4 DEF RegisterInsert, Registry, SearchPast

\* What is left of the list is as distinct as before.
LEMMA UnregisterStep ==
  ASSUME Registry, NEW id \in UrcId, Unregister(id)
  PROVE  Registry'
<1>1. urc_handler_list' \in Seq(UrcId) /\ UniqueIds'
  <2>1. CASE UNCHANGED urc_handler_list
    BY <2>1 DEF UniqueIds, Registry
  <2>2. ASSUME NEW i \in DOMAIN urc_handler_list,
               urc_handler_list' = [k \in 1 .. Len(urc_handler_list) - 1 |->
                                      urc_handler_list[IF k < i THEN k ELSE k + 1]]
        PROVE  urc_handler_list' \in Seq(UrcId) /\ UniqueIds'
    <3>1. urc_handler_list \in Seq(UrcId) /\ Len(urc_handler_list) - 1 \in Nat /\ i \in 1 .. Len(urc_handler_list)
      BY <2>2 DEF Registry
    <3>2. \A k \in 1 .. Len(urc_handler_list) - 1 :
            urc_handler_list[IF k < i THEN k ELSE k + 1] \in UrcId
      BY <3>1
    <3>3. urc_handler_list' \in Seq(UrcId) /\ DOMAIN urc_handler_list' = 1 .. Len(urc_handler_list) - 1
      BY <2>2, <3>1, <3>2
    <3>4. UniqueIds'
      BY <2>2, <3>1, <3>3 DEF UniqueIds, Registry
    <3> QED
      BY <3>3, <3>4
  <2> QED
    BY <2>1, <2>2 DEF Unregister
<1>2. stale' \subseteq Latest'
  BY DEF Unregister, Registry, Latest
<1> QED
  BY <1>1, <1>2 DEF Unregister, Registry, SearchPast

\* A message of the registry executed by the loop, and every other step.
LEMMA RegistryStep ==
  ASSUME Registry, [Next]_vars
  PROVE  Registry'
<1>1. CASE RegisterBegin
  BY <1>1, BeginStep
<1>2. CASE RegisterSearch
  BY <1>2, SearchStep
<1>3. CASE RegisterInsert
  BY <1>3, InsertStep
<1>4. CASE \E id \in UrcId : Unregister(id)
  BY <1>4, UnregisterStep
<1>5. CASE UNCHANGED regVars
  BY <1>5 DEF regVars, Registry, UniqueIds, SearchPast, Used, Latest
<1>6. CASE \E what \in Allocated : Create(what)
  <2>1. urc_next_id' \in 0 .. IntMax /\ UNCHANGED <<urc_handler_list, pc, candidate, from, recent, stale>>
    BY <1>6 DEF Create, Registry
  <2> QED
    BY <2>1 DEF Registry, UniqueIds, SearchPast, Used, Latest
<1> QED
  BY <1>1, <1>2, <1>3, <1>4, <1>5, <1>6
  DEF Next, Thread, Loop, InitNext, InitStart, IgnoreFailure, InitBuffer, InitCapacity, InitReadIndex, InitWriteIndex,
      KeepUrcList, CreateFails, Serve, RegisterStep, ExternDone, SendDone, RecvByte, RecvDone, Take, Trap, IsrWrite,
      IsrGive, vars

-----------------------------------------------------------------------------
(* The bytes that arrive before the first wait.                             *)

\* An index stays in the ring.
LEMMA NextCellType == ASSUME NEW i \in 0 .. RxCap PROVE NextCell(i) \in 0 .. RxCap
BY DEF NextCell

\* The types of what the interrupt shares with the thread.
LEMMA WakingTypes ==
  ASSUME Waking, [Next]_vars
  PROVE  /\ read_index' \in 0 .. RxCap /\ write_index' \in 0 .. RxCap
         /\ wake' \in BOOLEAN /\ isr' \in {"idle", "give"}
<1>1. CASE IsrWrite
  BY <1>1, NextCellType DEF IsrWrite, Waking, init
<1>2. CASE IsrGive
  <2>1. wake' \in BOOLEAN
    BY <1>2 DEF IsrGive, Waking
  <2>2. isr' = "idle" /\ UNCHANGED <<read_index, write_index>>
    BY <1>2 DEF IsrGive, ring
  <2> QED
    BY <2>1, <2>2 DEF Waking
<1>3. CASE RecvByte
  BY <1>3, NextCellType DEF RecvByte, Waking
<1>4. CASE InitReadIndex \/ InitWriteIndex
  BY <1>4 DEF InitReadIndex, InitWriteIndex, Waking
<1>5. CASE Take
  BY <1>5 DEF Take, Waking, ring
<1>6. CASE UNCHANGED <<ring, wake, isr>>
  BY <1>6 DEF Waking, ring
<1> QED
  BY <1>1, <1>2, <1>3, <1>4, <1>5, <1>6
  DEF Next, Thread, Loop, InitNext, InitStart, IgnoreFailure, InitBuffer, InitCapacity, KeepUrcList, Create, CreateFails,
      Serve, ExternDone, SendDone, RecvDone, Trap, vars, ctxVars

\* The thread goes to wait only with an empty ring, and a byte that comes
\* later is announced, if there is a semaphore to give.
LEMMA WakingStep ==
  ASSUME Waking, [Next]_vars
  PROVE  Waking'
<1>1. CASE IsrWrite
  <2>1. CASE isr' = "give"
    BY <2>1, WakingTypes DEF Waking, EarlyByteWoken
  <2>2. CASE UNCHANGED <<write_index, isr>>
    <3>1. UNCHANGED <<read_index, write_index, isr, wake, field>> /\ lpc' \in {"trap", lpc}
      BY <1>1, <2>2 DEF IsrWrite, init
    <3>2. rx' = rx /\ (lpc' = "take" => lpc = "take" /\ Missing' = Missing)
      BY <3>1 DEF rx, Missing
    <3>3. EarlyByteWoken'
      BY <3>1, <3>2 DEF Waking, EarlyByteWoken
    <3> QED
      BY <3>3, WakingTypes DEF Waking
  <2> QED
    BY <1>1, <2>1, <2>2 DEF IsrWrite
<1>2. CASE IsrGive
  <2>1. UNCHANGED field /\ (lpc' = "take" => wake' = (wake \/ field["wake_semaphore"] # 0))
    BY <1>2 DEF IsrGive, init
  <2>2. lpc' = "take" /\ ~Missing' => field["wake_semaphore"] # 0
    BY <2>1 DEF Missing, Needs
  <2>3. EarlyByteWoken'
    BY <2>1, <2>2 DEF EarlyByteWoken
  <2> QED
    BY <2>3, WakingTypes DEF Waking
<1>3. CASE lpc' # "take"
  BY <1>3, WakingTypes DEF Waking, EarlyByteWoken
<1>4. CASE RecvDone
  BY <1>4, WakingTypes DEF RecvDone, Waking, EarlyByteWoken, rx, ring
<1>5. CASE Serve \/ UNCHANGED vars
  <2>1. UNCHANGED <<lpc, field, read_index, write_index, wake, isr>>
    BY <1>5 DEF Serve, vars, ctxVars, init, ring
  <2> QED
    BY <2>1, WakingTypes DEF Waking, EarlyByteWoken, rx, Missing
<1>6. ASSUME InitNext PROVE lpc' # "take"
  <2>1. \A what \in Allocated : After[what] # "take"
    BY DEF After, Allocated
  <2> QED
    BY <1>6, <2>1
    DEF InitNext, InitBuffer, InitCapacity, InitReadIndex, InitWriteIndex, KeepUrcList, Create, CreateFails, After
<1>7. ASSUME InitStart \/ IgnoreFailure \/ ExternDone \/ SendDone \/ RecvByte \/ Take \/ Trap PROVE lpc' # "take"
  BY <1>7 DEF InitStart, IgnoreFailure, ExternDone, SendDone, RecvByte, Take, Trap
<1> QED
  BY <1>1, <1>2, <1>3, <1>4, <1>5, <1>6, <1>7 DEF Next, Thread, Loop

-----------------------------------------------------------------------------
(* Initialisation and its failures.                                         *)

\* Allocating the next object: it is reachable, or the stack's structure is
\* still being built, and an older one in its field has leaked.
LEMMA CreateStep ==
  ASSUME Fields, NEW what \in Allocated, Create(what)
  PROVE  Fields'
<1>1. /\ attempt > 0 /\ attempt' = attempt /\ attempt \in 1 .. MaxAttempts
      /\ lpc = what /\ lpc' = After[what] /\ result = "none" /\ result' \in {"none", "ATC_SUCCESS"}
  BY DEF Fields, InOrder, Create, Stage, Allocated
<1>2. \A p \in Allocated : field[p] # 0 => <<p, field[p]>> \in heap
  BY DEF Fields, InitOwnership
<1>3. field' \in [Pointers -> 0 .. MaxAttempts] /\ heap' \subseteq Allocated \X (1 .. MaxAttempts)
  BY <1>1 DEF Fields, Create, Pointers, Allocated
<1>4. InOrder'
  BY <1>1 DEF Fields, InOrder, Create, Stage, SetAt, After, Pointers, Allocated
<1>5. InitOwnership'
  <2>1. \A p \in Allocated : field'[p] # 0 => <<p, field'[p]>> \in heap'
    <3>1. CASE what = "byte_stack"
      BY <1>2, <3>1 DEF Create
    <3>2. CASE what = "items"
      <4>1. /\ field' = [field EXCEPT !["byte_stack"] = attempt, !["items"] = attempt]
            /\ heap' = heap \cup {<<"items", attempt>>}
        BY <3>2 DEF Create
      <4>2. <<"byte_stack", attempt>> \in heap
        BY <1>1, <3>2 DEF Fields, InOrder, Stage
      <4> QED
        BY <1>2, <4>1, <4>2 DEF Fields, Pointers
    <3>3. CASE what \notin {"byte_stack", "items"}
      BY <1>2, <3>3 DEF Fields, Create, Pointers
    <3> QED
      BY <3>1, <3>2, <3>3
  <2>2. ASSUME NEW b \in heap'
        PROVE  \/ b[2] \in {field'[b[1]]} \cup 1 .. attempt - 1
               \/ lpc' \in {"items", "trap"} /\ b = <<"byte_stack", attempt>>
    BY <1>1, <2>2 DEF Fields, InOrder, Create, InitOwnership, Stage, SetAt, After, Pointers, Allocated
  <2>3. result' = "ATC_SUCCESS" => \A p \in Pointers : field'[p] # 0
    BY <1>1 DEF Fields, InOrder, Create, Stage, SetAt, Pointers, Allocated
  <2> QED
    BY <1>1, <2>1, <2>2, <2>3 DEF InitOwnership
<1> QED
  BY <1>1, <1>3, <1>4, <1>5 DEF Fields, After, Stage, Allocated

\* A failed allocation: nothing points to what is gone.
LEMMA CreateFailsStep ==
  ASSUME Fields, NEW what \in Allocated, CreateFails(what)
  PROVE  Fields'
<1>1. /\ attempt > 0 /\ attempt' = attempt /\ attempt \in 1 .. MaxAttempts /\ lpc = what /\ lpc' = "failed"
      /\ result' = "ATC_ERROR"
  BY DEF Fields, InOrder, CreateFails, Stage, Allocated
<1>2. field' \in [Pointers -> 0 .. MaxAttempts] /\ heap' \subseteq Allocated \X (1 .. MaxAttempts)
  BY <1>1 DEF Fields, CreateFails, Pointers, Allocated
<1>3. InOrder'
  BY <1>1 DEF Fields, InOrder, CreateFails, Stage, SetAt, Pointers, Allocated
<1>4. InitOwnership'
  <2>1. \A p \in Allocated : field'[p] # 0 => <<p, field'[p]>> \in heap'
    <3>1. \A p \in Allocated : field'[p] # 0 => field'[p] = field[p]
      BY DEF Fields, CreateFails, Pointers
    <3>2. \A p \in Allocated : field'[p] # 0 => <<p, field[p]>> \in heap
      BY <3>1 DEF Fields, InitOwnership
    <3>3. \A p \in Allocated : field'[p] # 0 => <<p, field[p]>> \notin Undone(what)
      BY <1>1 DEF Fields, CreateFails, Undone, Pointers
    <3> SUFFICES ASSUME NEW p \in Allocated, field'[p] # 0 PROVE <<p, field'[p]>> \in heap'
      OBVIOUS
    <3>4. heap' = heap \ Undone(what)
      BY DEF CreateFails
    <3> QED
      BY <3>1, <3>2, <3>3, <3>4
  <2>2. ASSUME NEW b \in heap' PROVE b[2] \in {field'[b[1]]} \cup 1 .. attempt - 1
    BY <1>1, <2>2 DEF Fields, InOrder, CreateFails, Undone, InitOwnership, Stage, SetAt, Pointers, Allocated
  <2>3. \E p \in Allocated : field'[p] = 0
    BY <1>1 DEF Fields, CreateFails, Pointers, Allocated
  <2> QED
    BY <1>1, <2>1, <2>2, <2>3 DEF InitOwnership
<1> QED
  BY <1>1, <1>2, <1>3, <1>4 DEF Fields, Stage

\* The other steps of atc_init, and those of the loop and of the interrupt.
LEMMA FieldsStep ==
  ASSUME Fields, [Next]_vars
  PROVE  Fields'
<1>1. CASE InitStart
  <2>1. lpc \in {"start", "failed"} /\ lpc' = "buffer" /\ attempt' = attempt + 1 /\ result' = "none"
        /\ attempt' \in 1 .. MaxAttempts /\ UNCHANGED <<field, heap>>
    BY <1>1 DEF InitStart, Fields
  <2> QED
    BY <2>1 DEF Fields, InOrder, InitOwnership, Stage, SetAt, Pointers, Allocated
<1>2. CASE InitBuffer
  BY <1>2 DEF InitBuffer, Fields, InOrder, InitOwnership, Stage, SetAt, Pointers, Allocated
<1>3. CASE InitCapacity
  BY <1>3 DEF InitCapacity, Fields, InOrder, InitOwnership, Stage, SetAt, Pointers, Allocated
<1>4. CASE InitReadIndex \/ InitWriteIndex \/ KeepUrcList
  BY <1>4
  DEF InitReadIndex, InitWriteIndex, KeepUrcList, After, init, Fields, InOrder, InitOwnership, Stage, SetAt, Pointers,
      Allocated
<1>5. CASE \E what \in Allocated : Create(what) \/ CreateFails(what)
  BY <1>5, CreateStep, CreateFailsStep
<1>6. CASE UNCHANGED init /\ lpc # "trap" /\ lpc' \in {"trap"} \cup DOMAIN Needs /\ (lpc = "items" => lpc' = "trap")
  <2>1. Stage[lpc'] = 0 /\ lpc' \in DOMAIN Stage /\ lpc' # "items" /\ UNCHANGED <<attempt, result, field, heap>>
    BY <1>6 DEF Stage, Needs, init
  <2>2. InOrder'
    <3>1. \A p \in Pointers : SetAt(p) \in Nat /\ field[p] \in Nat
      BY DEF SetAt, Stage, Pointers, Allocated, Fields
    <3>2. \A p \in Pointers : ~(SetAt(p) < Stage[lpc']) /\ Stage[lpc'] \notin 1 .. SetAt(p)
      BY <2>1, <3>1
    <3>3. \A p \in Pointers : field'[p] <= attempt'
      BY <2>1 DEF Fields, InOrder
    <3> QED
      BY <2>1, <3>2, <3>3 DEF InOrder
  <2>3. InitOwnership'
    <3>1. lpc \in {"items", "trap"} => lpc' \in {"items", "trap"}
      BY <1>6
    <3> QED
      BY <2>1, <3>1 DEF Fields, InitOwnership
  <2> QED
    BY <2>1, <2>2, <2>3 DEF Fields
<1>7. CASE UNCHANGED <<lpc, init>>
  BY <1>7 DEF init, Fields, InOrder, InitOwnership
<1>8. CASE lpc # "trap" /\ (IgnoreFailure \/ Loop)
  BY <1>6, <1>7, <1>8
  DEF IgnoreFailure, Loop, Serve, ExternDone, SendDone, RecvByte, RecvDone, Take, Trap, ctxVars, Needs
<1>9. CASE lpc # "trap" /\ (IsrWrite \/ IsrGive)
  BY <1>6, <1>7, <1>9 DEF IsrWrite, IsrGive
<1>10. CASE UNCHANGED vars
  BY <1>7, <1>10 DEF vars, ctxVars
<1> QED
  BY <1>1, <1>2, <1>3, <1>4, <1>5, <1>8, <1>9, <1>10 DEF Next, Thread, InitNext

-----------------------------------------------------------------------------
(* The theorems.                                                            *)

\* Zeroed memory satisfies the invariant.
LEMMA InitInv == Init => Inv
<1> SUFFICES ASSUME Init PROVE Inv
  OBVIOUS
<1>1. Registry
  BY DEF Init, Registry, UniqueIds, SearchPast, UrcId, Latest
<1>2. Fields
  BY DEF Init, Fields, InOrder, InitOwnership, Stage, SetAt, Pointers, Allocated
<1>3. Waking
  <2>1. wake \in BOOLEAN
    BY DEF Init
  <2>2. read_index = 0 /\ write_index = 0 /\ isr = "idle" /\ lpc = "start"
    BY DEF Init
  <2> QED
    BY <2>1, <2>2 DEF Waking, EarlyByteWoken
<1> QED
  BY <1>1, <1>2, <1>3 DEF Inv

\* The invariant is inductive.
LEMMA Invariance == Spec => []Inv
<1>1. Inv /\ [Next]_vars => Inv'
  BY RegistryStep, FieldsStep, WakingStep DEF Inv
<1> QED
  BY InitInv, <1>1, PTL DEF Spec

\* The variables of the context and of the registry keep their types: the
\* identifiers stay positive and the receive ring within its size.
THEOREM ContextTypeOK == Spec => []TypeOK
<1>1. Inv => TypeOK
  BY DEF Inv, Registry, Fields, Waking, TypeOK, Stage, Allocated, Needs
<1> QED
  BY Invariance, <1>1, PTL

\* However often the counter wraps, no two registered handlers have the same
\* identifier, so that atc_urc_unregister removes the right one.
THEOREM UrcIdsUnique == Spec => []UniqueIds
<1>1. Inv => UniqueIds
  BY DEF Inv, Registry
<1> QED
  BY Invariance, <1>1, PTL

\* The search in _atc_urc_register ends at the first free identifier, the one
\* that EventLoop gives a handler in a single step.
THEOREM SearchFindsFirstFree == Spec => []FirstFree
<1>1. Inv => FirstFree
  BY DEF Inv, Registry, SearchPast, FirstFree, IsAssigned, Steps, UrcId
<1> QED
  BY Invariance, <1>1, PTL

\* Wherever atc_init fails and however often it is called again, no pointer of
\* the context dangles and only earlier calls leak; and atc_init returns
\* ATC_SUCCESS exactly when nothing is missing that atc_process uses.
THEOREM InitMemory == Spec => []InitOwnership
<1>1. Inv => InitOwnership
  BY DEF Inv, Fields
<1> QED
  BY Invariance, <1>1, PTL

\* Bytes that were received before wake_semaphore existed are handled before
\* atc_process waits on it for the first time.
THEOREM EarlyByteHandled == Spec => []NoLostEarlyByte
<1>1. Inv => NoLostEarlyByte
  BY DEF Inv, Waking, EarlyByteWoken, NoLostEarlyByte
<1> QED
  BY Invariance, <1>1, PTL

-----------------------------------------------------------------------------
(* Identifiers that were given back.                                        *)

\* Where the counter is, or the search that began there.
Position == IF pc = "idle" THEN First ELSE candidate

\* The identifiers used up after the k-th of recent.
Since(k) == {recent[i] : i \in 1 .. k - 1}

\* Since the k-th of recent was used up, the counter has passed identifiers of
\* S, those in use at that time, and identifiers used up later: too few to
\* come round.
NotRound(k, S) ==
  /\ Cardinality(S) < MaxHandlers
  /\ Used \subseteq S \cup Since(k) \cup {recent[k]}
  /\ Position # recent[k]
  /\ \A id \in UrcId : Steps(recent[k], id) < Steps(recent[k], Position) => id \in S \cup Since(k) \cup {recent[k]}

Reuse ==
  /\ Len(recent) <= Apart
  /\ \A k \in DOMAIN recent : \E S \in SUBSET UrcId : NotRound(k, S)
  /\ pc # "idle" => Len(urc_handler_list) < MaxHandlers
  /\ pc = "insert" => urc_next_id = NextId(candidate)
  /\ lpc \notin {"trap"} \cup DOMAIN Needs => recent = <<>> /\ pc = "idle"
  /\ Len(urc_handler_list) <= MaxHandlers

\* Fewer than all identifiers: those of S and the n of f leave one besides r.
LEMMA TooFew ==
  ASSUME NEW S \in SUBSET UrcId, Cardinality(S) < MaxHandlers, NEW n \in Nat, n < Apart, NEW f, NEW r \in UrcId
  PROVE  ~(UrcId \ {r} \subseteq S \cup {f[i] : i \in 1 .. n})
<1> SUFFICES ASSUME UrcId \ {r} \subseteq S \cup {f[i] : i \in 1 .. n} PROVE FALSE
  OBVIOUS
<1> DEFINE F == {f[i] : i \in 1 .. n}
<1>1. IsFiniteSet(UrcId) /\ Cardinality(UrcId) = IntMax
  BY FS_Interval DEF UrcId
<1>2. IsFiniteSet(UrcId \ {r}) /\ Cardinality(UrcId \ {r}) = IntMax - 1
  BY <1>1, FS_RemoveElement
<1>3. IsFiniteSet(S) /\ Cardinality(S) \in Nat
  BY <1>1, FS_Subset, FS_CardinalityType
<1>4. IsFiniteSet(F) /\ Cardinality(F) \in Nat /\ Cardinality(F) <= n
  <2>1. IsFiniteSet(1 .. n) /\ Cardinality(1 .. n) = n
    <3>1. 1 \in Int /\ n \in Int /\ (IF 1 > n THEN 0 ELSE n - 1 + 1) = n
      OBVIOUS
    <3> QED
      BY <3>1, FS_Interval
  <2> DEFINE g == [i \in 1 .. n |-> f[i]]
  <2>2. g \in Surjection(1 .. n, F)
    BY DEF Surjection
  <2>3. IsFiniteSet(F) /\ Cardinality(F) <= Cardinality(1 .. n)
    BY <2>1, <2>2, FS_Surjection
  <2> HIDE DEF F
  <2> QED
    BY <2>1, <2>3, FS_CardinalityType
<1> HIDE DEF F
<1>5. IsFiniteSet(S \cup F) /\ Cardinality(S \cup F) <= Cardinality(S) + Cardinality(F)
  <2>1. IsFiniteSet(S \cap F)
    BY <1>3, FS_Subset
  <2>2. Cardinality(S \cap F) \in Nat
    BY <2>1, FS_CardinalityType
  <2> QED
    BY <1>3, <1>4, <2>2, FS_Union
<1>6. Cardinality(UrcId \ {r}) <= Cardinality(S \cup F) /\ Cardinality(S \cup F) \in Nat
  <2>1. (UrcId \ {r}) \in SUBSET (S \cup F)
    BY DEF F
  <2> QED
    BY <1>5, <2>1, FS_Subset, FS_CardinalityType
<1> QED
  BY <1>2, <1>3, <1>4, <1>5, <1>6 DEF Apart

\* The counter goes on from b without coming round to r.
LEMMA GoOn ==
  ASSUME NEW S \in SUBSET UrcId, Cardinality(S) < MaxHandlers, NEW n \in Nat, n < Apart, NEW f,
         NEW r \in UrcId, NEW b \in UrcId, b # r, NEW T, T = S \cup {f[i] : i \in 1 .. n}, b \in T,
         \A id \in UrcId : Steps(r, id) < Steps(r, b) => id \in T \cup {r}
  PROVE  /\ NextId(b) # r
         /\ \A id \in UrcId : Steps(r, id) < Steps(r, NextId(b)) => id \in T \cup {r}
<1>1. NextId(b) # r
  <2> SUFFICES ASSUME NextId(b) = r PROVE FALSE
    OBVIOUS
  <2>1. \A id \in UrcId : id = b \/ Steps(r, id) < Steps(r, b)
    BY DEF NextId, Steps, UrcId
  <2>2. UrcId \ {r} \subseteq T
    BY <2>1
  <2> QED
    BY <2>2, TooFew
<1>2. \A id \in UrcId : Steps(r, id) < Steps(r, NextId(b)) => Steps(r, id) < Steps(r, b) \/ id = b
  BY StepsNext
<1> QED
  BY <1>1, <1>2

\* A step that leaves the identifiers used up and the position as they are.
LEMMA StaysApart ==
  ASSUME Reuse, recent' = recent, Position' = Position, Used' \subseteq Used
  PROVE  \A k \in DOMAIN recent' : \E S \in SUBSET UrcId : NotRound(k, S)'
<1> SUFFICES ASSUME NEW k \in DOMAIN recent PROVE \E S \in SUBSET UrcId : NotRound(k, S)'
  OBVIOUS
<1>1. PICK S \in SUBSET UrcId : NotRound(k, S)
  BY DEF Reuse
<1>2. Since(k)' = Since(k)
  BY DEF Since
<1>3. NotRound(k, S)'
  BY <1>1, <1>2 DEF NotRound
<1> QED
  BY <1>3

\* A round of the search.
LEMMA SearchApart ==
  ASSUME Registry, Reuse, RegisterSearch
  PROVE  \A k \in DOMAIN recent' : \E S \in SUBSET UrcId : NotRound(k, S)'
<1>0. /\ candidate \in UrcId /\ recent \in Seq(UrcId) /\ pc = "search" /\ recent' = recent /\ Used' = Used
      /\ pc' # "idle" /\ Position = candidate
  BY DEF Registry, RegisterSearch, Used, Position
<1>1. CASE candidate \notin Used
  <2>1. Position' = Position
    BY <1>0, <1>1 DEF RegisterSearch, Position
  <2> QED
    BY <1>0, <2>1, StaysApart
<1>2. CASE candidate \in Used
  <2> SUFFICES ASSUME NEW k \in DOMAIN recent PROVE \E S \in SUBSET UrcId : NotRound(k, S)'
    BY <1>0
  <2>1. PICK S \in SUBSET UrcId : NotRound(k, S)
    BY DEF Reuse
  <2>2. k - 1 \in Nat /\ k - 1 < Apart /\ recent[k] \in UrcId
    <3>1. k \in 1 .. Len(recent) /\ Len(recent) \in Nat /\ Len(recent) <= Apart /\ Apart \in Nat
      BY <1>0 DEF Reuse, Apart
    <3> QED
      BY <1>0, <3>1
  <2> DEFINE T == S \cup Since(k)
  <2>3. /\ Cardinality(S) < MaxHandlers /\ candidate # recent[k] /\ candidate \in T
        /\ \A id \in UrcId : Steps(recent[k], id) < Steps(recent[k], candidate) => id \in T \cup {recent[k]}
    BY <1>0, <1>2, <2>1 DEF NotRound
  <2>4. T = S \cup {recent[i] : i \in 1 .. k - 1}
    BY DEF Since
  <2> HIDE DEF T
  <2>5. /\ NextId(candidate) # recent[k]
        /\ \A id \in UrcId : Steps(recent[k], id) < Steps(recent[k], NextId(candidate)) => id \in T \cup {recent[k]}
    <3> DEFINE r == recent[k]
               m == k - 1
    <3>1. r \in UrcId /\ candidate \in UrcId /\ m \in Nat /\ m < Apart /\ T = S \cup {recent[i] : i \in 1 .. m}
      BY <1>0, <2>2, <2>4
    <3>2. /\ Cardinality(S) < MaxHandlers /\ candidate # r /\ candidate \in T
          /\ \A id \in UrcId : Steps(r, id) < Steps(r, candidate) => id \in T \cup {r}
      BY <2>3
    <3> HIDE DEF r, m
    <3>3. /\ NextId(candidate) # r
          /\ \A id \in UrcId : Steps(r, id) < Steps(r, NextId(candidate)) => id \in T \cup {r}
      BY <3>1, <3>2, GoOn
    <3> QED
      BY <3>3 DEF r
  <2>6. Position' = NextId(candidate) /\ Since(k)' = Since(k)
    BY <1>0, <1>2 DEF RegisterSearch, Position, Since
  <2>7. NotRound(k, S)'
    BY <1>0, <2>1, <2>5, <2>6 DEF NotRound, T
  <2> QED
    BY <2>7
<1> QED
  BY <1>1, <1>2

\* The identifier is used up: those in use so far are the set apart from it.
LEMMA InsertApart ==
  ASSUME Registry, Reuse, RegisterInsert
  PROVE  /\ \A k \in DOMAIN recent' : \E S \in SUBSET UrcId : NotRound(k, S)'
         /\ Len(recent') <= Apart
<1> DEFINE n == IF Len(recent) < Apart THEN Len(recent) + 1 ELSE Apart
<1>0. /\ candidate \in UrcId /\ recent \in Seq(UrcId) /\ pc = "insert" /\ pc' = "idle"
      /\ Position = candidate /\ urc_next_id' = NextId(candidate) /\ Used \in SUBSET UrcId
      /\ Used' \subseteq Used \cup {candidate}
  <2>1. urc_handler_list \in Seq(UrcId)
    BY DEF Registry
  <2>2. Used \in SUBSET UrcId
    BY <2>1 DEF Used
  <2>3. Used' \subseteq Used \cup {candidate}
    BY <2>1 DEF RegisterInsert, Used
  <2> QED
    BY <2>2, <2>3 DEF Registry, Reuse, RegisterInsert, Position
<1>1. NextId(candidate) \in UrcId /\ NextId(candidate) # candidate
  BY <1>0, NextIdType DEF NextId, UrcId
<1>2. Position' = NextId(candidate)
  BY <1>0, <1>1 DEF Position, First, UrcId
<1>3. n \in Nat /\ n <= Apart /\ Apart \in Nat /\ Len(recent) \in Nat
  BY <1>0 DEF Reuse, Apart
<1>4. recent' = [k \in 1 .. n |-> IF k = 1 THEN candidate ELSE recent[k - 1]]
  BY DEF RegisterInsert, UseUp
<1>5. \A k \in 2 .. n : k - 1 \in DOMAIN recent
  BY <1>3, <1>0 DEF Reuse
<1> HIDE DEF n
<1>6. DOMAIN recent' = 1 .. n /\ Len(recent') = n
  BY <1>3, <1>4
<1>7. Cardinality(Used) < MaxHandlers
  <2>1. /\ urc_handler_list \in Seq(UrcId) /\ DOMAIN urc_handler_list = 1 .. Len(urc_handler_list)
        /\ Len(urc_handler_list) \in Nat /\ Len(urc_handler_list) < MaxHandlers
    BY <1>0 DEF Registry, Reuse
  <2>2. IsFiniteSet(1 .. Len(urc_handler_list)) /\ Cardinality(1 .. Len(urc_handler_list)) = Len(urc_handler_list)
    <3>1. 1 \in Int /\ Len(urc_handler_list) \in Int
          /\ (IF 1 > Len(urc_handler_list) THEN 0 ELSE Len(urc_handler_list) - 1 + 1) = Len(urc_handler_list)
      BY <2>1
    <3> QED
      BY <3>1, FS_Interval
  <2>3. urc_handler_list \in Surjection(1 .. Len(urc_handler_list), Used)
    BY <2>1 DEF Surjection, Used
  <2>4. Cardinality(Used) <= Cardinality(1 .. Len(urc_handler_list)) /\ Cardinality(Used) \in Nat
    BY <2>2, <2>3, FS_Surjection, FS_CardinalityType
  <2> QED
    BY <2>1, <2>2, <2>4
<1>8. ASSUME 1 \in 1 .. n PROVE \E S \in SUBSET UrcId : NotRound(1, S)'
  <2>1. recent'[1] = candidate
    BY <1>4, <1>8
  <2>2. \A id \in UrcId : Steps(candidate, id) < Steps(candidate, NextId(candidate)) => id = candidate
    <3>1. \A id \in UrcId : Steps(candidate, id) < Steps(candidate, NextId(candidate))
                             => Steps(candidate, id) < Steps(candidate, candidate) \/ id = candidate
      BY <1>0, StepsNext
    <3>2. \A id \in UrcId : ~(Steps(candidate, id) < Steps(candidate, candidate))
      BY <1>0 DEF Steps, UrcId
    <3> QED
      BY <3>1, <3>2
  <2>3. PICK S \in SUBSET UrcId : S = Used
    BY <1>0
  <2>4. NotRound(1, S)'
    BY <1>0, <1>1, <1>2, <1>7, <2>1, <2>2, <2>3 DEF NotRound
  <2> QED
    BY <2>4
<1>9. ASSUME NEW k \in 2 .. n PROVE \E S \in SUBSET UrcId : NotRound(k, S)'
  <2>1. k - 1 \in DOMAIN recent /\ recent'[k] = recent[k - 1] /\ recent[k - 1] \in UrcId
    <3>1. k \in 1 .. n /\ k # 1 /\ k - 1 \in DOMAIN recent
      BY <1>3, <1>5
    <3> QED
      BY <1>0, <1>4, <3>1
  <2>2. PICK S \in SUBSET UrcId : NotRound(k - 1, S)
    BY <2>1 DEF Reuse
  <2>3. Since(k)' = Since(k - 1) \cup {candidate}
    <3>1. \A i \in 1 .. k - 1 : i \in 1 .. n /\ (i = 1 \/ i - 1 \in 1 .. (k - 1) - 1)
      BY <1>3
    <3>2. \A i \in 1 .. (k - 1) - 1 : i + 1 \in 1 .. k - 1 /\ i + 1 # 1 /\ (i + 1) - 1 = i
      BY <1>3
    <3>3. 1 \in 1 .. k - 1
      BY <1>3
    <3>4. \A i \in 1 .. k - 1 : recent'[i] \in Since(k - 1) \cup {candidate}
      BY <1>4, <3>1 DEF Since
    <3>5. \A i \in 1 .. (k - 1) - 1 : \E j \in 1 .. k - 1 : recent[i] = recent'[j]
      BY <1>4, <3>1, <3>2
    <3>6. candidate = recent'[1]
      BY <1>4, <3>1, <3>3
    <3> QED
      BY <3>3, <3>4, <3>5, <3>6 DEF Since
  <2> DEFINE T == S \cup Since(k)'
  <2>4. k - 1 \in Nat /\ k - 1 < Apart
    BY <1>3
  <2>5. T = S \cup {recent'[i] : i \in 1 .. k - 1}
    BY DEF Since
  <2>6. /\ Cardinality(S) < MaxHandlers /\ candidate # recent[k - 1] /\ candidate \in T
        /\ \A id \in UrcId : Steps(recent[k - 1], id) < Steps(recent[k - 1], candidate) => id \in T \cup {recent[k - 1]}
        /\ Used \subseteq T \cup {recent[k - 1]}
    BY <1>0, <2>2, <2>3 DEF NotRound
  <2> HIDE DEF T
  <2>7. /\ NextId(candidate) # recent[k - 1]
        /\ \A id \in UrcId : Steps(recent[k - 1], id) < Steps(recent[k - 1], NextId(candidate)) => id \in T \cup {recent[k - 1]}
    <3> DEFINE r == recent[k - 1]
               f == recent'
               m == k - 1
    <3>1. r \in UrcId /\ candidate \in UrcId /\ m \in Nat /\ m < Apart /\ T = S \cup {f[i] : i \in 1 .. m}
      BY <1>0, <2>1, <2>4, <2>5
    <3>2. /\ Cardinality(S) < MaxHandlers /\ candidate # r /\ candidate \in T
          /\ \A id \in UrcId : Steps(r, id) < Steps(r, candidate) => id \in T \cup {r}
      BY <2>6
    <3> HIDE DEF r, f, m
    <3>3. /\ NextId(candidate) # r
          /\ \A id \in UrcId : Steps(r, id) < Steps(r, NextId(candidate)) => id \in T \cup {r}
      BY <3>1, <3>2, GoOn
    <3> QED
      BY <3>3 DEF r
  <2>8. Used' \subseteq T \cup {recent[k - 1]}
    BY <1>0, <2>6
  <2>9. NotRound(k, S)'
    BY <1>2, <2>1, <2>6, <2>7, <2>8 DEF NotRound, T
  <2> QED
    BY <2>9
<1>10. \A k \in 1 .. n : (k = 1 /\ 1 \in 1 .. n) \/ k \in 2 .. n
  BY <1>3
<1> QED
  BY <1>3, <1>6, <1>8, <1>9, <1>10

\* The conjuncts of the invariant about single variables, and every step.
LEMMA ReuseStep ==
  ASSUME Registry, Reuse, [Next]_vars
  PROVE  Reuse'
<1> DEFINE Started == lpc \in {"trap"} \cup DOMAIN Needs
<1>1. CASE Serve /\ RegisterBegin
  <2>1. Position' = Position /\ recent' = recent /\ Used' = Used
    BY <1>1 DEF RegisterBegin, Position, Used
  <2> QED
    BY <1>1, <2>1, StaysApart DEF Serve, RegisterBegin, Reuse, ctxVars, Needs
<1>2. CASE Serve /\ RegisterSearch
  BY <1>2, SearchApart DEF Serve, RegisterSearch, Reuse, ctxVars
<1>3. CASE Serve /\ RegisterInsert
  <2>1. urc_handler_list \in Seq(UrcId) /\ candidate \in UrcId /\ Len(urc_handler_list) < MaxHandlers
    BY <1>3 DEF Registry, Reuse, RegisterInsert
  <2>2. Len(urc_handler_list') <= MaxHandlers
    BY <1>3, <2>1 DEF RegisterInsert
  <2> QED
    BY <1>3, <2>2, InsertApart DEF Serve, RegisterInsert, Reuse, ctxVars
<1>4. ASSUME NEW id \in UrcId, Serve, Unregister(id) PROVE Reuse'
  <2>1. urc_handler_list \in Seq(UrcId)
    BY DEF Registry
  <2>2. Used' \subseteq Used /\ Len(urc_handler_list') <= Len(urc_handler_list)
    <3>1. CASE UNCHANGED urc_handler_list
      BY <2>1, <3>1 DEF Used
    <3>2. ASSUME NEW i \in DOMAIN urc_handler_list,
                 urc_handler_list' = [k \in 1 .. Len(urc_handler_list) - 1 |->
                                        urc_handler_list[IF k < i THEN k ELSE k + 1]]
          PROVE  Used' \subseteq Used /\ Len(urc_handler_list') <= Len(urc_handler_list)
      <4>1. Len(urc_handler_list) - 1 \in Nat /\ DOMAIN urc_handler_list = 1 .. Len(urc_handler_list)
        BY <2>1, <3>2
      <4>2. \A k \in 1 .. Len(urc_handler_list) - 1 : (IF k < i THEN k ELSE k + 1) \in DOMAIN urc_handler_list
        BY <3>2, <4>1
      <4>3. Len(urc_handler_list') = Len(urc_handler_list) - 1
        BY <3>2, <4>1
      <4>4. Used' \subseteq Used
        BY <3>2, <4>1, <4>2 DEF Used
      <4> QED
        BY <4>1, <4>3, <4>4
    <3> QED
      BY <1>4, <3>1, <3>2 DEF Unregister
  <2>3. Position' = Position /\ UNCHANGED <<recent, pc, urc_next_id, candidate, lpc>>
    BY <1>4 DEF Unregister, Position, First, Serve, ctxVars
  <2>4. Len(urc_handler_list') \in Nat /\ Len(urc_handler_list) \in Nat
    <3>1. urc_handler_list' \in Seq(UrcId)
      BY <1>4, UnregisterStep DEF Registry
    <3> QED
      BY <2>1, <3>1
  <2>5. pc = "idle"
    BY <1>4 DEF Unregister
  <2> QED
    BY <2>2, <2>3, <2>4, <2>5, StaysApart DEF Reuse
<1>5. CASE UNCHANGED regVars /\ (~Started' => ~Started)
  <2>1. Position' = Position /\ recent' = recent /\ Used' = Used
    BY <1>5 DEF regVars, Position, First, Used
  <2> QED
    BY <1>5, <2>1, StaysApart DEF regVars, Reuse
<1>6. CASE \E what \in Allocated : Create(what)
  <2>1. /\ UNCHANGED <<urc_handler_list, pc, candidate, from, recent, stale>>
        /\ lpc \in Allocated
    BY <1>6 DEF Create
  <2>2. recent = <<>> /\ pc = "idle"
    BY <2>1 DEF Reuse, Allocated, Needs
  <2> QED
    BY <2>1, <2>2 DEF Reuse
<1>7. CASE Serve
  BY <1>1, <1>2, <1>3, <1>4, <1>7 DEF Serve, RegisterStep
<1>8. CASE InitStart \/ InitBuffer \/ InitCapacity \/ InitReadIndex \/ InitWriteIndex \/ KeepUrcList
  <2>1. UNCHANGED regVars /\ ~Started
    BY <1>8 DEF InitStart, InitBuffer, InitCapacity, InitReadIndex, InitWriteIndex, KeepUrcList, Needs
  <2> QED
    BY <1>5, <2>1
<1>9. CASE \E what \in Allocated : CreateFails(what)
  <2>1. UNCHANGED regVars /\ ~Started
    BY <1>9 DEF CreateFails, Allocated, Needs
  <2> QED
    BY <1>5, <2>1
<1>10. CASE IgnoreFailure \/ ExternDone \/ SendDone \/ RecvByte \/ RecvDone \/ Take \/ Trap \/ UNCHANGED vars
  <2>1. UNCHANGED regVars /\ (~Started' => ~Started)
    BY <1>10 DEF IgnoreFailure, ExternDone, SendDone, RecvByte, RecvDone, Take, Trap, vars, ctxVars, Needs
  <2> QED
    BY <1>5, <2>1
<1>11. CASE IsrWrite \/ IsrGive
  <2>1. UNCHANGED regVars /\ (~Started' => ~Started)
    BY <1>11 DEF IsrWrite, IsrGive
  <2> QED
    BY <1>5, <2>1
<1> QED
  BY <1>6, <1>7, <1>8, <1>9, <1>10, <1>11 DEF Next, Thread, Loop, InitNext

\* The search does not end at an identifier used up so recently.
LEMMA SearchPassesRecent == Spec => [](Reuse /\ NoQuickReuse)
<1>1. Init => Reuse
  <2> SUFFICES ASSUME Init PROVE Reuse
    OBVIOUS
  <2>1. Len(recent) = 0 /\ DOMAIN recent = {} /\ Len(urc_handler_list) = 0
    BY DEF Init
  <2>2. 0 <= Apart /\ 0 <= MaxHandlers
    BY DEF Apart
  <2> QED
    BY <2>1, <2>2 DEF Init, Reuse
<1>2. Inv /\ Reuse /\ [Next]_vars => Reuse'
  BY ReuseStep DEF Inv
<1>3. Reuse => NoQuickReuse
  BY DEF Reuse, NotRound, Position, NoQuickReuse, Latest
<1> QED
  BY Invariance, <1>1, <1>2, <1>3, PTL DEF Spec

\* What a step of the registry does to the identifiers in use and to those
\* that were given back.
LEMMA StaleStep ==
  ASSUME Registry, NoQuickReuse, StaleFindsNothing, [Next]_vars
  PROVE  StaleFindsNothing'
<1>1. urc_handler_list \in Seq(UrcId) /\ stale \subseteq Latest
  BY DEF Registry
<1>2. CASE RegisterInsert
  <2>1. candidate \notin stale /\ stale' \subseteq stale
    BY <1>1, <1>2 DEF RegisterInsert, UseUp, NoQuickReuse
  <2>2. Used' \subseteq Used \cup {candidate}
    BY <1>1, <1>2 DEF RegisterInsert, Used
  <2> QED
    BY <2>1, <2>2 DEF StaleFindsNothing
<1>3. ASSUME NEW id \in UrcId, Unregister(id) PROVE StaleFindsNothing'
  <2>1. CASE id \notin Used
    <3>1. UNCHANGED urc_handler_list /\ stale' = stale
      BY <1>3, <2>1 DEF Unregister, Used
    <3> QED
      BY <3>1 DEF StaleFindsNothing, Used
  <2>2. CASE id \in Used
    <3>1. PICK i \in DOMAIN urc_handler_list :
            /\ urc_handler_list[i] = id
            /\ urc_handler_list' = [k \in 1 .. Len(urc_handler_list) - 1 |->
                                      urc_handler_list[IF k < i THEN k ELSE k + 1]]
      BY <1>3, <2>2 DEF Unregister
    <3>2. /\ Len(urc_handler_list) - 1 \in Nat /\ i \in 1 .. Len(urc_handler_list)
          /\ DOMAIN urc_handler_list = 1 .. Len(urc_handler_list)
      BY <1>1, <3>1
    <3>3. \A k \in 1 .. Len(urc_handler_list) - 1 :
            /\ (IF k < i THEN k ELSE k + 1) \in DOMAIN urc_handler_list
            /\ (IF k < i THEN k ELSE k + 1) # i
      BY <3>2
    <3>4. \A k \in 1 .. Len(urc_handler_list) - 1 : urc_handler_list'[k] \in Used \ {id}
      BY <3>1, <3>2, <3>3 DEF Used, Registry, UniqueIds
    <3>5. Used' \subseteq Used \ {id}
      BY <3>1, <3>4 DEF Used
    <3>6. stale' \subseteq stale \cup {id}
      BY <1>3 DEF Unregister
    <3> QED
      BY <3>5, <3>6 DEF StaleFindsNothing
  <2> QED
    BY <2>1, <2>2
<1>4. CASE UNCHANGED <<urc_handler_list, stale>>
  BY <1>4 DEF StaleFindsNothing, Used
<1> QED
  BY <1>2, <1>3, <1>4
  DEF Next, Thread, Loop, InitNext, InitStart, IgnoreFailure, InitBuffer, InitCapacity, InitReadIndex, InitWriteIndex,
      KeepUrcList, Create, CreateFails, Serve, RegisterStep, RegisterBegin, RegisterSearch, ExternDone, SendDone,
      RecvByte, RecvDone, Take, Trap, IsrWrite, IsrGive, vars, regVars

\* Who unregisters a handler of urc_handle.c twice removes nobody else's with the
\* second call, as long as its identifier is among the IntMax - MaxHandlers used
\* up last; how often the counter has wrapped before does not matter.
THEOREM StaleIdsFindNothing == Spec => []StaleFindsNothing
<1>1. Init => StaleFindsNothing
  BY DEF Init, StaleFindsNothing
<1>2. Inv /\ NoQuickReuse /\ StaleFindsNothing /\ [Next]_vars => StaleFindsNothing'
  BY StaleStep DEF Inv
<1> QED
  BY Invariance, SearchPassesRecent, <1>1, <1>2, PTL DEF Spec

=============================================================================
