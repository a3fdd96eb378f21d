------------------------------ MODULE AtcContext ------------------------------
(***************************************************************************)
(* The life of one context from zeroed static memory: the thread that      *)
(* calls atc_init, after a failure calls it again or goes on, and then     *)
(* runs atc_process; the UART interrupt, which may call atc_receive_data   *)
(* at any time; and the URC registry the loop serves. A pointer field      *)
(* holds the number of the atc_init call that allocated its target, or 0   *)
(* for NULL. What uses a NULL traps or has no effect.                      *)
(***************************************************************************)
EXTENDS UrcRegistry, FiniteSets

CONSTANTS
  MaxAttempts,  \* bound: calls of atc_init
  RxCap         \* bound: bytes the receive ring holds

ASSUME ContextAssumption == MaxAttempts \in Nat \ {0} /\ RxCap \in Nat \ {0}

VARIABLES
  lpc, attempt,             \* control of the thread; calls of atc_init so far
  result,                   \* what the last of them returned
  field,                    \* the pointer fields of the context
  heap,                     \* live allocations: <<what, number of the call>>
  read_index, write_index,  \* the indices of rx_buffer
  wake,                     \* wake_semaphore
  isr                       \* control of the interrupt

init == <<attempt, result, field, heap>>
ring == <<read_index, write_index>>
ctxVars == <<lpc, init, ring, wake, isr>>
vars == <<regVars, ctxVars>>

\* rx_buffer is a field too, without an allocation: its buffer is in the context.
Allocated == {"byte_stack", "items", "external_api_queue", "send_queue", "urc_handler_list", "wake_semaphore"}
Pointers == Allocated \cup {"buffer", "capacity"}

NextCell(i) == (i + 1) % (RxCap + 1)
rx == (write_index - read_index) % (RxCap + 1)   \* the bytes in rx_buffer

\* What a stage of the loop uses without asking whether it is there; the other
\* functions return for a NULL.
Needs == [extern |-> "external_api_queue", send |-> "send_queue", recv |-> "urc_handler_list", take |-> "wake_semaphore"]
Missing == lpc \in DOMAIN Needs /\ field[Needs[lpc]] = 0

Init ==
  /\ urc_handler_list = <<>> /\ urc_next_id = 0
  /\ pc = "idle" /\ candidate = 1 /\ from = 1 /\ recent = <<>> /\ stale = {}
  /\ lpc = "start" /\ attempt = 0 /\ result = "none"
  /\ field = [p \in Pointers |-> 0] /\ heap = {}
  /\ read_index = 0 /\ write_index = 0 /\ wake = FALSE /\ isr = "idle"

-----------------------------------------------------------------------------
(* atc_init, one allocation at a time.                                      *)

\* The first call, or one more: a failure is reported, and urc_init provides
\* for a repetition.
InitStart ==
  /\ lpc \in {"start", "failed"} /\ attempt < MaxAttempts
  /\ attempt' = attempt + 1 /\ result' = "none"
  /\ lpc' = "buffer"
  /\ UNCHANGED <<regVars, field, heap, ring, wake, isr>>

\* at_thread does not look at the result.
IgnoreFailure ==
  /\ lpc = "failed"
  /\ lpc' = "extern"
  /\ UNCHANGED <<regVars, init, ring, wake, isr>>

\* ring_buffer_init: four stores, the interrupt between any two of them. What
\* it has put into the ring by then is wiped.
InitBuffer ==
  /\ lpc = "buffer"
  /\ field' = [field EXCEPT !["buffer"] = attempt]
  /\ lpc' = "capacity"
  /\ UNCHANGED <<regVars, attempt, result, heap, ring, wake, isr>>

InitCapacity ==
  /\ lpc = "capacity"
  /\ field' = [field EXCEPT !["capacity"] = attempt]
  /\ lpc' = "read_index"
  /\ UNCHANGED <<regVars, attempt, result, heap, ring, wake, isr>>

InitReadIndex ==
  /\ lpc = "read_index"
  /\ read_index' = 0
  /\ lpc' = "write_index"
  /\ UNCHANGED <<regVars, init, write_index, wake, isr>>

InitWriteIndex ==
  /\ lpc = "write_index"
  /\ write_index' = 0
  /\ lpc' = "byte_stack"
  /\ UNCHANGED <<regVars, init, read_index, wake, isr>>

\* Mutant: atc_process waits before it handles anything.
After_WaitFirst == [byte_stack |-> "items", items |-> "external_api_queue", external_api_queue |-> "send_queue",
                    send_queue |-> "urc_handler_list", urc_handler_list |-> "wake_semaphore", wake_semaphore |-> "take"]

\* What is created next, and what atc_process begins with.
After == [byte_stack |-> "items", items |-> "external_api_queue", external_api_queue |-> "send_queue",
          send_queue |-> "urc_handler_list", urc_handler_list |-> "wake_semaphore", wake_semaphore |-> "extern"]

\* The field gets its target. stack_create returns its structure only with
\* the items; urc_init starts the counter.
Create(what) ==
  /\ lpc = what
  /\ what = "urc_handler_list" => field[what] = 0
  /\ heap' = heap \cup {<<what, attempt>>}
  /\ field' = IF what = "byte_stack" THEN field
              ELSE IF what = "items" THEN [field EXCEPT !["byte_stack"] = attempt, !["items"] = attempt]
              ELSE [field EXCEPT ![what] = attempt]
  /\ urc_next_id' = IF what = "urc_handler_list" THEN 1 ELSE urc_next_id
  /\ lpc' = After[what]
  /\ result' = IF what = "wake_semaphore" THEN "ATC_SUCCESS" ELSE result
  /\ UNCHANGED <<urc_handler_list, pc, candidate, from, recent, stale, attempt, ring, wake, isr>>

\* Mutant: stack_create does not free its structure when it has no items.
Undone_Nothing(what) == {}
Undone(what) == IF what = "items" THEN {<<"byte_stack", attempt>>} ELSE {}

\* The field is NULL and atc_init returns ATC_ERROR; what it has created so
\* far stays, but for the structure of a stack without items.
CreateFails(what) ==
  /\ lpc = what
  /\ what = "urc_handler_list" => field[what] = 0
  /\ heap' = heap \ Undone(what)
  /\ field' = IF what \in {"byte_stack", "items"} THEN [field EXCEPT !["byte_stack"] = 0, !["items"] = 0]
              ELSE [field EXCEPT ![what] = 0]
  /\ lpc' = "failed" /\ result' = "ATC_ERROR"
  /\ UNCHANGED <<regVars, attempt, ring, wake, isr>>

\* urc_init keeps the list of an earlier call.
KeepUrcList ==
  /\ lpc = "urc_handler_list" /\ field[lpc] # 0
  /\ lpc' = After[lpc]
  /\ UNCHANGED <<regVars, init, ring, wake, isr>>

InitNext ==
  \/ InitBuffer \/ InitCapacity \/ InitReadIndex \/ InitWriteIndex \/ KeepUrcList
  \/ \E what \in Allocated : Create(what) \/ CreateFails(what)

-----------------------------------------------------------------------------
(* atc_process, reduced to the order of its stages.                         *)

\* extern_msg_handle executes a message; without a list that does nothing.
Serve ==
  /\ lpc = "extern" /\ field["external_api_queue"] # 0 /\ field["urc_handler_list"] # 0
  /\ RegisterBegin \/ RegisterStep \/ \E id \in UrcId : Unregister(id)
  /\ UNCHANGED ctxVars

ExternDone ==
  /\ lpc = "extern" /\ pc = "idle"
  /\ lpc' = "send"
  /\ UNCHANGED <<regVars, init, ring, wake, isr>>

SendDone ==
  /\ lpc = "send"
  /\ lpc' = "recv"
  /\ UNCHANGED <<regVars, init, ring, wake, isr>>

RecvByte ==
  /\ lpc = "recv" /\ rx > 0
  /\ read_index' = NextCell(read_index)
  /\ UNCHANGED <<regVars, lpc, init, write_index, wake, isr>>

RecvDone ==
  /\ lpc = "recv" /\ rx = 0
  /\ lpc' = "take"
  /\ UNCHANGED <<regVars, init, ring, wake, isr>>

\* The semaphore was given or, no command running, another 2^32 ms are over;
\* there is no waiting on a NULL.
Take ==
  /\ lpc = "take" /\ (wake \/ Missing)
  /\ wake' = FALSE
  /\ lpc' = "extern"
  /\ UNCHANGED <<regVars, init, ring, isr>>

\* The use of a NULL by the interface or, for a line, by the walk of the list.
Trap ==
  /\ Missing /\ (lpc = "recv" => rx > 0)
  /\ lpc' = "trap"
  /\ UNCHANGED <<regVars, init, ring, wake, isr>>

-----------------------------------------------------------------------------
(* The interrupt: atc_receive_data with one byte.                           *)

\* Without a buffer or room nothing happens. A remainder modulo the capacity
\* 0 is undefined: it traps or, like a division that yields 0, finds no room.
IsrWrite ==
  /\ isr = "idle"
  /\ field["buffer"] # 0
  /\ IF field["capacity"] = 0
     THEN lpc' \in {"trap", lpc} /\ UNCHANGED <<write_index, isr>>
     ELSE /\ NextCell(write_index) # read_index
          /\ write_index' = NextCell(write_index) /\ isr' = "give"
          /\ UNCHANGED lpc
  /\ UNCHANGED <<regVars, init, read_index, wake>>

IsrGive ==
  /\ isr = "give"
  /\ \/ wake' = (wake \/ field["wake_semaphore"] # 0) /\ UNCHANGED lpc
     \/ field["wake_semaphore"] = 0 /\ lpc' = "trap" /\ UNCHANGED wake
  /\ isr' = "idle"
  /\ UNCHANGED <<regVars, init, ring>>

Loop == Serve \/ ExternDone \/ SendDone \/ RecvByte \/ RecvDone \/ Take \/ Trap
Thread == InitNext \/ IgnoreFailure \/ Loop

Next == lpc # "trap" /\ (InitStart \/ Thread \/ IsrWrite \/ IsrGive)

\* The thread, and a search it has begun, goes on; an interrupt returns.
Fairness == WF_vars(lpc # "trap" /\ Thread) /\ WF_vars(Serve /\ RegisterStep) /\ WF_vars(lpc # "trap" /\ IsrGive)

Spec == Init /\ [][Next]_vars /\ Fairness

-----------------------------------------------------------------------------
TypeOK ==
  /\ urc_handler_list \in Seq(UrcId) /\ urc_next_id \in 0 .. IntMax
  /\ pc \in {"idle", "search", "insert"} /\ candidate \in UrcId /\ from \in UrcId
  /\ recent \in Seq(UrcId) /\ stale \subseteq Latest
  /\ lpc \in {"start", "failed", "buffer", "capacity", "read_index", "write_index", "trap"}
             \cup Allocated \cup DOMAIN Needs
  /\ attempt \in 0 .. MaxAttempts /\ result \in {"none", "ATC_SUCCESS", "ATC_ERROR"}
  /\ field \in [Pointers -> 0 .. MaxAttempts] /\ heap \subseteq Allocated \X (1 .. MaxAttempts)
  /\ read_index \in 0 .. RxCap /\ write_index \in 0 .. RxCap
  /\ wake \in BOOLEAN /\ isr \in {"idle", "give"}

\* A byte that the interrupt put into the ring while there was no semaphore to
\* give is not slept over: atc_process empties the ring before its first wait.
NoLostEarlyByte == lpc = "take" /\ ~Missing /\ ~wake /\ rx > 0 => isr = "give"

\* atc_init may fail anywhere and be called again: no pointer dangles, and what
\* the last call allocated is reachable or still being built (an earlier call
\* leaks). Its result is the truth: with ATC_SUCCESS nothing is missing, not
\* even what an earlier call had failed on, and with ATC_ERROR something is,
\* as the thread that does not look at the result will find.
InitOwnership ==
  /\ \A p \in Allocated : field[p] # 0 => <<p, field[p]>> \in heap
  /\ \A b \in heap : \/ b[2] \in {field[b[1]]} \cup 1 .. attempt - 1
                     \/ lpc \in {"items", "trap"} /\ b = <<"byte_stack", attempt>>
  /\ result = "ATC_SUCCESS" => \A p \in Pointers : field[p] # 0
  /\ result = "ATC_ERROR" => \E p \in Allocated : field[p] = 0

\* The search for an identifier terminates, unless the program traps.
SearchEnds == pc = "search" ~> pc = "insert" \/ lpc = "trap"
===============================================================================
