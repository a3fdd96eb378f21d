----------------------------- MODULE UrcRegistry -----------------------------
(***************************************************************************)
(* The identifiers of the registered URC handlers (urc_handle.c): the      *)
(* search for a free one, registration and unregistration, which the loop  *)
(* thread executes. The list is a sequence here; SList shows that slist.c  *)
(* provides one. An entry is its identifier.                               *)
(***************************************************************************)
EXTENDS Integers, Sequences, UrcHandle

CONSTANT MaxHandlers  \* bound: handlers registered at once, fewer than identifiers

ASSUME RegistryAssumption == MaxHandlers \in Nat \ {0} /\ MaxHandlers < IntMax

VARIABLES
  urc_handler_list, urc_next_id,
  pc, candidate,  \* _atc_urc_register: its control and its local variable
  from,           \* history: the identifier its search began with
  recent,         \* history: the identifiers used up last, newest first
  stale           \* history: those of them whose handler has been unregistered

regVars == <<urc_handler_list, urc_next_id, pc, candidate, from, recent, stale>>

Used == {urc_handler_list[i] : i \in DOMAIN urc_handler_list}

\* How many identifiers are used up from the one that gets an identifier to
\* the next that may.
Apart == IntMax - MaxHandlers
Latest == {recent[k] : k \in DOMAIN recent}

-----------------------------------------------------------------------------
\* The counter is 0 before urc_init; 0 is no identifier.
First_Lowest == 1   \* mutant: the search begins with the smallest identifier
First == IF urc_next_id = 0 THEN 1 ELSE urc_next_id

RegisterBegin ==
  /\ pc = "idle" /\ Len(urc_handler_list) < MaxHandlers
  /\ pc' = "search"
  /\ candidate' = First /\ from' = First
  /\ UNCHANGED <<urc_handler_list, urc_next_id, recent, stale>>

\* Mutant: the successor of an identifier in use is taken as it is.
RegisterSearch_Once ==
  /\ pc = "search"
  /\ pc' = "insert"
  /\ candidate' = IF candidate \in Used THEN NextId(candidate) ELSE candidate
  /\ urc_next_id' = NextId(candidate')
  /\ UNCHANGED <<urc_handler_list, from, recent, stale>>

\* One round of the do-while loop: a collision moves on, none ends it.
RegisterSearch ==
  /\ pc = "search"
  /\ IF candidate \in Used
     THEN /\ candidate' = NextId(candidate)
          /\ UNCHANGED <<pc, urc_next_id>>
     ELSE /\ pc' = "insert"
          /\ urc_next_id' = NextId(candidate)
          /\ UNCHANGED candidate
  /\ UNCHANGED <<urc_handler_list, from, recent, stale>>

UseUp(id) ==
  /\ recent' = [k \in 1 .. (IF Len(recent) < Apart THEN Len(recent) + 1 ELSE Apart) |->
                  IF k = 1 THEN id ELSE recent[k - 1]]
  /\ stale' = stale \cap Latest'

\* Without memory for the entry or its node the identifier is used up too.
RegisterInsert ==
  /\ pc = "insert"
  /\ pc' = "idle"
  /\ \/ urc_handler_list' = Append(urc_handler_list, candidate)
     \/ UNCHANGED urc_handler_list
  /\ UseUp(candidate)
  /\ UNCHANGED <<urc_next_id, candidate, from>>

\* The first entry with the identifier leaves the list, if there is one.
Unregister(id) ==
  /\ pc = "idle"
  /\ \/ \E i \in DOMAIN urc_handler_list :
          /\ urc_handler_list[i] = id /\ \A k \in 1 .. i - 1 : urc_handler_list[k] # id
          /\ urc_handler_list' = [k \in 1 .. Len(urc_handler_list) - 1 |->
                                    urc_handler_list[IF k < i THEN k ELSE k + 1]]
     \/ id \notin Used /\ UNCHANGED urc_handler_list
  /\ stale' = stale \cup ({id} \cap Used \cap Latest)
  /\ UNCHANGED <<urc_next_id, pc, candidate, from, recent>>

RegisterStep == RegisterSearch \/ RegisterInsert

-----------------------------------------------------------------------------
\* No two handlers that are registered at the same time share an identifier,
\* wherever the counter has wrapped to.
UniqueIds ==
  \A i, k \in DOMAIN urc_handler_list : urc_handler_list[i] = urc_handler_list[k] => i = k

\* The inductive part of FirstFree: what the search has passed is in use.
SearchPast ==
  pc # "idle" => /\ \A id \in UrcId : Steps(from, id) < Steps(from, candidate) => id \in Used
                 /\ pc = "insert" => candidate \notin Used

\* The search ends at the first free identifier from the counter on, as
\* EventLoop's RegisterUrc assumes of it in one step.
FirstFree == pc = "insert" => IsAssigned(candidate, Used, from)

\* Of the identifiers used up last, none that was given back is registered
\* again: whoever unregisters twice finds no other module's handler, as long as
\* no more than Apart identifiers have been used up since it registered, its own
\* included. That counts from the registration and not from the first
\* unregistration: an identifier held for longer may come back at once.
StaleFindsNothing == stale \cap Used = {}

\* The reason: the search does not end at an identifier used up so recently.
NoQuickReuse == pc = "insert" => candidate \notin Latest
===============================================================================
