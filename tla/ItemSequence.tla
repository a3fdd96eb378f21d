---------------------------- MODULE ItemSequence ----------------------------
(***************************************************************************)
(* What the linked list promises: a sequence of pointers that its caller   *)
(* extends, shortens, reads and reverses.  A list that owns its items      *)
(* releases each of them exactly once, when it leaves the list.            *)
(***************************************************************************)
EXTENDS Integers, SequencesExt

CONSTANTS
  Data,     \* the pointers stored
  NULL,     \* what a read returns when there is none
  MaxIndex  \* bound: the largest index asked for

VARIABLES
  exists,  \* whether the list has been created
  owning,  \* whether it releases the items that leave it
  items,   \* the sequence
  answer,  \* the last operation, its argument and what it returned
  freed    \* the items the last operation released, in order

lvars == <<exists, owning, items, answer, freed>>

Released(s) == IF owning THEN s ELSE <<>>

Init ==
  /\ exists = FALSE /\ owning = FALSE
  /\ items = <<>> /\ freed = <<>> /\ answer = "none"

Create(own) ==
  /\ ~exists
  /\ exists' = TRUE /\ owning' = own
  /\ answer' = <<"create", own, "ok">> /\ freed' = <<>>
  /\ UNCHANGED items

\* Operation op with argument arg makes the sequence s, returns value and
\* drops the items gone.
Become(s, op, arg, value, gone) ==
  /\ exists
  /\ items' = s /\ answer' = <<op, arg, value>> /\ freed' = Released(gone)
  /\ UNCHANGED <<exists, owning>>

AddLast(d) == Become(Append(items, d), "append", d, "ok", <<>>)
AddFirst(d) == Become(<<d>> \o items, "prepend", d, "ok", <<>>)

\* The first occurrence goes.
TakeOut(d) ==
  \E i \in DOMAIN items :
    /\ items[i] = d /\ \A k \in 1 .. i - 1 : items[k] # d
    /\ Become(RemoveAt(items, i), "remove", d, "ok", <<d>>)

TakeOutAt(i) == Become(RemoveAt(items, i), "remove_at", i - 1, "ok", <<items[i]>>)

Read(i) == Become(items, "get", i - 1, IF i \in DOMAIN items THEN items[i] ELSE NULL, <<>>)

TurnAround == Become(Reverse(items), "reverse", "all", "ok", <<>>)

Drop ==
  /\ exists
  /\ exists' = FALSE /\ items' = <<>>
  /\ answer' = <<"destroy", "all", "ok">> /\ freed' = Released(items)
  /\ UNCHANGED owning

\* Without a list every operation fails; with one, an addition that finds no
\* memory and the removal of what is not there.
Refuse(op, arg) ==
  /\ exists => \/ op \in {"append", "prepend"}
               \/ op = "remove" /\ \A i \in DOMAIN items : items[i] # arg
               \/ op = "remove_at" /\ arg >= Len(items)
  /\ answer' = <<op, arg, "fail">> /\ freed' = <<>>
  /\ UNCHANGED <<exists, owning, items>>

Next ==
  \/ \E own \in BOOLEAN : Create(own)
  \/ TurnAround \/ Drop
  \/ \E d \in Data : AddLast(d) \/ AddFirst(d) \/ TakeOut(d)
  \/ \E d \in Data, op \in {"append", "prepend", "remove"} : Refuse(op, d)
  \/ \E i \in DOMAIN items : TakeOutAt(i)
  \/ \E i \in 1 .. MaxIndex : Read(i)
  \/ \E i \in 0 .. MaxIndex, op \in {"remove_at", "get"} : Refuse(op, i)

Spec == Init /\ [][Next]_lvars
===============================================================================
