-------------------------------- MODULE SList --------------------------------
(***************************************************************************)
(* The singly linked list (slist.c) at the level of its nodes and          *)
(* pointers. One thread uses it, so that an operation is one step. The     *)
(* live nodes are the domain of next and of data.                          *)
(***************************************************************************)
EXTENDS Integers, Sequences, FiniteSets

CONSTANTS
  Nodes,  \* bound: the addresses SLIST_MALLOC may return
  Data,   \* user data pointers
  NULL    \* the NULL pointer

ASSUME ListAssumption == IsFiniteSet(Nodes) /\ NULL \notin Nodes \cup Data

VARIABLES
  list,                   \* whether the list structure is allocated
  head, tail, len,        \* its fields
  free_fn,                \* whether it was created with a release callback
  next, data,             \* the fields of the live nodes
  ret, freed              \* the last operation with its argument and value; the data it released

vars == <<list, head, tail, len, free_fn, next, data, ret, freed>>

Init ==
  /\ list = FALSE /\ free_fn = FALSE
  /\ head = NULL /\ tail = NULL /\ len = 0
  /\ next = <<>> /\ data = <<>>
  /\ ret = "none" /\ freed = <<>>

\* The node a walk of k steps along next ends at.
NodeAt[k \in 0 .. Cardinality(Nodes)] ==
  IF k = 0 THEN head
  ELSE IF NodeAt[k - 1] \in DOMAIN next THEN next[NodeAt[k - 1]] ELSE NULL

\* SLIST_FOREACH: the nodes from head to NULL.
Path ==
  LET reached == {k \in DOMAIN NodeAt : \A i \in 0 .. k : NodeAt[i] # NULL}
  IN  [k \in 1 .. Cardinality(reached) |-> NodeAt[k - 1]]

\* A field of the nodes, with value v for the new node n.
With(f, n, v) == [m \in DOMAIN f \cup {n} |-> IF m = n THEN v ELSE f[m]]

Returns(op, arg, value, released) ==
  /\ ret' = <<op, arg, value>>
  /\ freed' = IF free_fn THEN released ELSE <<>>

-----------------------------------------------------------------------------
slist_create(f) ==
  /\ ~list
  /\ list' = TRUE /\ free_fn' = f
  /\ head' = NULL /\ tail' = NULL /\ len' = 0
  /\ ret' = <<"create", f, "ok">> /\ freed' = <<>>
  /\ UNCHANGED <<next, data>>

slist_destroy ==
  /\ list
  /\ list' = FALSE
  /\ next' = [n \in DOMAIN next \ {Path[k] : k \in DOMAIN Path} |-> next[n]]
  /\ data' = [n \in DOMAIN next \ {Path[k] : k \in DOMAIN Path} |-> data[n]]
  /\ Returns("destroy", "all", "ok", [k \in DOMAIN Path |-> data[Path[k]]])
  /\ head' = NULL /\ tail' = NULL /\ len' = 0   \* the structure is gone
  /\ UNCHANGED free_fn

\* With a release callback the list owns its data: the caller adds each once.
MayAdd(d) == list /\ (free_fn => \A n \in DOMAIN data : data[n] # d)

slist_append(d) ==
  /\ MayAdd(d)
  /\ \E n \in Nodes \ DOMAIN next :
       /\ data' = With(data, n, d)
       /\ tail' = n
       /\ IF len = 0
          THEN head' = n /\ next' = With(next, n, NULL)
          ELSE next' = With([next EXCEPT ![tail] = n], n, NULL) /\ UNCHANGED head
  /\ len' = len + 1
  /\ Returns("append", d, "ok", <<>>)
  /\ UNCHANGED <<list, free_fn>>

slist_prepend(d) ==
  /\ MayAdd(d)
  /\ \E n \in Nodes \ DOMAIN next :
       /\ data' = With(data, n, d)
       /\ head' = n
       /\ next' = With(next, n, IF len = 0 THEN NULL ELSE head)
       /\ tail' = IF len = 0 THEN n ELSE tail
  /\ len' = len + 1
  /\ Returns("prepend", d, "ok", <<>>)
  /\ UNCHANGED <<list, free_fn>>

\* Mutant: a removed tail stays the tail.
Unlink_KeepTail(k, op, arg) ==
  /\ head' = IF k = 1 THEN next[Path[k]] ELSE head
  /\ tail' = IF k = 1 /\ len = 1 THEN NULL ELSE tail
  /\ next' = [n \in DOMAIN next \ {Path[k]} |-> IF k > 1 /\ n = Path[k - 1] THEN next[Path[k]] ELSE next[n]]
  /\ data' = [n \in DOMAIN data \ {Path[k]} |-> data[n]]
  /\ len' = len - 1
  /\ Returns(op, arg, "ok", <<data[Path[k]]>>)
  /\ UNCHANGED <<list, free_fn>>

\* Mutant: the node is unlinked and not freed.
Unlink_Leak(k, op, arg) ==
  /\ head' = IF k = 1 THEN next[Path[k]] ELSE head
  /\ tail' = IF k = 1 THEN IF len = 1 THEN NULL ELSE tail ELSE IF Path[k] = tail THEN Path[k - 1] ELSE tail
  /\ next' = [n \in DOMAIN next |-> IF k > 1 /\ n = Path[k - 1] THEN next[Path[k]] ELSE next[n]]
  /\ len' = len - 1
  /\ Returns(op, arg, "ok", <<data[Path[k]]>>)
  /\ UNCHANGED <<list, free_fn, data>>

\* Take the k-th node out, release its data and free it; prev is Path[k - 1].
Unlink(k, op, arg) ==
  /\ head' = IF k = 1 THEN next[Path[k]] ELSE head
  /\ tail' = IF k = 1 THEN IF len = 1 THEN NULL ELSE tail ELSE IF Path[k] = tail THEN Path[k - 1] ELSE tail
  /\ next' = [n \in DOMAIN next \ {Path[k]} |-> IF k > 1 /\ n = Path[k - 1] THEN next[Path[k]] ELSE next[n]]
  /\ data' = [n \in DOMAIN data \ {Path[k]} |-> data[n]]
  /\ len' = len - 1
  /\ Returns(op, arg, "ok", <<data[Path[k]]>>)
  /\ UNCHANGED <<list, free_fn>>

slist_remove(d) ==
  /\ list /\ len # 0
  /\ \E k \in DOMAIN Path :
       /\ data[Path[k]] = d /\ \A i \in 1 .. k - 1 : data[Path[i]] # d
       /\ Unlink(k, "remove", d)

slist_remove_at(index) ==
  /\ list /\ index < len
  /\ Unlink(index + 1, "remove_at", index)

\* The last item is read through tail, the others by walking.
slist_get(index) ==
  /\ list
  /\ Returns("get", index,
             IF index >= len THEN NULL ELSE IF index = len - 1 THEN data[tail] ELSE data[NodeAt[index]], <<>>)
  /\ UNCHANGED <<list, head, tail, len, free_fn, next, data>>

slist_reverse ==
  /\ list
  /\ IF len < 2 THEN UNCHANGED <<head, tail, next>>
     ELSE /\ tail' = head
          /\ head' = Path[Len(Path)]
          /\ next' = [n \in DOMAIN next |->
                        IF \E k \in 2 .. Len(Path) : Path[k] = n
                        THEN Path[(CHOOSE k \in 2 .. Len(Path) : Path[k] = n) - 1] ELSE NULL]
  /\ Returns("reverse", "all", "ok", <<>>)
  /\ UNCHANGED <<list, len, free_fn, data>>

\* -1: no list, no memory for a node, a pointer or an index that is not there.
Fails(op, arg) ==
  /\ list => \/ op \in {"append", "prepend"} /\ MayAdd(arg)
             \/ op = "remove" /\ \A k \in DOMAIN Path : data[Path[k]] # arg
             \/ op = "remove_at" /\ arg >= len
  /\ ret' = <<op, arg, "fail">> /\ freed' = <<>>
  /\ UNCHANGED <<list, head, tail, len, free_fn, next, data>>

Indices == 0 .. Cardinality(Nodes)

Next ==
  \/ \E f \in BOOLEAN : slist_create(f)
  \/ slist_destroy \/ slist_reverse
  \/ \E d \in Data : slist_append(d) \/ slist_prepend(d) \/ slist_remove(d)
  \/ \E index \in Indices : slist_remove_at(index) \/ slist_get(index)
  \/ \E op \in {"append", "prepend", "remove"}, d \in Data : Fails(op, d)
  \/ \E op \in {"remove_at", "get"}, index \in Indices : Fails(op, index)

Spec == Init /\ [][Next]_vars

-----------------------------------------------------------------------------
\* The fields keep their range; the list is never longer than its memory.
TypeOK ==
  /\ list \in BOOLEAN /\ free_fn \in BOOLEAN
  /\ DOMAIN next \subseteq Nodes /\ DOMAIN data = DOMAIN next
  /\ \A n \in DOMAIN next : next[n] \in Nodes \cup {NULL} /\ data[n] \in Data
  /\ head \in DOMAIN next \cup {NULL} /\ tail \in DOMAIN next \cup {NULL}
  /\ len \in 0 .. Cardinality(Nodes)
  /\ freed \in Seq(Data)

\* Between operations no node is leaked or reachable after it was freed, and
\* tail and len, which append and get trust, agree with the walk from head.
WellLinked ==
  /\ DOMAIN next = {Path[k] : k \in DOMAIN Path}
  /\ len = Len(Path)
  /\ tail = IF len = 0 THEN NULL ELSE Path[len]

-----------------------------------------------------------------------------
Items == INSTANCE ItemSequence WITH
  exists <- list,
  owning <- free_fn,
  items  <- [k \in DOMAIN Path |-> data[Path[k]]],
  answer <- ret,
  MaxIndex <- Cardinality(Nodes) + 1

\* The list behaves as a sequence in every operation, value and release.
ImplementsSequence == Items!Spec
===============================================================================
