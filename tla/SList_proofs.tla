----------------------------- MODULE SList_proofs -----------------------------
(***************************************************************************)
(* The linked list is linked as it should be and behaves as a sequence,    *)
(* for any number of nodes.                                                *)
(***************************************************************************)
EXTENDS SList, SequencesExt, FiniteSetTheorems, SequenceTheorems, WellFoundedInduction, TLAPS

-----------------------------------------------------------------------------
(* Induction.                                                               *)

\* Induction over the natural numbers, for a set of numbers.
LEMMA NatSetInduction ==
  ASSUME NEW S, 0 \in S, \A n \in Nat : n \in S => n + 1 \in S
  PROVE  Nat \subseteq S
<1> DEFINE R == {ss \in Nat \X Nat : ss[1] < ss[2]}
<1>1. IsWellFoundedOn(R, Nat)
  BY NatLessThanWellFounded, Zenon DEF OpToRel
<1>2. \A x, y \in Nat : <<y, x>> \in R <=> y < x
  OBVIOUS
<1> HIDE DEF R
<1> SUFFICES ASSUME Nat \ S # {} PROVE FALSE
  OBVIOUS
<1>3. \E x \in Nat \ S : \A y \in Nat \ S : ~(<<y, x>> \in R)
  BY <1>1, WFMin
<1>4. PICK x \in Nat \ S : \A y \in Nat \ S : ~(y < x)
  BY <1>2, <1>3
<1>5. x # 0 /\ x - 1 \in Nat
  BY <1>4
<1>6. x - 1 \in S
  BY <1>4, <1>5
<1> QED
  BY <1>4, <1>5, <1>6

-----------------------------------------------------------------------------
(* The walk.                                                                *)

Steps(n) == IF n \in DOMAIN next THEN next[n] ELSE NULL

LEMMA NodesCount == Cardinality(Nodes) \in Nat
BY ListAssumption, FS_CardinalityType

\* The walk from head exists for every number of steps.
LEMMA WalkExists ==
  ASSUME NEW N \in Nat
  PROVE  \E f : f = [k \in 0 .. N |-> IF k = 0 THEN head ELSE Steps(f[k - 1])]
<1> DEFINE Good(f, n) == f = [k \in 0 .. n |-> IF k = 0 THEN head ELSE Steps(f[k - 1])]
           S == {n \in Nat : \E f : Good(f, n)}
<1>1. 0 \in S
  <2>1. Good([k \in 0 .. 0 |-> head], 0)
    OBVIOUS
  <2> QED
    BY <2>1
<1>2. ASSUME NEW n \in Nat, n \in S PROVE n + 1 \in S
  <2>1. PICK f : Good(f, n)
    BY <1>2
  <2> DEFINE g == [k \in 0 .. n + 1 |-> IF k <= n THEN f[k] ELSE Steps(f[n])]
  <2>2. \A k \in 0 .. n + 1 : g[k] = IF k = 0 THEN head ELSE Steps(g[k - 1])
    <3> TAKE k \in 0 .. n + 1
    <3>1. CASE k = 0
      BY <2>1, <3>1
    <3>2. CASE k # 0 /\ k <= n
      BY <2>1, <3>2
    <3>3. CASE k = n + 1
      BY <2>1, <3>3
    <3> QED
      BY <3>1, <3>2, <3>3
  <2>3. Good(g, n + 1)
    BY <2>2
  <2> HIDE DEF Good, g
  <2> QED
    BY <2>3
<1> HIDE DEF Good, S
<1>3. Nat \subseteq S
  BY <1>1, <1>2, NatSetInduction
<1> QED
  BY <1>3 DEF S, Good

\* The recursive definition of the walk defines it.
LEMMA NodeAtIs ==
  /\ NodeAt = [k \in 0 .. Cardinality(Nodes) |-> IF k = 0 THEN head ELSE Steps(NodeAt[k - 1])]
  /\ DOMAIN NodeAt = 0 .. Cardinality(Nodes)
<1>1. \E f : f = [k \in 0 .. Cardinality(Nodes) |-> IF k = 0 THEN head ELSE Steps(f[k - 1])]
  BY NodesCount, WalkExists
<1>2. NodeAt = [k \in 0 .. Cardinality(Nodes) |-> IF k = 0 THEN head ELSE Steps(NodeAt[k - 1])]
  BY <1>1, Zenon DEF NodeAt, Steps
<1>3. DOMAIN NodeAt = 0 .. Cardinality(Nodes)
  BY <1>2
<1> QED
  BY <1>2, <1>3

-----------------------------------------------------------------------------
(* The shape of the list.                                                   *)

\* The live nodes are those of p, linked in its order from head to tail.
Chain(p) ==
  /\ p \in Seq(Nodes) /\ \A i, k \in DOMAIN p : p[i] = p[k] => i = k
  /\ DOMAIN next = {p[i] : i \in DOMAIN p} /\ len = Len(p)
  /\ head = IF p = <<>> THEN NULL ELSE p[1]
  /\ tail = IF p = <<>> THEN NULL ELSE p[Len(p)]
  /\ \A i \in DOMAIN p : next[p[i]] = IF i < Len(p) THEN p[i + 1] ELSE NULL

\* Distinct nodes are no more than there are.
LEMMA ChainLength ==
  ASSUME NEW p \in Seq(Nodes), \A i, k \in DOMAIN p : p[i] = p[k] => i = k
  PROVE  Len(p) <= Cardinality(Nodes)
<1>1. Len(p) \in Nat /\ DOMAIN p = 1 .. Len(p) /\ p \in [1 .. Len(p) -> Nodes]
  BY LenProperties
<1>2. p \in Injection(1 .. Len(p), Nodes)
  BY <1>1 DEF Injection, IsInjective
<1>3. Cardinality(1 .. Len(p)) <= Cardinality(Nodes)
  BY <1>2, ListAssumption, FS_Injection
<1>4. Cardinality(1 .. Len(p)) = Len(p)
  BY <1>1, FS_Interval
<1> QED
  BY <1>3, <1>4

\* The walk visits the nodes of the chain and then stays at NULL.
LEMMA ChainWalk ==
  ASSUME NEW p, Chain(p)
  PROVE  \A k \in 0 .. Cardinality(Nodes) : NodeAt[k] = IF k < Len(p) THEN p[k + 1] ELSE NULL
<1> DEFINE At(k) == IF k < Len(p) THEN p[k + 1] ELSE NULL
           S == {k \in Nat : k <= Cardinality(Nodes) => NodeAt[k] = At(k)}
<1>0. /\ Len(p) \in Nat /\ DOMAIN p = 1 .. Len(p) /\ \A i \in 1 .. Len(p) : p[i] \in Nodes
      /\ NULL \notin Nodes /\ Cardinality(Nodes) \in Nat
  BY NodesCount, ListAssumption DEF Chain
<1>1. \A k \in 0 .. Cardinality(Nodes) : NodeAt[k] = IF k = 0 THEN head ELSE Steps(NodeAt[k - 1])
  BY NodeAtIs
<1>2. 0 \in S
  <2>1. NodeAt[0] = head
    BY <1>0, <1>1
  <2>2. p = <<>> <=> Len(p) = 0
    BY DEF Chain
  <2> QED
    BY <1>0, <2>1, <2>2 DEF Chain
<1>3. ASSUME NEW n \in Nat, n \in S PROVE n + 1 \in S
  <2> SUFFICES ASSUME n + 1 <= Cardinality(Nodes) PROVE NodeAt[n + 1] = At(n + 1)
    OBVIOUS
  <2>1. NodeAt[n + 1] = Steps(NodeAt[n])
    <3>1. n + 1 \in 0 .. Cardinality(Nodes) /\ n + 1 # 0 /\ (n + 1) - 1 = n
      BY <1>0
    <3> QED
      BY <1>1, <3>1
  <2>2. NodeAt[n] = At(n)
    BY <1>0, <1>3
  <2>3. CASE n < Len(p)
    <3>1. n + 1 \in DOMAIN p /\ NodeAt[n] = p[n + 1]
      BY <1>0, <2>2, <2>3
    <3>2. Steps(NodeAt[n]) = IF n + 1 < Len(p) THEN p[n + 2] ELSE NULL
      BY <3>1 DEF Chain, Steps
    <3> QED
      BY <2>1, <3>2
  <2>4. CASE ~(n < Len(p))
    <3>1. NodeAt[n] = NULL /\ NULL \notin DOMAIN next
      BY <1>0, <2>2, <2>4 DEF Chain
    <3> QED
      BY <1>0, <2>1, <2>4, <3>1 DEF Steps
  <2> QED
    BY <1>0, <2>3, <2>4
<1> HIDE DEF S, At
<1>4. Nat \subseteq S
  BY <1>2, <1>3, NatSetInduction
<1> QED
  BY <1>0, <1>4 DEF S, At

\* SLIST_FOREACH visits the chain.
LEMMA ChainIsPath == \A p : Chain(p) => Path = p
<1> TAKE p
<1> HAVE Chain(p)
<1>1. /\ Len(p) \in Nat /\ p \in Seq(Nodes) /\ DOMAIN p = 1 .. Len(p) /\ \A i \in 1 .. Len(p) : p[i] \in Nodes
      /\ NULL \notin Nodes /\ Cardinality(Nodes) \in Nat /\ Len(p) <= Cardinality(Nodes)
  BY NodesCount, ListAssumption, ChainLength DEF Chain
<1> DEFINE reached == {k \in DOMAIN NodeAt : \A i \in 0 .. k : NodeAt[i] # NULL}
<1>2. reached = 0 .. Len(p) - 1
  <2>1. DOMAIN NodeAt = 0 .. Cardinality(Nodes)
    BY NodeAtIs
  <2>2. \A k \in 0 .. Cardinality(Nodes) : NodeAt[k] = IF k < Len(p) THEN p[k + 1] ELSE NULL
    BY ChainWalk
  <2>3. \A k \in 0 .. Cardinality(Nodes) : NodeAt[k] # NULL <=> k < Len(p)
    BY <1>1, <2>2
  <2> QED
    BY <1>1, <2>1, <2>3
<1>3. Cardinality(reached) = Len(p)
  <2>0. \A m \in Int : Cardinality(0 .. m) = IF 0 > m THEN 0 ELSE m - 0 + 1
    BY FS_Interval
  <2>1. Len(p) - 1 \in Int /\ (IF 0 > Len(p) - 1 THEN 0 ELSE (Len(p) - 1) - 0 + 1) = Len(p)
    BY <1>1
  <2>2. Cardinality(0 .. Len(p) - 1) = IF 0 > Len(p) - 1 THEN 0 ELSE (Len(p) - 1) - 0 + 1
    BY <2>0, <2>1
  <2> HIDE DEF reached
  <2> QED
    BY <1>2, <2>1, <2>2
<1>4. Path = [k \in 1 .. Len(p) |-> NodeAt[k - 1]]
  BY <1>3 DEF Path
<1>5. \A k \in 1 .. Len(p) : NodeAt[k - 1] = p[k]
  <2>1. \A k \in 1 .. Len(p) : k - 1 \in 0 .. Cardinality(Nodes) /\ k - 1 < Len(p) /\ (k - 1) + 1 = k
    BY <1>1
  <2> QED
    BY <2>1, ChainWalk
<1>6. p = [k \in 1 .. Len(p) |-> p[k]]
  BY <1>1
<1> QED
  BY <1>4, <1>5, <1>6

-----------------------------------------------------------------------------
(* The inductive invariant, and what each operation does to the chain.      *)

\* The parts of TypeOK that the chain says nothing of.
DataOK ==
  /\ list \in BOOLEAN /\ free_fn \in BOOLEAN
  /\ DOMAIN data = DOMAIN next /\ \A n \in DOMAIN next : data[n] \in Data
  /\ freed \in Seq(Data)

ListInv == Chain(Path) /\ DataOK /\ (~list => len = 0)

\* What the chain says of the list, for the proofs below.
LEMMA ChainFacts ==
  ASSUME NEW p, Chain(p)
  PROVE  /\ p \in Seq(Nodes) /\ Len(p) \in Nat /\ DOMAIN p = 1 .. Len(p) /\ len = Len(p)
         /\ \A i \in 1 .. Len(p) : p[i] \in Nodes /\ p[i] \in DOMAIN next
         /\ \A i, k \in 1 .. Len(p) : p[i] = p[k] => i = k
         /\ \A n \in DOMAIN next : \E i \in 1 .. Len(p) : n = p[i]
         /\ head = IF Len(p) = 0 THEN NULL ELSE p[1]
         /\ tail = IF Len(p) = 0 THEN NULL ELSE p[Len(p)]
         /\ \A i \in 1 .. Len(p) : next[p[i]] = IF i < Len(p) THEN p[i + 1] ELSE NULL
<1>1. p \in Seq(Nodes) /\ Len(p) \in Nat /\ DOMAIN p = 1 .. Len(p) /\ (p = <<>> <=> Len(p) = 0)
  BY DEF Chain
<1>2. \A i \in 1 .. Len(p) : p[i] \in Nodes /\ p[i] \in DOMAIN next
  BY <1>1 DEF Chain
<1>3. \A n \in DOMAIN next : \E i \in 1 .. Len(p) : n = p[i]
  BY <1>1 DEF Chain
<1>4. /\ \A i, k \in 1 .. Len(p) : p[i] = p[k] => i = k
      /\ \A i \in 1 .. Len(p) : next[p[i]] = IF i < Len(p) THEN p[i + 1] ELSE NULL
  BY <1>1 DEF Chain
<1>5. /\ len = Len(p)
      /\ head = IF Len(p) = 0 THEN NULL ELSE p[1]
      /\ tail = IF Len(p) = 0 THEN NULL ELSE p[Len(p)]
  BY <1>1 DEF Chain
<1> QED
  BY <1>1, <1>2, <1>3, <1>4, <1>5

\* Enough to make p the chain.
LinkedAs(p) ==
  /\ p \in Seq(Nodes) /\ \A i, k \in 1 .. Len(p) : p[i] = p[k] => i = k
  /\ DOMAIN next = {p[i] : i \in 1 .. Len(p)} /\ len = Len(p)
  /\ head = IF Len(p) = 0 THEN NULL ELSE p[1]
  /\ tail = IF Len(p) = 0 THEN NULL ELSE p[Len(p)]
  /\ \A i \in 1 .. Len(p) : next[p[i]] = IF i < Len(p) THEN p[i + 1] ELSE NULL

LEMMA ChainMade == \A p : LinkedAs(p) => Chain(Path) /\ Path = p
<1> TAKE p
<1> HAVE LinkedAs(p)
<1>1. Len(p) \in Nat /\ DOMAIN p = 1 .. Len(p) /\ (p = <<>> <=> Len(p) = 0)
  BY DEF LinkedAs
<1>2. Chain(p)
  BY <1>1 DEF Chain, LinkedAs
<1> QED
  BY <1>2, ChainIsPath

LEMMA ChainMadeNext == (\A p : LinkedAs(p) => Chain(Path) /\ Path = p)'
BY ChainMade, PTL

LEMMA AppendPath ==
  ASSUME ListInv, NEW d \in Data, slist_append(d)
  PROVE  \E n \in Nodes \ DOMAIN next :
           /\ Path' = Append(Path, n) /\ Chain(Path)'
           /\ data' = With(data, n, d)
<1>1. PICK n \in Nodes \ DOMAIN next :
        /\ data' = With(data, n, d) /\ tail' = n /\ len' = len + 1
        /\ IF len = 0
           THEN head' = n /\ next' = With(next, n, NULL)
           ELSE next' = With([next EXCEPT ![tail] = n], n, NULL) /\ head' = head
  BY DEF slist_append
<1>2. PICK p : p = Path
  OBVIOUS
<1>3. /\ p \in Seq(Nodes) /\ Len(p) \in Nat /\ len = Len(p)
      /\ \A i \in 1 .. Len(p) : p[i] \in Nodes /\ p[i] \in DOMAIN next
      /\ \A i, k \in 1 .. Len(p) : p[i] = p[k] => i = k
      /\ \A m \in DOMAIN next : \E i \in 1 .. Len(p) : m = p[i]
      /\ head = IF Len(p) = 0 THEN NULL ELSE p[1]
      /\ tail = IF Len(p) = 0 THEN NULL ELSE p[Len(p)]
      /\ \A i \in 1 .. Len(p) : next[p[i]] = IF i < Len(p) THEN p[i + 1] ELSE NULL
  <2>1. Chain(p)
    BY <1>2 DEF ListInv
  <2> QED
    BY <2>1, ChainFacts
<1> DEFINE q == Append(p, n)
<1>4. /\ q \in Seq(Nodes) /\ Len(q) = Len(p) + 1 /\ q[Len(p) + 1] = n
      /\ \A i \in 1 .. Len(p) : q[i] = p[i]
  BY <1>3
<1> HIDE DEF q
<1>5. /\ DOMAIN next' = DOMAIN next \cup {n} /\ next'[n] = NULL
      /\ \A m \in DOMAIN next : next'[m] = IF len # 0 /\ m = tail THEN n ELSE next[m]
  <2>1. CASE len = 0
    BY <1>1, <2>1 DEF With
  <2>2. CASE len # 0
    <3> DEFINE f == [next EXCEPT ![tail] = n]
    <3>1. DOMAIN f = DOMAIN next /\ \A m \in DOMAIN next : f[m] = IF m = tail THEN n ELSE next[m]
      OBVIOUS
    <3>2. next' = With(f, n, NULL)
      BY <1>1, <2>2
    <3> HIDE DEF f
    <3> QED
      BY <2>2, <3>1, <3>2 DEF With
  <2> QED
    BY <2>1, <2>2
<1>6. \A i, k \in 1 .. Len(q) : q[i] = q[k] => i = k
  BY <1>3, <1>4
<1>7. DOMAIN next' = {q[i] : i \in 1 .. Len(q)}
  <2>1. ASSUME NEW i \in 1 .. Len(q) PROVE q[i] \in DOMAIN next'
    <3>1. i \in 1 .. Len(p) \/ i = Len(p) + 1
      BY <1>3, <1>4
    <3> QED
      BY <1>3, <1>4, <1>5, <3>1
  <2>2. \A m \in DOMAIN next' : \E i \in 1 .. Len(q) : m = q[i]
    <3>1. ASSUME NEW m \in DOMAIN next PROVE \E i \in 1 .. Len(q) : m = q[i]
      <4>1. PICK i \in 1 .. Len(p) : m = p[i]
        BY <1>3
      <4>2. i \in 1 .. Len(q) /\ m = q[i]
        BY <1>3, <1>4, <4>1
      <4> QED
        BY <4>2
    <3>2. Len(q) \in 1 .. Len(q) /\ q[Len(q)] = n
      BY <1>3, <1>4
    <3> QED
      BY <1>5, <3>1, <3>2
  <2> QED
    BY <2>1, <2>2
<1>8. /\ len' = Len(q) /\ head' = (IF Len(q) = 0 THEN NULL ELSE q[1])
      /\ tail' = (IF Len(q) = 0 THEN NULL ELSE q[Len(q)])
  BY <1>1, <1>3, <1>4
<1>9. \A i \in 1 .. Len(q) : next'[q[i]] = IF i < Len(q) THEN q[i + 1] ELSE NULL
  <2> TAKE i \in 1 .. Len(q)
  <2>1. CASE i = Len(p) + 1
    <3>1. q[i] = n /\ Len(q) = Len(p) + 1
      BY <1>4, <2>1
    <3> QED
      BY <1>3, <1>5, <2>1, <3>1
  <2>2. CASE i = Len(p)
    <3>1. i \in 1 .. Len(p) /\ q[i] = p[i] /\ q[i + 1] = n /\ p[i] = tail /\ p[i] \in DOMAIN next /\ len # 0
      BY <1>3, <1>4, <2>2
    <3>2. next'[q[i]] = n
      BY <1>5, <3>1
    <3> QED
      BY <1>3, <1>4, <2>2, <3>1, <3>2
  <2>3. CASE i < Len(p)
    <3>1. i \in 1 .. Len(p) /\ i + 1 \in 1 .. Len(p) /\ q[i] = p[i] /\ q[i + 1] = p[i + 1] /\ p[i] # tail
      BY <1>3, <1>4, <2>3
    <3>2. next'[q[i]] = p[i + 1]
      BY <1>3, <1>5, <2>3, <3>1
    <3> QED
      BY <1>3, <1>4, <2>3, <3>1, <3>2
  <2> QED
    BY <1>3, <1>4, <2>1, <2>2, <2>3
<1>10. Chain(Path)' /\ Path' = q
  <2>1. PICK r : r = q
    OBVIOUS
  <2>2. LinkedAs(r)'
    BY <1>4, <1>6, <1>7, <1>8, <1>9, <2>1 DEF LinkedAs
  <2> QED
    BY <2>1, <2>2, ChainMadeNext
<1> QED
  BY <1>1, <1>2, <1>10 DEF q

LEMMA PrependPath ==
  ASSUME ListInv, NEW d \in Data, slist_prepend(d)
  PROVE  \E n \in Nodes \ DOMAIN next :
           /\ Path' = <<n>> \o Path /\ Chain(Path)'
           /\ data' = With(data, n, d)
<1>1. PICK n \in Nodes \ DOMAIN next :
        /\ data' = With(data, n, d) /\ head' = n /\ len' = len + 1
        /\ next' = With(next, n, IF len = 0 THEN NULL ELSE head)
        /\ tail' = IF len = 0 THEN n ELSE tail
  BY DEF slist_prepend
<1>2. PICK p : p = Path
  OBVIOUS
<1>3. Chain(p)
  BY <1>2 DEF ListInv
<1>f1. Len(p) \in Nat /\ p \in Seq(Nodes) /\ DOMAIN p = 1 .. Len(p) /\ len = Len(p)
  BY <1>3, ChainFacts
<1>f2. \A i \in 1 .. Len(p) : p[i] \in Nodes /\ p[i] \in DOMAIN next
  BY <1>3, ChainFacts
<1>f3. \A i, j \in 1 .. Len(p) : p[i] = p[j] => i = j
  BY <1>3, ChainFacts
<1>f4. \A m \in DOMAIN next : \E i \in 1 .. Len(p) : m = p[i]
  BY <1>3, ChainFacts
<1>f5. head = (IF Len(p) = 0 THEN NULL ELSE p[1]) /\ tail = (IF Len(p) = 0 THEN NULL ELSE p[Len(p)])
  BY <1>3, ChainFacts
<1>f6. \A i \in 1 .. Len(p) : next[p[i]] = IF i < Len(p) THEN p[i + 1] ELSE NULL
  BY <1>3, ChainFacts
<1> DEFINE q == <<n>> \o p
<1>4. /\ q \in Seq(Nodes) /\ Len(q) = Len(p) + 1 /\ q[1] = n
      /\ \A i \in 1 .. Len(p) : q[i + 1] = p[i]
  BY <1>f1
<1> HIDE DEF q
<1>5. /\ DOMAIN next' = DOMAIN next \cup {n} /\ next'[n] = IF len = 0 THEN NULL ELSE head
      /\ \A m \in DOMAIN next : next'[m] = next[m]
  BY <1>1 DEF With
<1>6. \A i \in 1 .. Len(q) : i = 1 \/ (i - 1 \in 1 .. Len(p) /\ q[i] = p[i - 1])
  BY <1>f1, <1>4
<1>7. \A i, k \in 1 .. Len(q) : q[i] = q[k] => i = k
  <2> SUFFICES ASSUME NEW i \in 1 .. Len(q), NEW k \in 1 .. Len(q), q[i] = q[k] PROVE i = k
    OBVIOUS
  <2>1. i # 1 => q[i] \in DOMAIN next
    BY <1>6, <1>f2
  <2>2. k # 1 => q[k] \in DOMAIN next
    BY <1>6, <1>f2
  <2>3. CASE i # 1 /\ k # 1
    <3>1. i - 1 \in 1 .. Len(p) /\ k - 1 \in 1 .. Len(p) /\ p[i - 1] = p[k - 1]
      BY <1>6, <2>3
    <3>2. i - 1 = k - 1
      BY <1>f3, <3>1
    <3> QED
      BY <1>f1, <1>4, <3>2
  <2> QED
    BY <1>4, <2>1, <2>2, <2>3
<1>8. DOMAIN next' = {q[i] : i \in 1 .. Len(q)}
  <2>1. \A i \in 1 .. Len(q) : q[i] \in DOMAIN next'
    BY <1>f2, <1>4, <1>5, <1>6
  <2>2. \A m \in DOMAIN next' : \E i \in 1 .. Len(q) : m = q[i]
    <3>1. ASSUME NEW m \in DOMAIN next PROVE \E i \in 1 .. Len(q) : m = q[i]
      <4>1. PICK i \in 1 .. Len(p) : m = p[i]
        BY <1>f4
      <4>2. i + 1 \in 1 .. Len(q) /\ m = q[i + 1]
        BY <1>f1, <1>4, <4>1
      <4> QED
        BY <4>2
    <3>2. 1 \in 1 .. Len(q) /\ q[1] = n
      BY <1>f1, <1>4
    <3> QED
      BY <1>5, <3>1, <3>2
  <2> QED
    BY <2>1, <2>2
<1>9. /\ len' = Len(q) /\ head' = (IF Len(q) = 0 THEN NULL ELSE q[1])
      /\ tail' = (IF Len(q) = 0 THEN NULL ELSE q[Len(q)])
  <2>1. Len(q) \in 1 .. Len(q) /\ (Len(p) # 0 => Len(p) \in 1 .. Len(p))
    BY <1>f1, <1>4
  <2> QED
    <3>1. len' = Len(q) /\ Len(q) # 0 /\ head' = q[1]
      BY <1>1, <1>f1, <1>4, <2>1
    <3>2. CASE Len(p) = 0
      BY <1>1, <1>f1, <1>4, <3>1, <3>2
    <3>3. CASE Len(p) # 0
      <4>1. q[Len(q)] = p[Len(p)]
        BY <1>4, <2>1, <3>3
      <4> QED
        BY <1>1, <1>f1, <1>f5, <3>1, <3>3, <4>1
    <3> QED
      BY <3>2, <3>3
<1>10. \A i \in 1 .. Len(q) : next'[q[i]] = IF i < Len(q) THEN q[i + 1] ELSE NULL
  <2> TAKE i \in 1 .. Len(q)
  <2>1. CASE i = 1
    <3>1. Len(p) # 0 => 1 \in 1 .. Len(p) /\ q[1 + 1] = p[1] /\ head = p[1]
      BY <1>f1, <1>f5, <1>4
    <3> QED
      BY <1>f1, <1>4, <1>5, <2>1, <3>1
  <2>2. CASE i # 1
    <3>1. i - 1 \in 1 .. Len(p) /\ q[i] = p[i - 1] /\ p[i - 1] \in DOMAIN next
      BY <1>f2, <1>6, <2>2
    <3>2. next'[q[i]] = IF i - 1 < Len(p) THEN p[i] ELSE NULL
      <4>1. next'[q[i]] = next[p[i - 1]]
        BY <1>5, <3>1
      <4>2. next[p[i - 1]] = IF i - 1 < Len(p) THEN p[(i - 1) + 1] ELSE NULL
        BY <1>f6, <3>1
      <4>3. (i - 1) + 1 = i
        OBVIOUS
      <4> QED
        BY <4>1, <4>2, <4>3
    <3>3. i < Len(q) => i \in 1 .. Len(p) /\ q[i + 1] = p[i]
      BY <1>f1, <1>4, <3>1
    <3> QED
      BY <1>f1, <1>4, <3>1, <3>2, <3>3
  <2> QED
    BY <2>1, <2>2
<1>11. Chain(Path)' /\ Path' = q
  <2>1. PICK r : r = q
    OBVIOUS
  <2>2. LinkedAs(r)'
    BY <1>4, <1>7, <1>8, <1>9, <1>10, <2>1 DEF LinkedAs
  <2> QED
    BY <2>1, <2>2, ChainMadeNext
<1> QED
  BY <1>1, <1>2, <1>11 DEF q

\* The sequence s without its k-th element.
Without(s, k) == [i \in 1 .. Len(s) - 1 |-> IF i < k THEN s[i] ELSE s[i + 1]]

LEMMA UnlinkPath ==
  ASSUME ListInv, NEW k \in DOMAIN Path, NEW op, NEW arg, Unlink(k, op, arg)
  PROVE  Path' = Without(Path, k) /\ Chain(Path)'
<1>2. PICK p : p = Path
  OBVIOUS
<1>3. Chain(p) /\ k \in 1 .. Len(p) /\ Len(p) \in Nat
  BY <1>2, ChainFacts DEF ListInv
<1>f1. Len(p) \in Nat /\ p \in Seq(Nodes) /\ DOMAIN p = 1 .. Len(p) /\ len = Len(p)
  BY <1>3, ChainFacts
<1>f2. \A i \in 1 .. Len(p) : p[i] \in Nodes /\ p[i] \in DOMAIN next
  BY <1>3, ChainFacts
<1>f3. \A i, j \in 1 .. Len(p) : p[i] = p[j] => i = j
  BY <1>3, ChainFacts
<1>f4. \A m \in DOMAIN next : \E i \in 1 .. Len(p) : m = p[i]
  BY <1>3, ChainFacts
<1>f5. head = (IF Len(p) = 0 THEN NULL ELSE p[1]) /\ tail = (IF Len(p) = 0 THEN NULL ELSE p[Len(p)])
  BY <1>3, ChainFacts
<1>f6. \A i \in 1 .. Len(p) : next[p[i]] = IF i < Len(p) THEN p[i + 1] ELSE NULL
  BY <1>3, ChainFacts
<1>1. /\ head' = IF k = 1 THEN next[p[k]] ELSE head
      /\ tail' = IF k = 1 THEN IF len = 1 THEN NULL ELSE tail ELSE IF p[k] = tail THEN p[k - 1] ELSE tail
      /\ next' = [n \in DOMAIN next \ {p[k]} |-> IF k > 1 /\ n = p[k - 1] THEN next[p[k]] ELSE next[n]]
      /\ len' = len - 1
  BY <1>2 DEF Unlink
<1> DEFINE q == Without(p, k)
<1>4. /\ q \in Seq(Nodes) /\ Len(q) = Len(p) - 1
      /\ \A i \in 1 .. Len(q) : q[i] = IF i < k THEN p[i] ELSE p[i + 1]
  <2>1. \A i \in 1 .. Len(p) - 1 : i \in 1 .. Len(p) /\ i + 1 \in 1 .. Len(p)
    BY <1>3
  <2>2. q \in [1 .. Len(p) - 1 -> Nodes] /\ Len(p) - 1 \in Nat
    BY <1>3, <1>f2, <2>1 DEF Without
  <2>3. q \in Seq(Nodes) /\ Len(q) = Len(p) - 1
    BY <2>2
  <2> QED
    BY <2>3 DEF Without
<1> HIDE DEF q
<1>5. \A i \in 1 .. Len(q) : i \in 1 .. Len(p) /\ i + 1 \in 1 .. Len(p)
  BY <1>3, <1>4
<1>6. \A i, j \in 1 .. Len(q) : q[i] = q[j] => i = j
  <2> SUFFICES ASSUME NEW i \in 1 .. Len(q), NEW j \in 1 .. Len(q), q[i] = q[j] PROVE i = j
    OBVIOUS
  <2>1. (IF i < k THEN i ELSE i + 1) = (IF j < k THEN j ELSE j + 1)
    <3> DEFINE a == IF i < k THEN i ELSE i + 1
               b == IF j < k THEN j ELSE j + 1
    <3>1. a \in 1 .. Len(p) /\ b \in 1 .. Len(p)
      BY <1>5
    <3>2. q[i] = p[a] /\ q[j] = p[b]
      BY <1>4
    <3> HIDE DEF a, b
    <3>3. a = b
      BY <1>f3, <3>1, <3>2
    <3> QED
      BY <3>3 DEF a, b
  <2> QED
    BY <1>3, <2>1
<1>7. DOMAIN next' = {q[i] : i \in 1 .. Len(q)}
  <2>0. DOMAIN next' = DOMAIN next \ {p[k]}
    BY <1>1
  <2>1. ASSUME NEW i \in 1 .. Len(q) PROVE q[i] \in DOMAIN next'
    <3>1. PICK j \in 1 .. Len(p) : j # k /\ q[i] = p[j]
      <4>1. CASE i < k
        BY <1>3, <1>4, <1>5, <4>1
      <4>2. CASE ~(i < k)
        <5>1. i + 1 \in 1 .. Len(p) /\ i + 1 # k /\ q[i] = p[i + 1]
          BY <1>3, <1>4, <1>5, <4>2
        <5> QED
          BY <5>1
      <4> QED
        BY <4>1, <4>2
    <3> QED
      BY <1>3, <1>f2, <1>f3, <2>0, <3>1
  <2>2. ASSUME NEW m \in DOMAIN next' PROVE \E i \in 1 .. Len(q) : m = q[i]
    <3>1. PICK i \in 1 .. Len(p) : m = p[i]
      BY <1>f4, <2>0, <2>2
    <3>2. i # k
      BY <2>0, <2>2, <3>1
    <3>3. CASE i < k
      <4>1. i \in 1 .. Len(q) /\ q[i] = p[i]
        BY <1>3, <1>4, <3>3
      <4> QED
        BY <3>1, <4>1
    <3>4. CASE i > k
      <4>1. i - 1 \in 1 .. Len(q) /\ ~(i - 1 < k) /\ (i - 1) + 1 = i
        BY <1>3, <1>4, <3>4
      <4>2. q[i - 1] = p[i]
        BY <1>4, <4>1
      <4> QED
        BY <3>1, <4>1, <4>2
    <3> QED
      BY <1>3, <3>2, <3>3, <3>4
  <2> QED
    BY <2>1, <2>2
<1>8. /\ len' = Len(q) /\ head' = (IF Len(q) = 0 THEN NULL ELSE q[1])
      /\ tail' = (IF Len(q) = 0 THEN NULL ELSE q[Len(q)])
  <2>0. len = Len(p) /\ head = p[1] /\ tail = p[Len(p)] /\ next[p[k]] = IF k < Len(p) THEN p[k + 1] ELSE NULL
    BY <1>3, <1>f1, <1>f5, <1>f6
  <2>1. len' = Len(q)
    BY <1>1, <1>4, <2>0
  <2>2. CASE Len(q) = 0
    BY <1>1, <1>3, <1>4, <2>0, <2>1, <2>2
  <2>3. CASE Len(q) # 0
    <3>1. 1 \in 1 .. Len(q) /\ Len(q) \in 1 .. Len(q)
      BY <1>3, <1>4, <2>3
    <3>2. head' = q[1]
      BY <1>1, <1>3, <1>4, <2>0, <2>3, <3>1
    <3>3. p[k] = tail <=> k = Len(p)
      <4>1. Len(p) \in 1 .. Len(p)
        BY <1>3
      <4> QED
        BY <1>3, <1>f3, <2>0, <4>1
    <3>4. q[Len(q)] = IF k = Len(p) THEN p[Len(p) - 1] ELSE p[Len(p)]
      BY <1>3, <1>4, <3>1
    <3>5. tail' = q[Len(q)]
      BY <1>1, <1>3, <1>4, <2>0, <2>3, <3>3, <3>4
    <3> QED
      BY <2>1, <2>3, <3>2, <3>5
  <2> QED
    BY <2>2, <2>3
<1>9. \A i \in 1 .. Len(q) : next'[q[i]] = IF i < Len(q) THEN q[i + 1] ELSE NULL
  <2> TAKE i \in 1 .. Len(q)
  <2>0. q[i] \in DOMAIN next'
    BY <1>7
  <2>1. next'[q[i]] = IF k > 1 /\ q[i] = p[k - 1] THEN next[p[k]] ELSE next[q[i]]
    BY <1>1, <2>0
  <2>2. i < Len(q) => q[i + 1] = IF i + 1 < k THEN p[i + 1] ELSE p[i + 2]
    <3>1. i < Len(q) => i + 1 \in 1 .. Len(q) /\ (i + 1) + 1 = i + 2
      BY <1>3, <1>4
    <3> QED
      BY <1>4, <3>1
  <2>3. CASE i = k - 1
    <3>1. q[i] = p[k - 1] /\ k > 1 /\ next[p[k]] = IF k < Len(p) THEN p[k + 1] ELSE NULL
      <4>1. i < k /\ k > 1
        BY <1>3, <2>3
      <4> QED
        BY <1>3, <1>4, <1>f6, <2>3, <4>1
    <3>2. next'[q[i]] = IF k < Len(p) THEN p[k + 1] ELSE NULL
      BY <2>1, <3>1
    <3>3. (i < Len(q) <=> k < Len(p)) /\ i + 2 = k + 1 /\ ~(i + 1 < k)
      BY <1>3, <1>4, <2>3
    <3> QED
      BY <2>2, <3>2, <3>3
  <2>4. CASE i < k - 1
    <3>1. q[i] = p[i] /\ p[i] # p[k - 1] /\ next[p[i]] = p[i + 1]
      <4>1. i < k /\ i \in 1 .. Len(p) /\ k - 1 \in 1 .. Len(p) /\ i # k - 1 /\ i < Len(p)
        BY <1>3, <1>5, <2>4
      <4> QED
        BY <1>4, <1>f3, <1>f6, <4>1
    <3>2. i < Len(q) /\ i + 1 < k
      BY <1>3, <1>4, <2>4
    <3> QED
      BY <2>1, <2>2, <3>1, <3>2
  <2>5. CASE i >= k
    <3>1. q[i] = p[i + 1] /\ (k > 1 => p[i + 1] # p[k - 1])
      <4>1. ~(i < k) /\ i + 1 \in 1 .. Len(p) /\ (k > 1 => k - 1 \in 1 .. Len(p) /\ i + 1 # k - 1)
        BY <1>3, <1>5, <2>5
      <4>2. q[i] = p[i + 1]
        BY <1>4, <4>1
      <4>3. k > 1 => p[i + 1] # p[k - 1]
        BY <1>f3, <4>1
      <4> QED
        BY <4>2, <4>3
    <3>2. next[p[i + 1]] = IF i + 1 < Len(p) THEN p[i + 2] ELSE NULL
      <4>1. \A j \in 1 .. Len(p) : next[p[j]] = IF j < Len(p) THEN p[j + 1] ELSE NULL
        BY <1>f6
      <4>2. i + 1 \in 1 .. Len(p) /\ (i + 1) + 1 = i + 2
        BY <1>5
      <4> QED
        BY <4>1, <4>2
    <3>3. (i < Len(q) <=> i + 1 < Len(p)) /\ ~(i + 1 < k)
      BY <1>3, <1>4, <2>5
    <3> QED
      BY <2>1, <2>2, <3>1, <3>2, <3>3
  <2> QED
    BY <1>3, <2>3, <2>4, <2>5
<1>10. Chain(Path)' /\ Path' = q
  <2>1. PICK r : r = q
    OBVIOUS
  <2>2. r \in Seq(Nodes) /\ \A i, j \in 1 .. Len(r) : r[i] = r[j] => i = j
    BY <1>4, <1>6, <2>1
  <2>3. DOMAIN next' = {r[i] : i \in 1 .. Len(r)}
    BY <1>7, <2>1
  <2>4. LinkedAs(r)'
    BY <1>8, <1>9, <2>1, <2>2, <2>3 DEF LinkedAs
  <2> QED
    BY <2>1, <2>4, ChainMadeNext
<1> QED
  BY <1>2, <1>10 DEF q

LEMMA ReversePath ==
  ASSUME ListInv, slist_reverse
  PROVE  Path' = Reverse(Path) /\ Chain(Path)'
<1>2. PICK p : p = Path
  OBVIOUS
<1>3. Chain(p)
  BY <1>2 DEF ListInv
<1>f1. Len(p) \in Nat /\ p \in Seq(Nodes) /\ DOMAIN p = 1 .. Len(p) /\ len = Len(p)
  BY <1>3, ChainFacts
<1>f2. \A i \in 1 .. Len(p) : p[i] \in Nodes /\ p[i] \in DOMAIN next
  BY <1>3, ChainFacts
<1>f3. \A i, j \in 1 .. Len(p) : p[i] = p[j] => i = j
  BY <1>3, ChainFacts
<1>f4. \A m \in DOMAIN next : \E i \in 1 .. Len(p) : m = p[i]
  BY <1>3, ChainFacts
<1>f5. head = (IF Len(p) = 0 THEN NULL ELSE p[1]) /\ tail = (IF Len(p) = 0 THEN NULL ELSE p[Len(p)])
  BY <1>3, ChainFacts
<1>f6. \A i \in 1 .. Len(p) : next[p[i]] = IF i < Len(p) THEN p[i + 1] ELSE NULL
  BY <1>3, ChainFacts
<1>1. len' = len /\ IF len < 2 THEN head' = head /\ tail' = tail /\ next' = next
                     ELSE /\ tail' = head /\ head' = p[Len(p)]
                          /\ next' = [n \in DOMAIN next |->
                                        IF \E k \in 2 .. Len(p) : p[k] = n
                                        THEN p[(CHOOSE k \in 2 .. Len(p) : p[k] = n) - 1] ELSE NULL]
  BY <1>2 DEF slist_reverse
<1> DEFINE q == Reverse(p)
<1>4. /\ q \in Seq(Nodes) /\ Len(q) = Len(p)
      /\ \A i \in 1 .. Len(p) : q[i] = p[Len(p) - i + 1]
  <2>1. q = [i \in 1 .. Len(p) |-> p[(Len(p) - i) + 1]]
    BY DEF Reverse
  <2>2. \A i \in 1 .. Len(p) : (Len(p) - i) + 1 \in 1 .. Len(p)
    BY <1>f1
  <2>3. q \in [1 .. Len(p) -> Nodes]
    BY <1>f2, <2>1, <2>2
  <2> HIDE DEF q
  <2>4. q \in Seq(Nodes) /\ Len(q) = Len(p)
    BY <1>f1, <2>3
  <2> QED
    BY <2>1, <2>4
<1> HIDE DEF q
<1>5. \A i \in 1 .. Len(p) : Len(p) - i + 1 \in 1 .. Len(p) /\ Len(p) - (Len(p) - i + 1) + 1 = i
  BY <1>f1
<1>6. \A i, k \in 1 .. Len(q) : q[i] = q[k] => i = k
  <2> SUFFICES ASSUME NEW i \in 1 .. Len(p), NEW k \in 1 .. Len(p), q[i] = q[k] PROVE i = k
    BY <1>4
  <2>1. Len(p) - i + 1 = Len(p) - k + 1
    BY <1>f3, <1>4, <1>5
  <2> QED
    BY <1>f1, <2>1
<1>7. DOMAIN next' = {q[i] : i \in 1 .. Len(q)}
  <2>1. DOMAIN next' = DOMAIN next
    BY <1>1
  <2>2. \A i \in 1 .. Len(p) : q[i] \in DOMAIN next
    BY <1>f2, <1>4, <1>5
  <2>3. ASSUME NEW m \in DOMAIN next PROVE \E i \in 1 .. Len(p) : m = q[i]
    <3>1. PICK k \in 1 .. Len(p) : m = p[k]
      BY <1>f4
    <3>2. Len(p) - k + 1 \in 1 .. Len(p) /\ q[Len(p) - k + 1] = p[k]
      BY <1>4, <1>5
    <3> QED
      BY <3>1, <3>2
  <2> QED
    BY <1>4, <2>1, <2>2, <2>3
<1>8. /\ len' = Len(q) /\ head' = (IF Len(q) = 0 THEN NULL ELSE q[1])
      /\ tail' = (IF Len(q) = 0 THEN NULL ELSE q[Len(q)])
  <2>1. CASE Len(p) = 0
    BY <1>1, <1>f1, <1>f5, <1>4, <2>1
  <2>2. CASE Len(p) # 0
    <3>1. 1 \in 1 .. Len(p) /\ Len(p) \in 1 .. Len(p) /\ Len(p) - 1 + 1 = Len(p) /\ Len(p) - Len(p) + 1 = 1
      BY <1>f1, <2>2
    <3>2. q[1] = p[Len(p)] /\ q[Len(p)] = p[1]
      BY <1>4, <3>1
    <3>3. head' = p[Len(p)] /\ tail' = p[1]
      <4>1. CASE len < 2
        <5>1. Len(p) = 1
          BY <1>f1, <2>2, <4>1
        <5> QED
          BY <1>1, <1>f5, <4>1, <5>1
      <4>2. CASE ~(len < 2)
        BY <1>1, <1>f5, <2>2, <4>2
      <4> QED
        BY <4>1, <4>2
    <3> QED
      BY <1>1, <1>f1, <1>4, <2>2, <3>2, <3>3
  <2> QED
    BY <2>1, <2>2
<1>9. \A i \in 1 .. Len(q) : next'[q[i]] = IF i < Len(q) THEN q[i + 1] ELSE NULL
  <2> SUFFICES ASSUME NEW i \in 1 .. Len(p)
               PROVE  next'[q[i]] = IF i < Len(p) THEN q[i + 1] ELSE NULL
    BY <1>4
  <2>1. PICK j \in 1 .. Len(p) : j = Len(p) - i + 1
    BY <1>5
  <2>2. q[i] = p[j] /\ p[j] \in DOMAIN next
    BY <1>4, <1>f2, <2>1
  <2>3. i < Len(p) => i + 1 \in 1 .. Len(p) /\ Len(p) - (i + 1) + 1 = j - 1
    BY <1>f1, <2>1
  <2>4. (i < Len(p) => q[i + 1] = p[j - 1]) /\ (i < Len(p) <=> j \in 2 .. Len(p))
    <3>1. i < Len(p) <=> j \in 2 .. Len(p)
      BY <1>f1, <2>1
    <3> QED
      BY <1>4, <2>3, <3>1
  <2>5. CASE len < 2
    <3>1. i = 1 /\ j = 1 /\ ~(i < Len(p)) /\ next[p[j]] = NULL
      BY <1>f1, <1>f6, <2>1, <2>5
    <3> QED
      BY <1>1, <2>2, <2>5, <3>1
  <2>6. CASE ~(len < 2)
    <3> DEFINE At == CHOOSE k \in 2 .. Len(p) : p[k] = p[j]
    <3>1. next'[p[j]] = IF \E k \in 2 .. Len(p) : p[k] = p[j] THEN p[At - 1] ELSE NULL
      BY <1>1, <2>2, <2>6
    <3>2. \A k \in 2 .. Len(p) : p[k] = p[j] => k = j
      <4>1. \A k \in 2 .. Len(p) : k \in 1 .. Len(p)
        BY <1>f1
      <4> QED
        BY <1>f3, <4>1
    <3>3. CASE j \in 2 .. Len(p)
      <4>1. At \in 2 .. Len(p) /\ p[At] = p[j]
        BY <3>3
      <4>2. At = j
        BY <3>2, <4>1
      <4> HIDE DEF At
      <4> QED
        BY <2>2, <2>4, <3>1, <3>3, <4>2
    <3>4. CASE j \notin 2 .. Len(p)
      BY <2>2, <2>4, <3>1, <3>2, <3>4
    <3> QED
      BY <3>3, <3>4
  <2> QED
    BY <2>5, <2>6
<1>10. Chain(Path)' /\ Path' = q
  <2>1. PICK r : r = q
    OBVIOUS
  <2>2. LinkedAs(r)'
    BY <1>4, <1>6, <1>7, <1>8, <1>9, <2>1 DEF LinkedAs
  <2> QED
    BY <2>1, <2>2, ChainMadeNext
<1> QED
  BY <1>2, <1>10 DEF q

\* What leaves the links alone leaves the chain alone.
LEMMA SamePath ==
  ASSUME ListInv, UNCHANGED <<head, tail, len, next>>
  PROVE  Path' = Path /\ Chain(Path)'
<1>1. PICK p : p = Path
  OBVIOUS
<1>2. Chain(p)
  BY <1>1 DEF ListInv
<1>3. LinkedAs(p)'
  <2>1. LinkedAs(p)
    <3>1. Len(p) = 0 <=> p = <<>>
      BY <1>2 DEF Chain
    <3> QED
      BY <1>2, <3>1, ChainFacts DEF LinkedAs, Chain
  <2> QED
    BY <2>1 DEF LinkedAs
<1> QED
  BY <1>1, <1>3, ChainMadeNext

\* No node is live once the list is empty.
LEMMA EmptyPath ==
  ASSUME DOMAIN next = {}, len = 0, head = NULL, tail = NULL
  PROVE  LinkedAs(<<>>)
BY DEF LinkedAs

-----------------------------------------------------------------------------
(* The list is typed and linked.                                            *)

LEMMA ChainTyped == ListInv => TypeOK
<1> SUFFICES ASSUME ListInv PROVE TypeOK
  OBVIOUS
<1>1. PICK p : p = Path /\ Chain(p)
  BY DEF ListInv
<1>2. /\ p \in Seq(Nodes) /\ Len(p) \in Nat /\ len = Len(p)
      /\ \A i, k \in DOMAIN p : p[i] = p[k] => i = k
  BY <1>1, ChainFacts DEF Chain
<1>3. Len(p) <= Cardinality(Nodes) /\ Cardinality(Nodes) \in Nat
  BY <1>2, ChainLength, NodesCount
<1>4. \A i \in 1 .. Len(p) : p[i] \in Nodes /\ p[i] \in DOMAIN next
  BY <1>1, ChainFacts
<1>5. \A n \in DOMAIN next : n \in Nodes /\ next[n] \in Nodes \cup {NULL}
  <2> TAKE n \in DOMAIN next
  <2>1. PICK i \in 1 .. Len(p) : n = p[i]
    BY <1>1, ChainFacts
  <2>2. next[n] = IF i < Len(p) THEN p[i + 1] ELSE NULL
    BY <1>1, <2>1, ChainFacts
  <2>3. i < Len(p) => i + 1 \in 1 .. Len(p)
    BY <1>2
  <2> QED
    BY <1>4, <2>1, <2>2, <2>3
<1>6. head \in DOMAIN next \cup {NULL} /\ tail \in DOMAIN next \cup {NULL}
  <2>1. Len(p) # 0 => 1 \in 1 .. Len(p) /\ Len(p) \in 1 .. Len(p)
    BY <1>2
  <2>2. head = (IF Len(p) = 0 THEN NULL ELSE p[1]) /\ tail = (IF Len(p) = 0 THEN NULL ELSE p[Len(p)])
    BY <1>1, ChainFacts
  <2> QED
    BY <1>4, <2>1, <2>2
<1>7. len \in 0 .. Cardinality(Nodes)
  BY <1>2, <1>3
<1> QED
  BY <1>5, <1>6, <1>7 DEF ListInv, DataOK, TypeOK

LEMMA ChainLinked == ListInv => WellLinked
<1> SUFFICES ASSUME ListInv PROVE WellLinked
  OBVIOUS
<1>1. PICK p : p = Path /\ Chain(p)
  BY DEF ListInv
<1>2. Len(p) = 0 <=> p = <<>>
  BY <1>1 DEF Chain
<1>3. /\ DOMAIN next = {p[k] : k \in DOMAIN p} /\ len = Len(p)
      /\ tail = IF len = 0 THEN NULL ELSE p[len]
  BY <1>1, <1>2 DEF Chain
<1> QED
  BY <1>1, <1>3 DEF WellLinked

LEMMA ListInit == Init => ListInv
<1> SUFFICES ASSUME Init PROVE ListInv
  OBVIOUS
<1>1. DOMAIN next = {} /\ DOMAIN data = {}
  BY DEF Init
<1>2. Chain(Path)
  BY <1>1, EmptyPath, ChainMade DEF Init
<1>3. freed \in Seq(Data)
  BY DEF Init
<1> QED
  BY <1>1, <1>2, <1>3 DEF Init, ListInv, DataOK

\* What the list holds.
Contents == [k \in DOMAIN Path |-> data[Path[k]]]

LEMMA ContentsFacts ==
  ASSUME ListInv
  PROVE  /\ Path \in Seq(Nodes) /\ Len(Path) \in Nat /\ DOMAIN Path = 1 .. Len(Path) /\ len = Len(Path)
         /\ \A k \in 1 .. Len(Path) : Path[k] \in DOMAIN next /\ Contents[k] = data[Path[k]]
         /\ Contents \in Seq(Data) /\ Len(Contents) = Len(Path) /\ DOMAIN Contents = 1 .. Len(Path)
<1>1. PICK p : p = Path /\ Chain(p)
  BY DEF ListInv
<1>2. p \in Seq(Nodes) /\ Len(p) \in Nat /\ DOMAIN p = 1 .. Len(p) /\ len = Len(p)
  BY <1>1, ChainFacts
<1>3. \A k \in 1 .. Len(p) : p[k] \in DOMAIN next
  BY <1>1, ChainFacts
<1>4. Contents = [k \in 1 .. Len(p) |-> data[p[k]]]
  BY <1>1, <1>2 DEF Contents
<1>5. Contents \in [1 .. Len(p) -> Data]
  BY <1>3, <1>4 DEF ListInv, DataOK
<1>6. Contents \in Seq(Data) /\ Len(Contents) = Len(p)
  BY <1>2, <1>5
<1> QED
  BY <1>1, <1>2, <1>3, <1>4, <1>6

\* The abstract sequence uses the same library.
LEMMA SameLibrary ==
  /\ \A s, k : Items!RemoveAt(s, k) = RemoveAt(s, k)
  /\ \A s : Items!Reverse(s) = Reverse(s)
BY DEF Items!RemoveAt, RemoveAt, Items!Reverse, Reverse

-----------------------------------------------------------------------------
(* Each operation keeps the invariant and is the operation on the sequence. *)

LEMMA CreateStep ==
  ASSUME ListInv, NEW f \in BOOLEAN, slist_create(f)
  PROVE  ListInv' /\ Items!Create(f)
<1>1. /\ ~list /\ list' = TRUE /\ free_fn' = f /\ head' = NULL /\ tail' = NULL /\ len' = 0
      /\ ret' = <<"create", f, "ok">> /\ freed' = <<>> /\ next' = next /\ data' = data
  BY DEF slist_create
<1>2. PICK p : p = Path /\ Chain(p)
  BY DEF ListInv
<1>3. len = 0 /\ Len(p) = 0 /\ p = <<>>
  BY <1>1, <1>2 DEF ListInv, Chain
<1>4. DOMAIN next = {}
  BY <1>2, <1>3 DEF Chain
<1>5. LinkedAs(<<>>)'
  BY <1>1, <1>4 DEF LinkedAs
<1>6. Chain(Path)' /\ Path' = <<>> /\ Path = <<>>
  BY <1>2, <1>3, <1>5, ChainMadeNext
<1>7. ListInv'
  BY <1>1, <1>6 DEF ListInv, DataOK
<1> QED
  BY <1>1, <1>6, <1>7 DEF Items!Create

LEMMA DestroyStep ==
  ASSUME ListInv, slist_destroy
  PROVE  ListInv' /\ Items!Drop
<1>1. /\ list /\ list' = FALSE /\ head' = NULL /\ tail' = NULL /\ len' = 0 /\ free_fn' = free_fn
      /\ ret' = <<"destroy", "all", "ok">> /\ freed' = IF free_fn THEN Contents ELSE <<>>
      /\ next' = [n \in DOMAIN next \ {Path[k] : k \in DOMAIN Path} |-> next[n]]
      /\ data' = [n \in DOMAIN next \ {Path[k] : k \in DOMAIN Path} |-> data[n]]
  BY DEF slist_destroy, Returns, Contents
<1>2. DOMAIN next = {Path[k] : k \in DOMAIN Path}
  <2>1. PICK p : p = Path /\ Chain(p)
    BY DEF ListInv
  <2> QED
    BY <2>1 DEF Chain
<1>3. DOMAIN next' = {} /\ DOMAIN data' = {}
  BY <1>1, <1>2
<1>4. LinkedAs(<<>>)'
  BY <1>1, <1>3 DEF LinkedAs
<1>5. Chain(Path)' /\ Path' = <<>>
  BY <1>4, ChainMadeNext
<1>6. ListInv'
  <2>1. freed' \in Seq(Data)
    BY <1>1, ContentsFacts
  <2> QED
    BY <1>1, <1>3, <1>5, <2>1 DEF ListInv, DataOK
<1>7. [k \in DOMAIN Path' |-> data'[Path'[k]]] = <<>>
  BY <1>5
<1> QED
  BY <1>1, <1>6, <1>7 DEF Items!Drop, Items!Released, Contents

LEMMA AppendStep ==
  ASSUME ListInv, NEW d \in Data, slist_append(d)
  PROVE  ListInv' /\ Items!AddLast(d)
<1>1. /\ list /\ list' = list /\ free_fn' = free_fn
      /\ ret' = <<"append", d, "ok">> /\ freed' = <<>>
  BY DEF slist_append, MayAdd, Returns
<1>2. PICK n \in Nodes \ DOMAIN next :
        Path' = Append(Path, n) /\ Chain(Path)' /\ data' = With(data, n, d)
  BY AppendPath
<1>3. DOMAIN data = DOMAIN next /\ \A m \in DOMAIN next : data[m] \in Data
  BY DEF ListInv, DataOK
<1>4. /\ DOMAIN data' = DOMAIN next \cup {n} /\ data'[n] = d
      /\ \A m \in DOMAIN next : data'[m] = data[m]
  BY <1>2, <1>3 DEF With
<1>5. DOMAIN next' = DOMAIN next \cup {n}
  <2>1. PICK q : q = Path'
    OBVIOUS
  <2>2. DOMAIN next' = {q[i] : i \in DOMAIN q}
    BY <1>2, <2>1 DEF Chain
  <2>3. PICK p : p = Path /\ Chain(p)
    BY DEF ListInv
  <2>4. p \in Seq(Nodes) /\ Len(p) \in Nat /\ DOMAIN next = {p[i] : i \in 1 .. Len(p)}
    BY <2>3 DEF Chain
  <2>5. DOMAIN q = 1 .. Len(p) + 1 /\ q[Len(p) + 1] = n /\ \A i \in 1 .. Len(p) : q[i] = p[i]
    BY <1>2, <2>1, <2>3, <2>4
  <2>6. \A i \in 1 .. Len(p) + 1 : i \in 1 .. Len(p) \/ i = Len(p) + 1
    BY <2>4
  <2>7. \A i \in DOMAIN q : q[i] \in DOMAIN next \cup {n}
    BY <2>4, <2>5, <2>6
  <2>8. \A i \in 1 .. Len(p) : i \in DOMAIN q
    BY <2>4, <2>5
  <2>9. Len(p) + 1 \in DOMAIN q
    BY <2>4, <2>5
  <2> QED
    BY <2>2, <2>4, <2>5, <2>7, <2>8, <2>9
<1>6. ListInv'
  <2>1. freed' \in Seq(Data)
    BY <1>1
  <2> QED
    BY <1>1, <1>2, <1>3, <1>4, <1>5, <2>1 DEF ListInv, DataOK
<1>7. [k \in DOMAIN Path' |-> data'[Path'[k]]] = Append(Contents, d)
  <2>1. /\ DOMAIN Path' = 1 .. Len(Path) + 1 /\ Path'[Len(Path) + 1] = n
        /\ \A k \in 1 .. Len(Path) : Path'[k] = Path[k]
    BY <1>2, ContentsFacts
  <2>2. /\ DOMAIN Append(Contents, d) = 1 .. Len(Path) + 1 /\ Append(Contents, d)[Len(Path) + 1] = d
        /\ \A k \in 1 .. Len(Path) : Append(Contents, d)[k] = Contents[k]
    BY ContentsFacts
  <2>3. \A k \in 1 .. Len(Path) + 1 : data'[Path'[k]] = Append(Contents, d)[k]
    <3> TAKE k \in 1 .. Len(Path) + 1
    <3>1. CASE k = Len(Path) + 1
      BY <1>4, <2>1, <2>2, <3>1
    <3>2. CASE k # Len(Path) + 1
      <4>1. k \in 1 .. Len(Path)
        BY <3>2, ContentsFacts
      <4> QED
        BY <1>4, <2>1, <2>2, <4>1, ContentsFacts
    <3> QED
      BY <3>1, <3>2
  <2>4. Append(Contents, d) \in Seq(Data) /\ Len(Append(Contents, d)) = Len(Path) + 1
    BY ContentsFacts
  <2> DEFINE t == Append(Contents, d)
  <2>5. t = [k \in 1 .. Len(Path) + 1 |-> t[k]]
    <3>1. t \in Seq(Data) /\ Len(t) = Len(Path) + 1
      BY <2>4
    <3> HIDE DEF t
    <3> QED
      BY <3>1
  <2>6. \A k \in 1 .. Len(Path) + 1 : data'[Path'[k]] = t[k]
    BY <2>3
  <2> HIDE DEF t
  <2>7. [k \in DOMAIN Path' |-> data'[Path'[k]]] = t
    BY <2>1, <2>5, <2>6
  <2> QED
    BY <2>7 DEF t
<1> QED
  BY <1>1, <1>6, <1>7 DEF Items!AddLast, Items!Become, Items!Released, Contents

LEMMA PrependStep ==
  ASSUME ListInv, NEW d \in Data, slist_prepend(d)
  PROVE  ListInv' /\ Items!AddFirst(d)
<1>1. /\ list /\ list' = list /\ free_fn' = free_fn
      /\ ret' = <<"prepend", d, "ok">> /\ freed' = <<>>
  BY DEF slist_prepend, MayAdd, Returns
<1>2. PICK n \in Nodes \ DOMAIN next :
        Path' = <<n>> \o Path /\ Chain(Path)' /\ data' = With(data, n, d)
  BY PrependPath
<1>3. DOMAIN data = DOMAIN next /\ \A m \in DOMAIN next : data[m] \in Data
  BY DEF ListInv, DataOK
<1>4. /\ DOMAIN data' = DOMAIN next \cup {n} /\ data'[n] = d
      /\ \A m \in DOMAIN next : data'[m] = data[m]
  BY <1>2, <1>3 DEF With
<1>5. DOMAIN next' = DOMAIN next \cup {n}
  <2>1. PICK m \in Nodes : data' = With(data, m, d) /\ next' = With(next, m, IF len = 0 THEN NULL ELSE head)
    BY DEF slist_prepend
  <2>2. DOMAIN next' = DOMAIN next \cup {m} /\ DOMAIN data' = DOMAIN data \cup {m}
    BY <2>1 DEF With
  <2> QED
    BY <1>3, <1>4, <2>2
<1>6. ListInv'
  <2>1. freed' \in Seq(Data)
    BY <1>1
  <2> QED
    BY <1>1, <1>2, <1>3, <1>4, <1>5, <2>1 DEF ListInv, DataOK
<1>7. [k \in DOMAIN Path' |-> data'[Path'[k]]] = <<d>> \o Contents
  <2>1. /\ DOMAIN Path' = 1 .. Len(Path) + 1 /\ Path'[1] = n
        /\ \A k \in 1 .. Len(Path) : Path'[k + 1] = Path[k]
    BY <1>2, ContentsFacts
  <2>2. /\ <<d>> \o Contents \in Seq(Data) /\ Len(<<d>> \o Contents) = Len(Path) + 1
        /\ (<<d>> \o Contents)[1] = d
        /\ \A k \in 1 .. Len(Path) : (<<d>> \o Contents)[k + 1] = Contents[k]
    BY ContentsFacts
  <2>3. \A k \in 1 .. Len(Path) + 1 : data'[Path'[k]] = (<<d>> \o Contents)[k]
    <3> TAKE k \in 1 .. Len(Path) + 1
    <3>1. CASE k = 1
      BY <1>4, <2>1, <2>2, <3>1
    <3>2. CASE k # 1
      <4>1. PICK j \in 1 .. Len(Path) : k = j + 1
        <5>1. k - 1 \in 1 .. Len(Path) /\ k = (k - 1) + 1
          BY <3>2, ContentsFacts
        <5> QED
          BY <5>1
      <4> QED
        BY <1>4, <2>1, <2>2, <4>1, ContentsFacts
    <3> QED
      BY <3>1, <3>2
  <2> DEFINE t == <<d>> \o Contents
  <2>5. t = [k \in 1 .. Len(Path) + 1 |-> t[k]]
    BY <2>2
  <2>6. \A k \in 1 .. Len(Path) + 1 : data'[Path'[k]] = t[k]
    BY <2>3
  <2> HIDE DEF t
  <2>7. [k \in DOMAIN Path' |-> data'[Path'[k]]] = t
    BY <2>1, <2>5, <2>6
  <2> QED
    BY <2>7 DEF t
<1> QED
  BY <1>1, <1>6, <1>7 DEF Items!AddFirst, Items!Become, Items!Released, Contents

\* The library's removal is Without.
LEMMA RemoveAtIs ==
  ASSUME NEW S, NEW s \in Seq(S), NEW k \in 1 .. Len(s)
  PROVE  /\ RemoveAt(s, k) \in Seq(S) /\ Len(RemoveAt(s, k)) = Len(s) - 1
         /\ \A i \in 1 .. Len(s) - 1 : RemoveAt(s, k)[i] = IF i < k THEN s[i] ELSE s[i + 1]
<1> DEFINE a == SubSeq(s, 1, k - 1)
           b == SubSeq(s, k + 1, Len(s))
<1>1. Len(s) \in Nat /\ \A i \in 1 .. Len(s) : s[i] \in S
  OBVIOUS
<1>2. a \in Seq(S) /\ Len(a) = k - 1 /\ \A i \in 1 .. k - 1 : a[i] = s[i]
  <2>1. 1 \in Int /\ k - 1 \in Int /\ \A i \in 1 .. k - 1 : s[i] \in S
    BY <1>1
  <2>2. a \in Seq(S) /\ Len(a) = (IF 1 <= k - 1 THEN k - 1 - 1 + 1 ELSE 0) /\ \A i \in 1 .. k - 1 - 1 + 1 : a[i] = s[1 + i - 1]
    BY <2>1, SubSeqProperties
  <2> HIDE DEF a
  <2> QED
    BY <1>1, <2>2
<1>3. b \in Seq(S) /\ Len(b) = Len(s) - k /\ \A i \in 1 .. Len(s) - k : b[i] = s[k + i]
  <2>1. k + 1 \in Int /\ Len(s) \in Int /\ \A i \in k + 1 .. Len(s) : s[i] \in S
    BY <1>1
  <2>2. /\ b \in Seq(S) /\ Len(b) = (IF k + 1 <= Len(s) THEN Len(s) - (k + 1) + 1 ELSE 0)
        /\ \A i \in 1 .. Len(s) - (k + 1) + 1 : b[i] = s[k + 1 + i - 1]
    BY <2>1, SubSeqProperties
  <2> HIDE DEF b
  <2>3. \A i \in 1 .. Len(s) - k : i \in 1 .. Len(s) - (k + 1) + 1 /\ k + 1 + i - 1 = k + i
    BY <1>1
  <2> QED
    BY <1>1, <2>2, <2>3
<1>4. RemoveAt(s, k) = a \o b
  BY DEF RemoveAt
<1> HIDE DEF a, b
<1>5. /\ a \o b \in Seq(S) /\ Len(a \o b) = Len(s) - 1
      /\ \A i \in 1 .. Len(s) - 1 : (a \o b)[i] = IF i <= k - 1 THEN a[i] ELSE b[i - (k - 1)]
  <2>1. /\ a \o b \in Seq(S) /\ Len(a \o b) = Len(a) + Len(b)
        /\ \A i \in 1 .. Len(a) + Len(b) : (a \o b)[i] = IF i <= Len(a) THEN a[i] ELSE b[i - Len(a)]
    BY <1>2, <1>3, ConcatProperties
  <2>2. Len(a) + Len(b) = Len(s) - 1
    BY <1>1, <1>2, <1>3
  <2> QED
    BY <1>2, <2>1, <2>2
<1>6. ASSUME NEW i \in 1 .. Len(s) - 1 PROVE (a \o b)[i] = IF i < k THEN s[i] ELSE s[i + 1]
  <2>1. CASE i < k
    BY <1>2, <1>5, <2>1
  <2>2. CASE ~(i < k)
    <3>1. i - (k - 1) \in 1 .. Len(s) - k /\ k + (i - (k - 1)) = i + 1 /\ ~(i <= k - 1)
      BY <1>1, <2>2
    <3> QED
      BY <1>3, <1>5, <2>2, <3>1
  <2> QED
    BY <2>1, <2>2
<1> QED
  BY <1>4, <1>5, <1>6

\* Taking the k-th node out takes the k-th item out.
LEMMA UnlinkStep ==
  ASSUME ListInv, list, NEW k \in DOMAIN Path, NEW op, NEW arg, Unlink(k, op, arg)
  PROVE  ListInv' /\ Items!Become(RemoveAt(Contents, k), op, arg, "ok", <<Contents[k]>>)
<1>1. /\ list /\ list' = list /\ free_fn' = free_fn
      /\ ret' = <<op, arg, "ok">> /\ freed' = IF free_fn THEN <<data[Path[k]]>> ELSE <<>>
      /\ DOMAIN next' = DOMAIN next \ {Path[k]}
      /\ data' = [n \in DOMAIN data \ {Path[k]} |-> data[n]]
  BY DEF Unlink, Returns
<1>2. Path' = Without(Path, k) /\ Chain(Path)'
  BY UnlinkPath
<1>3. DOMAIN data = DOMAIN next /\ (\A m \in DOMAIN next : data[m] \in Data) /\ free_fn \in BOOLEAN
  BY DEF ListInv, DataOK
<1>4. k \in 1 .. Len(Path) /\ Contents[k] = data[Path[k]] /\ data[Path[k]] \in Data
  BY <1>3, ContentsFacts
<1>5. ListInv'
  <2>1. freed' \in Seq(Data)
    BY <1>1, <1>4
  <2> QED
    BY <1>1, <1>2, <1>3, <2>1 DEF ListInv, DataOK
<1>6. \A i, j \in 1 .. Len(Path) : Path[i] = Path[j] => i = j
  BY ContentsFacts DEF ListInv, Chain
<1>7. [i \in DOMAIN Path' |-> data'[Path'[i]]] = RemoveAt(Contents, k)
  <2>1. /\ RemoveAt(Contents, k) \in Seq(Data) /\ Len(RemoveAt(Contents, k)) = Len(Path) - 1
        /\ \A i \in 1 .. Len(Path) - 1 : RemoveAt(Contents, k)[i] = IF i < k THEN Contents[i] ELSE Contents[i + 1]
    <3>1. Contents \in Seq(Data) /\ Len(Contents) = Len(Path) /\ k \in 1 .. Len(Contents)
      BY <1>4, ContentsFacts
    <3>2. PICK c : c = Contents
      OBVIOUS
    <3>3. /\ RemoveAt(c, k) \in Seq(Data) /\ Len(RemoveAt(c, k)) = Len(c) - 1
          /\ \A i \in 1 .. Len(c) - 1 : RemoveAt(c, k)[i] = IF i < k THEN c[i] ELSE c[i + 1]
      BY <3>1, <3>2, RemoveAtIs
    <3> QED
      BY <3>1, <3>2, <3>3
  <2>2. /\ DOMAIN Path' = 1 .. Len(Path) - 1
        /\ \A i \in 1 .. Len(Path) - 1 : Path'[i] = IF i < k THEN Path[i] ELSE Path[i + 1]
    BY <1>2 DEF Without
  <2>3. ASSUME NEW i \in 1 .. Len(Path) - 1 PROVE data'[Path'[i]] = RemoveAt(Contents, k)[i]
    <3>1. PICK j \in 1 .. Len(Path) : j # k /\ j = IF i < k THEN i ELSE i + 1
      <4>1. i \in 1 .. Len(Path) /\ i + 1 \in 1 .. Len(Path) /\ (i < k => i # k) /\ (~(i < k) => i + 1 # k)
        BY <1>4, ContentsFacts
      <4> QED
        BY <4>1
    <3>2. Path'[i] = Path[j] /\ RemoveAt(Contents, k)[i] = Contents[j]
      BY <2>1, <2>2, <3>1
    <3>3. Path[j] # Path[k] /\ Path[j] \in DOMAIN next /\ Contents[j] = data[Path[j]]
      BY <1>4, <1>6, <3>1, ContentsFacts
    <3>4. data'[Path[j]] = data[Path[j]]
      BY <1>1, <1>3, <3>3
    <3> QED
      BY <3>2, <3>3, <3>4
  <2> DEFINE t == RemoveAt(Contents, k)
  <2>5. t = [i \in 1 .. Len(Path) - 1 |-> t[i]]
    BY <2>1
  <2>6. \A i \in 1 .. Len(Path) - 1 : data'[Path'[i]] = t[i]
    BY <2>3
  <2> HIDE DEF t
  <2>7. [i \in DOMAIN Path' |-> data'[Path'[i]]] = t
    BY <2>2, <2>5, <2>6
  <2> QED
    BY <2>7 DEF t
<1> QED
  BY <1>1, <1>4, <1>5, <1>7 DEF Items!Become, Items!Released, Contents

LEMMA RemoveStep ==
  ASSUME ListInv, NEW d \in Data, slist_remove(d)
  PROVE  ListInv' /\ Items!TakeOut(d)
<1>1. PICK k \in DOMAIN Path :
        /\ data[Path[k]] = d /\ \A i \in 1 .. k - 1 : data[Path[i]] # d
        /\ Unlink(k, "remove", d)
  BY DEF slist_remove
<1>2. list
  BY DEF slist_remove
<1>3. ListInv' /\ Items!Become(RemoveAt(Contents, k), "remove", d, "ok", <<Contents[k]>>)
  BY <1>1, <1>2, UnlinkStep
<1>4. k \in DOMAIN Contents /\ Contents[k] = d /\ \A i \in 1 .. k - 1 : Contents[i] # d
  <2>1. k \in 1 .. Len(Path) /\ \A i \in 1 .. k - 1 : i \in 1 .. Len(Path)
    BY ContentsFacts
  <2> QED
    BY <1>1, <2>1, ContentsFacts
<1>5. Items!Become(RemoveAt(Contents, k), "remove", d, "ok", <<d>>)
  BY <1>3, <1>4 DEF Items!Become
<1>6. Items!TakeOut(d)
  <2> USE DEF Contents
  <2>1. k \in DOMAIN Contents
    BY <1>4
  <2>2. Contents[k] = d /\ \A i \in 1 .. k - 1 : Contents[i] # d
    BY <1>4
  <2> QED
    BY <1>5, <2>1, <2>2, SameLibrary DEF Items!TakeOut
<1> QED
  BY <1>3, <1>6

LEMMA RemoveAtStep ==
  ASSUME ListInv, NEW index \in Indices, slist_remove_at(index)
  PROVE  ListInv' /\ \E i \in DOMAIN Contents : Items!TakeOutAt(i)
<1>1. list /\ index < len /\ Unlink(index + 1, "remove_at", index)
  BY DEF slist_remove_at
<1>2. index \in Nat
  BY NodesCount DEF Indices
<1>3. PICK k \in DOMAIN Path : k = index + 1 /\ k - 1 = index /\ k \in DOMAIN Contents
  BY <1>1, <1>2, ContentsFacts
<1>4. ListInv' /\ Items!Become(RemoveAt(Contents, k), "remove_at", index, "ok", <<Contents[k]>>)
  <2>1. Unlink(k, "remove_at", index)
    BY <1>1, <1>3
  <2> QED
    BY <1>1, <2>1, UnlinkStep
<1>5. Items!Become(RemoveAt(Contents, k), "remove_at", k - 1, "ok", <<Contents[k]>>)
  BY <1>3, <1>4
<1>6. Items!TakeOutAt(k)
  BY <1>5, SameLibrary DEF Items!TakeOutAt, Contents
<1> QED
  BY <1>3, <1>4, <1>6

LEMMA GetStep ==
  ASSUME ListInv, NEW index \in Indices, slist_get(index)
  PROVE  ListInv' /\ Items!Read(index + 1) /\ index + 1 \in 1 .. Cardinality(Nodes) + 1
<1>1. /\ list /\ UNCHANGED <<list, head, tail, len, free_fn, next, data>> /\ freed' = <<>>
      /\ ret' = <<"get", index, IF index >= len THEN NULL ELSE IF index = len - 1 THEN data[tail] ELSE data[NodeAt[index]]>>
  BY DEF slist_get, Returns
<1>2. index \in Nat /\ index <= Cardinality(Nodes) /\ Cardinality(Nodes) \in Nat
  BY NodesCount DEF Indices
<1>3. Path' = Path /\ Chain(Path)'
  BY <1>1, SamePath
<1>4. ListInv'
  BY <1>1, <1>3 DEF ListInv, DataOK
<1>5. PICK p : p = Path /\ Chain(p)
  BY DEF ListInv
<1>6. Len(p) \in Nat /\ len = Len(p) /\ \A k \in 1 .. Len(p) : Contents[k] = data[p[k]]
  BY <1>5, ContentsFacts
<1>7. (IF index >= len THEN NULL ELSE IF index = len - 1 THEN data[tail] ELSE data[NodeAt[index]])
        = IF index + 1 \in DOMAIN Contents THEN Contents[index + 1] ELSE NULL
  <2>1. index + 1 \in DOMAIN Contents <=> index < len
    BY <1>2, <1>5, <1>6, ContentsFacts
  <2>2. CASE index < len
    <3>1. index + 1 \in 1 .. Len(p) /\ Contents[index + 1] = data[p[index + 1]]
      BY <1>2, <1>6, <2>2
    <3>2. NodeAt[index] = p[index + 1]
      BY <1>2, <1>5, <1>6, <2>2, ChainWalk
    <3>3. index = len - 1 => tail = p[index + 1]
      <4>1. tail = (IF Len(p) = 0 THEN NULL ELSE p[Len(p)])
        BY <1>5, ChainFacts
      <4>2. index = len - 1 => Len(p) # 0 /\ Len(p) = index + 1
        BY <1>2, <1>6
      <4> QED
        BY <4>1, <4>2
    <3> QED
      BY <1>2, <1>6, <2>1, <2>2, <3>1, <3>2, <3>3
  <2>3. CASE ~(index < len)
    BY <1>2, <1>6, <2>1, <2>3
  <2> QED
    BY <2>2, <2>3
<1>8. ret' = <<"get", index, IF index + 1 \in DOMAIN Contents THEN Contents[index + 1] ELSE NULL>>
  BY <1>1, <1>7
<1>9. (index + 1) - 1 = index /\ index + 1 \in 1 .. Cardinality(Nodes) + 1
  BY <1>2
<1>10. Items!Read(index + 1)
  BY <1>1, <1>3, <1>8, <1>9 DEF Items!Read, Items!Become, Items!Released, Contents
<1> QED
  BY <1>4, <1>9, <1>10

LEMMA ReverseStep ==
  ASSUME ListInv, slist_reverse
  PROVE  ListInv' /\ Items!TurnAround
<1>1. /\ list /\ list' = list /\ free_fn' = free_fn /\ data' = data /\ freed' = <<>>
      /\ ret' = <<"reverse", "all", "ok">> /\ DOMAIN next' = DOMAIN next /\ len' = len
  BY DEF slist_reverse, Returns
<1>2. Path' = Reverse(Path) /\ Chain(Path)'
  BY ReversePath
<1>3. ListInv'
  <2>1. freed' \in Seq(Data)
    BY <1>1
  <2> QED
    BY <1>1, <1>2, <2>1 DEF ListInv, DataOK
<1>4. [k \in DOMAIN Path' |-> data'[Path'[k]]] = Reverse(Contents)
  <2>1. Path' = [k \in 1 .. Len(Path) |-> Path[(Len(Path) - k) + 1]]
    BY <1>2 DEF Reverse
  <2>2. Reverse(Contents) = [k \in 1 .. Len(Path) |-> Contents[(Len(Path) - k) + 1]]
    BY ContentsFacts DEF Reverse
  <2>3. \A k \in 1 .. Len(Path) : Contents[(Len(Path) - k) + 1] = data[Path[(Len(Path) - k) + 1]]
    <3>1. \A k \in 1 .. Len(Path) : (Len(Path) - k) + 1 \in 1 .. Len(Path)
      BY ContentsFacts
    <3> QED
      BY <3>1, ContentsFacts
  <2> QED
    BY <1>1, <2>1, <2>2, <2>3
<1>5. Items!Become(Reverse(Contents), "reverse", "all", "ok", <<>>)
  BY <1>1, <1>4 DEF Items!Become, Items!Released
<1> QED
  BY <1>3, <1>5, SameLibrary DEF Items!TurnAround, Contents

LEMMA FailsStep ==
  ASSUME ListInv, NEW op, NEW arg, Fails(op, arg)
  PROVE  ListInv' /\ Items!Refuse(op, arg)
<1>1. /\ UNCHANGED <<list, head, tail, len, free_fn, next, data>> /\ freed' = <<>>
      /\ ret' = <<op, arg, "fail">>
      /\ list => \/ op \in {"append", "prepend"} /\ MayAdd(arg)
                 \/ op = "remove" /\ \A k \in DOMAIN Path : data[Path[k]] # arg
                 \/ op = "remove_at" /\ arg >= len
  BY DEF Fails
<1>2. Path' = Path /\ Chain(Path)'
  BY <1>1, SamePath
<1>3. ListInv'
  BY <1>1, <1>2 DEF ListInv, DataOK
<1>4. list => \/ op \in {"append", "prepend"}
              \/ op = "remove" /\ \A i \in DOMAIN Contents : Contents[i] # arg
              \/ op = "remove_at" /\ arg >= Len(Contents)
  BY <1>1, ContentsFacts
<1> QED
  BY <1>1, <1>2, <1>3, <1>4 DEF Items!Refuse, Contents

-----------------------------------------------------------------------------
(* The theorems.                                                            *)

LEMMA ListStep == ListInv /\ [Next]_vars => ListInv' /\ [Items!Next]_(Items!lvars)
<1> SUFFICES ASSUME ListInv, [Next]_vars PROVE ListInv' /\ [Items!Next]_(Items!lvars)
  OBVIOUS
<1>1. CASE \E f \in BOOLEAN : slist_create(f)
  BY <1>1, CreateStep DEF Items!Next
<1>2. CASE slist_destroy
  BY <1>2, DestroyStep DEF Items!Next
<1>3. CASE slist_reverse
  BY <1>3, ReverseStep DEF Items!Next
<1>4. ASSUME NEW d \in Data, slist_append(d) PROVE ListInv' /\ Items!Next
  BY <1>4, AppendStep DEF Items!Next
<1>5. ASSUME NEW d \in Data, slist_prepend(d) PROVE ListInv' /\ Items!Next
  BY <1>5, PrependStep DEF Items!Next
<1>6. ASSUME NEW d \in Data, slist_remove(d) PROVE ListInv' /\ Items!Next
  BY <1>6, RemoveStep DEF Items!Next
<1>7. ASSUME NEW index \in Indices, slist_remove_at(index) PROVE ListInv' /\ Items!Next
  BY <1>7, RemoveAtStep DEF Items!Next, Contents
<1>8. ASSUME NEW index \in Indices, slist_get(index) PROVE ListInv' /\ Items!Next
  BY <1>8, GetStep DEF Items!Next
<1>9. ASSUME NEW op \in {"append", "prepend", "remove"}, NEW d \in Data, Fails(op, d) PROVE ListInv' /\ Items!Next
  BY <1>9, FailsStep DEF Items!Next
<1>10. ASSUME NEW op \in {"remove_at", "get"}, NEW index \in Indices, Fails(op, index) PROVE ListInv' /\ Items!Next
  <2>1. index \in 0 .. Cardinality(Nodes) + 1
    BY NodesCount DEF Indices
  <2> QED
    BY <1>10, <2>1, FailsStep DEF Items!Next
<1>11. CASE UNCHANGED vars
  <2>1. Path' = Path /\ Chain(Path)'
    BY <1>11, SamePath DEF vars
  <2>2. ListInv'
    BY <1>11, <2>1 DEF vars, ListInv, DataOK
  <2> QED
    BY <1>11, <2>1, <2>2 DEF vars, Items!lvars
<1> QED
  BY <1>1, <1>2, <1>3, <1>4, <1>5, <1>6, <1>7, <1>8, <1>9, <1>10, <1>11 DEF Next

LEMMA ListInvariant == Spec => []ListInv
<1>1. ListInv /\ [Next]_vars => ListInv'
  BY ListStep
<1> QED
  BY <1>1, ListInit, PTL DEF Spec

\* The fields of the list and of its nodes keep their range after every
\* operation of slist.c, and the length stays within the memory there is.
THEOREM ListTypeOK == Spec => []TypeOK
BY ListInvariant, ChainTyped, PTL

\* No operation of slist.c leaks a node, leaves one reachable that it freed,
\* or lets tail or len disagree with the walk from head.
THEOREM ListLinked == Spec => []WellLinked
BY ListInvariant, ChainLinked, PTL

\* Every operation of slist.c does to the items, returns and releases what
\* the operation of a sequence does: the list is a sequence of its data.
THEOREM ListIsSequence == Spec => ImplementsSequence
<1>1. Init => Items!Init
  <2> SUFFICES ASSUME Init PROVE Items!Init
    OBVIOUS
  <2>1. Path = <<>>
    <3>1. DOMAIN next = {}
      BY DEF Init
    <3> QED
      BY <3>1, EmptyPath, ChainMade DEF Init
  <2> QED
    BY <2>1 DEF Init, Items!Init
<1>2. ListInv /\ [Next]_vars => [Items!Next]_(Items!lvars)
  BY ListStep
<1> QED
  BY <1>1, <1>2, ListInvariant, PTL DEF Spec, ImplementsSequence, Items!Spec

===============================================================================
