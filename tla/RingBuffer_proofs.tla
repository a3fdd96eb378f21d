-------------------------- MODULE RingBuffer_proofs --------------------------
(***************************************************************************)
(* Proof that the receive ring implements a byte queue of Capacity - 1     *)
(* places, for every capacity, also when the accesses to the bytes are     *)
(* deferred as far as the build may defer them.                            *)
(***************************************************************************)
EXTENDS RingBuffer, SequenceTheorems, TLAPS

\* A build that defers the writer's stores needs an interrupt that stops the
\* loop thread.
StoresInTime == \A b \in Builds : b.writerDefers => b.sameCore

\* The modulo of the code is a wrap at the last index.
LEMMA NextIndexIs ==
  \A i \in Index : NextIndex(i) = IF i = Capacity - 1 THEN 0 ELSE i + 1
BY RingAssumption, SMT DEF Index, NextIndex

\* Every variable keeps its range: the indices stay inside the buffer.
LEMMA TypeInit == Init => TypeOK
BY RingAssumption DEF Init, TypeOK, Index

LEMMA TypeNext == TypeOK /\ [Next]_vars => TypeOK'
<1> SUFFICES ASSUME TypeOK, [Next]_vars PROVE TypeOK'
  OBVIOUS
<1> USE DEF TypeOK
<1>1. NextIndex(read_index) \in Index /\ NextIndex(write_index) \in Index
  BY NextIndexIs, RingAssumption DEF Index
<1>2. CASE Writer
  BY <1>1, <1>2 DEF Writer, WriteStart, WriteFull, WriteRoom, WriteStore, WritePublish, readerVars
<1>3. CASE Reader
  BY <1>1, <1>3 DEF Reader, ReadStart, ReadEmpty, ReadSome, ReadCopy, ReadAdvance, writerVars
<1>4. CASE UNCHANGED vars
  BY <1>4 DEF vars, writerVars, readerVars
<1> QED
  BY <1>2, <1>3, <1>4 DEF Next

LEMMA CellsInit == Init => CellsOK
BY DEF Init, CellsOK

LEMMA CellsNext == StoresInTime /\ TypeOK /\ CellsOK /\ [Next]_vars => CellsOK'
<1> SUFFICES ASSUME StoresInTime, TypeOK, CellsOK, [Next]_vars PROVE CellsOK'
  OBVIOUS
<1> USE NextIndexIs, RingAssumption DEF TypeOK, CellsOK, Index
<1>1. ASSUME NEW b \in Bytes, WriteStart(b) PROVE CellsOK'
  BY <1>1 DEF WriteStart, readerVars
<1>2. CASE WriteFull
  BY <1>2 DEF WriteFull, readerVars
<1>3. CASE WriteRoom
  BY <1>3 DEF WriteRoom, IsFull, readerVars
<1>4. CASE WriteStore
  BY <1>4 DEF WriteStore, readerVars
<1>5. CASE WritePublish
  BY <1>5 DEF WritePublish, readerVars
<1>6. CASE (build.sameCore => wpc = "idle") /\ Reader
  <2>1. wpc # "storeLate"
    BY <1>6 DEF StoresInTime
  <2>2. CASE ReadStart \/ ReadEmpty
    BY <2>1, <2>2 DEF ReadStart, ReadEmpty, writerVars
  <2>3. CASE ReadSome
    BY <2>1, <2>3 DEF ReadSome, writerVars
  <2>4. CASE ReadCopy
    BY <2>1, <2>4 DEF ReadCopy, writerVars
  <2>5. CASE ReadAdvance
    BY <2>1, <2>5 DEF ReadAdvance, writerVars
  <2> QED
    BY <1>6, <2>2, <2>3, <2>4, <2>5 DEF Reader
<1>7. CASE UNCHANGED vars
  BY <1>7 DEF vars, writerVars, readerVars
<1> QED
  BY <1>1, <1>2, <1>3, <1>4, <1>5, <1>6, <1>7 DEF Next, Writer
-----------------------------------------------------------------------------
(* The contents of the ring as a sequence.                                  *)

Entry(k) == IF wpc = "storeLate" /\ k = Count THEN data ELSE buffer[Cell(k - 1)]
Values == Bytes \cup {NoByte}

\* The cells between the indices are cells, all different, and none of them
\* is the one the next byte goes to.
LEMMA CountAndCells ==
  TypeOK =>
    /\ Count \in 0 .. Capacity - 1
    /\ \A k \in 0 .. Count : Cell(k) \in Index
    /\ Cell(Count) = write_index
    /\ \A k, m \in 0 .. Count : k # m => Cell(k) # Cell(m)
BY RingAssumption, SMT DEF TypeOK, Index, Count, Cell

ContentOK ==
  /\ Content \in Seq(Values) /\ Len(Content) = Count
  /\ \A k \in 1 .. Count : Content[k] = Entry(k)

LEMMA ContentType == TypeOK => ContentOK
<1> SUFFICES ASSUME TypeOK PROVE ContentOK
  OBVIOUS
<1>1. \A k \in 1 .. Count : Entry(k) \in Values
  BY CountAndCells, RingAssumption DEF TypeOK, Entry, Values
<1>2. Content = [k \in 1 .. Count |-> Entry(k)]
  BY DEF Content, Entry
<1> QED
  BY <1>1, <1>2, CountAndCells, RingAssumption DEF ContentOK

\* Contents of the same length and with the same entries are the same.
LEMMA SameContent ==
  ContentOK /\ ContentOK' /\ Count' = Count /\ (\A k \in 1 .. Count : Entry(k)' = Entry(k)) => Content' = Content
BY SeqEqual DEF ContentOK, Values

\* One entry more at the end.
LEMMA LongerContent ==
  ASSUME ContentOK, ContentOK', NEW n \in Nat, Count = n, Count' = n + 1, NEW b \in Values,
         \A k \in 1 .. n : Entry(k)' = Entry(k), Entry(n + 1)' = b
  PROVE  Content' = Append(Content, b)
<1>1. /\ Append(Content, b) \in Seq(Values) /\ Len(Append(Content, b)) = n + 1
      /\ \A k \in 1 .. n : Append(Content, b)[k] = Content[k]
      /\ Append(Content, b)[n + 1] = b
  BY DEF ContentOK
<1>2. \A k \in 1 .. n + 1 : Content'[k] = Append(Content, b)[k]
  BY <1>1 DEF ContentOK
<1> QED
  BY <1>1, <1>2, SeqEqual DEF ContentOK, Values

\* One entry less at the front.
LEMMA ShorterContent ==
  ASSUME ContentOK, ContentOK', Count \in Nat, Count' = Count - 1, Count # 0,
         \A k \in 1 .. Count - 1 : Entry(k)' = Entry(k + 1)
  PROVE  Content # <<>> /\ Content' = Tail(Content) /\ Head(Content) = Entry(1)
<1>1. Content # <<>> /\ Head(Content) = Entry(1)
  BY DEF ContentOK
<1>2. /\ Tail(Content) \in Seq(Values) /\ Len(Tail(Content)) = Count - 1
      /\ \A k \in 1 .. Count - 1 : Tail(Content)[k] = Content[k + 1]
  BY <1>1 DEF ContentOK
<1>3. \A k \in 1 .. Count - 1 : Content'[k] = Tail(Content)[k]
  BY <1>2 DEF ContentOK
<1> QED
  BY <1>1, <1>2, <1>3, SeqEqual DEF ContentOK, Values

-----------------------------------------------------------------------------
(* Every step is a step of the queue or leaves it alone.                    *)

RingInv == TypeOK /\ CellsOK /\ ContentOK

LEMMA InitFifo == Init => Fifo!Init
<1> SUFFICES ASSUME Init PROVE Fifo!Init
  OBVIOUS
<1>1. Count = 0
  BY DEF Init, Count
<1>2. Content = <<>>
  BY <1>1 DEF Content
<1> QED
  BY <1>2 DEF Init, Fifo!Init

LEMMA StepFifo ==
  StoresInTime /\ RingInv /\ RingInv' /\ [Next]_vars => [Fifo!Next]_Fifo!fvars
<1> SUFFICES ASSUME StoresInTime, RingInv, RingInv', [Next]_vars PROVE [Fifo!Next]_Fifo!fvars
  OBVIOUS
<1> USE DEF RingInv
<1>a. /\ Count \in 0 .. Capacity - 1
      /\ \A k \in 0 .. Count : Cell(k) \in Index
      /\ Cell(Count) = write_index
      /\ \A k, m \in 0 .. Count : k # m => Cell(k) # Cell(m)
  BY CountAndCells
<1>b. NextIndex(write_index) = read_index <=> Count = Capacity - 1
  BY NextIndexIs, RingAssumption DEF TypeOK, Index, Count
<1>c. read_index = write_index <=> Count = 0
  BY RingAssumption DEF TypeOK, Index, Count
<1>d. NoByte \notin Bytes /\ Capacity \in Nat
  BY RingAssumption
<1>1. ASSUME NEW b \in Bytes, WriteStart(b) PROVE Fifo!Next
  <2>1. Content' = Content
    BY <1>1, SameContent DEF WriteStart, Count, Entry, Cell
  <2>2. Fifo!Offer(b)
    BY <1>1, <1>d, <2>1 DEF WriteStart, Fifo!Offer, readerVars, CellsOK
  <2> QED
    BY <2>2 DEF Fifo!Next
<1>2. CASE WriteFull
  <2>1. Content' = Content
    BY <1>2, SameContent DEF WriteFull, Count, Entry, Cell
  <2>2. Len(Content) = Capacity - 1
    BY <1>2, <1>b DEF WriteFull, IsFull, ContentOK
  <2>3. Fifo!Refuse
    BY <1>2, <2>1, <2>2 DEF WriteFull, Fifo!Refuse, readerVars, CellsOK
  <2> QED
    BY <2>3 DEF Fifo!Next
<1>3. CASE WriteRoom
  <2>1. Content' = Content
    BY <1>3, SameContent DEF WriteRoom, Count, Entry, Cell
  <2> QED
    BY <1>3, <2>1 DEF WriteRoom, Fifo!fvars, readerVars, CellsOK
<1>4. CASE WriteStore
  <2>1. \A k \in 1 .. Count : Cell(k - 1) # write_index
    BY <1>a
  <2>2. wpc = "store" => Content' = Content
    <3> HAVE wpc = "store"
    <3>1. \A k \in 1 .. Count : buffer'[Cell(k - 1)] = buffer[Cell(k - 1)]
      BY <1>4, <1>a, <2>1 DEF WriteStore, TypeOK, CellsOK
    <3> QED
      BY <1>4, <3>1, SameContent DEF WriteStore, Count, Entry, Cell
  <2>3. wpc = "storeLate" => Content' = Content
    <3> HAVE wpc = "storeLate"
    <3>1. Count # 0 /\ NextIndex(wslot) = write_index
      BY <1>c DEF CellsOK
    <3>2. Cell(Count - 1) = wslot
      BY <3>1, NextIndexIs, RingAssumption DEF TypeOK, Index, Cell, Count
    <3>3. \A k \in 1 .. Count : buffer'[Cell(k - 1)] = IF k = Count THEN data ELSE buffer[Cell(k - 1)]
      BY <1>4, <1>a, <3>1, <3>2 DEF WriteStore, TypeOK
    <3> QED
      BY <1>4, <3>3, SameContent DEF WriteStore, Count, Entry, Cell
  <2>4. rpc = "copyLate" => buffer'[rslot] = buffer[rslot]
    <3> HAVE rpc = "copyLate"
    <3>1. wslot # rslot
      BY <1>4, NextIndexIs DEF WriteStore, TypeOK, CellsOK
    <3> QED
      BY <1>4, <3>1 DEF WriteStore, TypeOK
  <2>5. UNCHANGED Fifo!fvars
    BY <1>4, <2>2, <2>3, <2>4 DEF WriteStore, Fifo!fvars, readerVars
  <2> QED
    BY <2>5
<1>5. CASE WritePublish
  <2> PICK n \in Nat : n = Count
    BY <1>a, <1>d
  <2>1. n < Capacity - 1
    BY <1>5, <1>a, <1>b, <1>d DEF WritePublish, CellsOK
  <2>2. /\ read_index' = read_index /\ write_index' = IF write_index = Capacity - 1 THEN 0 ELSE write_index + 1
        /\ buffer' = buffer /\ wslot' = wslot /\ wslot = write_index
    BY <1>5, NextIndexIs DEF WritePublish, readerVars, TypeOK, CellsOK
  <2>3. Count' = n + 1
    BY <2>1, <2>2, RingAssumption DEF TypeOK, Index, Count
  <2>4. \A k \in Nat : Cell(k)' = Cell(k)
    BY <2>2 DEF Cell
  <2>5. Cell(n)' = wslot
    BY <1>a, <2>2, <2>4
  <2>6. \A k \in 1 .. n : Entry(k)' = Entry(k)
    <3> TAKE k \in 1 .. n
    <3>1. wpc # "storeLate" /\ k # Count'
      BY <1>5, <2>3 DEF WritePublish
    <3>2. k - 1 \in Nat
      OBVIOUS
    <3> QED
      BY <2>2, <2>4, <3>1, <3>2 DEF Entry
  <2>7. Entry(n + 1)' = data
    <3>1. (wpc' = "storeLate" /\ data' = data) \/ (wpc' # "storeLate" /\ buffer[wslot] = data)
      BY <1>5 DEF WritePublish, CellsOK
    <3>2. n + 1 - 1 = n
      OBVIOUS
    <3> QED
      BY <2>2, <2>3, <2>5, <3>1, <3>2 DEF Entry
  <2>8. Content' = Append(Content, data)
    BY <2>3, <2>6, <2>7, LongerContent DEF TypeOK, Values
  <2>9. Fifo!Put
    BY <1>5, <2>1, <2>8, <1>d DEF WritePublish, Fifo!Put, readerVars, CellsOK, ContentOK
  <2> QED
    BY <2>9 DEF Fifo!Next
<1>6. CASE (build.sameCore => wpc = "idle") /\ Reader
  <2>1. wpc # "storeLate"
    BY <1>6 DEF StoresInTime, TypeOK, CellsOK
  <2>2. CASE ReadStart
    <3>1. Content' = Content
      BY <2>2, SameContent DEF ReadStart, Count, Entry, Cell, writerVars
    <3>2. Fifo!Ask
      BY <2>2, <3>1 DEF ReadStart, Fifo!Ask, writerVars
    <3> QED
      BY <3>2 DEF Fifo!Next
  <2>3. CASE ReadEmpty
    <3>1. Content' = Content
      BY <2>3, SameContent DEF ReadEmpty, Count, Entry, Cell, writerVars
    <3>2. Content = <<>>
      BY <2>3, <1>c DEF ReadEmpty, ContentOK
    <3>3. Fifo!Nothing
      BY <2>3, <3>1, <3>2 DEF ReadEmpty, Fifo!Nothing, writerVars
    <3> QED
      BY <3>3 DEF Fifo!Next
  <2>4. CASE ReadSome
    <3>1. Content' = Content
      BY <2>4, SameContent DEF ReadSome, Count, Entry, Cell, writerVars
    <3> QED
      BY <2>4, <3>1 DEF ReadSome, Fifo!fvars, writerVars
  <2>5. CASE ReadCopy
    <3>1. Content' = Content
      BY <2>5, SameContent DEF ReadCopy, Count, Entry, Cell, writerVars
    <3> QED
      BY <2>5, <3>1 DEF ReadCopy, Fifo!fvars, writerVars
  <2>6. CASE ReadAdvance
    <3>1. Count # 0 /\ rslot = read_index
      BY <2>6, <1>c DEF ReadAdvance, CellsOK
    <3>0. /\ read_index' = IF read_index = Capacity - 1 THEN 0 ELSE read_index + 1
          /\ write_index' = write_index
      BY <2>6, NextIndexIs DEF ReadAdvance, TypeOK
    <3>2. /\ Count' = Count - 1 /\ \A k \in 1 .. Count - 1 : Cell(k - 1)' = Cell(k)
          /\ Cell(0) = read_index
      <4>1. Count' = Count - 1
        BY <3>0, <3>1, RingAssumption DEF TypeOK, Index, Count
      <4>2. \A k \in 1 .. Count - 1 : Cell(k - 1)' = Cell(k)
        BY <3>0, <1>a, RingAssumption DEF TypeOK, Index, Cell
      <4>3. Cell(0) = read_index
        BY RingAssumption DEF TypeOK, Index, Cell
      <4> QED
        BY <4>1, <4>2, <4>3
    <3>3. \A k \in 1 .. Count - 1 : Entry(k)' = Entry(k + 1)
      BY <1>a, <2>1, <2>6, <3>2 DEF ReadAdvance, Entry, writerVars
    <3>4. Content # <<>> /\ Content' = Tail(Content) /\ Head(Content) = Entry(1)
      BY <1>a, <3>1, <3>2, <3>3, ShorterContent
    <3>5. Entry(1) = buffer[rslot]
      BY <2>1, <3>1, <3>2 DEF Entry
    <3>6. Fifo!Get
      BY <2>6, <3>4, <3>5 DEF ReadAdvance, Fifo!Get, writerVars, CellsOK
    <3> QED
      BY <3>6 DEF Fifo!Next
  <2> QED
    BY <1>6, <2>2, <2>3, <2>4, <2>5, <2>6 DEF Reader
<1>7. CASE UNCHANGED vars
  <2>1. Content' = Content
    BY <1>7, SameContent DEF vars, writerVars, readerVars, Count, Entry, Cell
  <2> QED
    BY <1>7, <2>1 DEF vars, writerVars, readerVars, Fifo!fvars
<1> QED
  BY <1>1, <1>2, <1>3, <1>4, <1>5, <1>6, <1>7 DEF Next, Writer

\* Every index stays inside the buffer, whatever the build defers.
THEOREM RingTypeCorrect == Spec => []TypeOK
BY TypeInit, TypeNext, PTL DEF Spec

\* The ring is a queue of Capacity - 1 bytes, for every capacity and every
\* interleaving of ring_buffer_write and ring_buffer_read, as long as a build that defers
\* the writer's stores runs the interrupt on the loop thread's core.
THEOREM RingIsFifo == StoresInTime => (Spec => ImplementsFifo)
<1> SUFFICES ASSUME StoresInTime PROVE Spec => ImplementsFifo
  OBVIOUS
<1>1. Init => RingInv
  BY TypeInit, CellsInit, ContentType DEF RingInv
<1>2. RingInv /\ [Next]_vars => RingInv'
  <2>1. TypeOK' => ContentOK'
    BY ContentType, PTL
  <2> QED
    BY <2>1, TypeNext, CellsNext DEF RingInv
<1>3. RingInv /\ RingInv' /\ [Next]_vars => [Fifo!Next]_Fifo!fvars
  BY StepFifo
<1> QED
  BY <1>1, <1>2, <1>3, InitFifo, PTL DEF Spec, ImplementsFifo, Fifo!Spec
===============================================================================
