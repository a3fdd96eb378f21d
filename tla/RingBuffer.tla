----------------------------- MODULE RingBuffer -----------------------------
(***************************************************************************)
(* The receive ring (ring_buffer.c) at the grain of its memory accesses:   *)
(* ring_buffer_write runs in the UART interrupt, ring_buffer_read in the   *)
(* loop thread, and neither takes a lock.                                  *)
(*                                                                         *)
(* The two indices are volatile, the bytes are not: the compiler may move  *)
(* the access to a byte past the store to the index that follows it.       *)
(***************************************************************************)
EXTENDS Integers, Sequences

CONSTANTS
  Bytes,         \* what the UART delivers
  NoByte,        \* an uninitialised cell or variable
  Capacity,      \* sizeof(rx_buffer_data), 256 in the code
  Builds         \* the builds of the library and their targets, see Build

\* sameCore: the interrupt stops the loop thread while it runs.
\* writerDefers: a byte may be stored after write_index has moved.
\* readerDefers: a byte may be loaded after read_index has moved.
Build == [sameCore : BOOLEAN, writerDefers : BOOLEAN, readerDefers : BOOLEAN]

ASSUME RingAssumption ==
  /\ Capacity \in Nat \ {0, 1}
  /\ NoByte \notin Bytes
  /\ Builds \subseteq Build

Index == 0 .. Capacity - 1

VARIABLES
  build,                  \* the build that runs; never changes
  buffer, read_index, write_index,
  wpc, data, wslot,       \* the writer: control, its byte, the cell it fills
  rpc, byte, rslot, got   \* the reader: control, the byte it loaded, the cell it empties, its last result

writerVars == <<wpc, data, wslot>>
readerVars == <<rpc, byte, rslot, got>>
vars == <<build, buffer, read_index, write_index, writerVars, readerVars>>

NextIndex_NoWrap(i) == i + 1   \* mutant: no modulo
NextIndex(i) == (i + 1) % Capacity

IsFull == NextIndex(write_index) = read_index

Init ==
  /\ build \in Builds
  /\ buffer = [i \in Index |-> NoByte]
  /\ read_index = 0 /\ write_index = 0
  /\ wpc = "idle" /\ data = NoByte /\ wslot = 0
  /\ rpc = "idle" /\ byte = NoByte /\ rslot = 0 /\ got = NoByte

-----------------------------------------------------------------------------
(* ring_buffer_write.                                                       *)

WriteStart(b) ==
  /\ wpc = "idle"
  /\ wpc' = "check" /\ data' = b
  /\ UNCHANGED <<build, buffer, read_index, write_index, wslot, readerVars>>

WriteFull ==
  /\ wpc = "check" /\ IsFull
  /\ wpc' = "idle" /\ data' = NoByte
  /\ UNCHANGED <<build, buffer, read_index, write_index, wslot, readerVars>>

\* Mutant: the source moves the index before it stores the byte.
WriteRoom_PublishFirst ==
  /\ wpc = "check" /\ ~IsFull
  /\ wslot' = write_index
  /\ wpc' = "publishFirst"
  /\ UNCHANGED <<build, buffer, read_index, write_index, data, readerVars>>

WriteRoom ==
  /\ wpc = "check" /\ ~IsFull
  /\ wslot' = write_index
  /\ \/ wpc' = "store"
     \/ build.writerDefers /\ wpc' = "publishFirst"
  /\ UNCHANGED <<build, buffer, read_index, write_index, data, readerVars>>

WriteStore ==
  /\ wpc \in {"store", "storeLate"}
  /\ buffer' = [buffer EXCEPT ![wslot] = data]
  /\ wpc' = IF wpc = "store" THEN "publish" ELSE "idle"
  /\ data' = IF wpc = "store" THEN data ELSE NoByte
  /\ UNCHANGED <<build, read_index, write_index, wslot, readerVars>>

WritePublish ==
  /\ wpc \in {"publish", "publishFirst"}
  /\ write_index' = NextIndex(write_index)
  /\ wpc' = IF wpc = "publish" THEN "idle" ELSE "storeLate"
  /\ data' = IF wpc = "publish" THEN NoByte ELSE data
  /\ UNCHANGED <<build, buffer, read_index, wslot, readerVars>>

Writer == (\E b \in Bytes : WriteStart(b)) \/ WriteFull \/ WriteRoom \/ WriteStore \/ WritePublish

-----------------------------------------------------------------------------
(* ring_buffer_read.                                                        *)

ReadStart ==
  /\ rpc = "idle"
  /\ rpc' = "check"
  /\ UNCHANGED <<build, buffer, read_index, write_index, writerVars, byte, rslot, got>>

ReadEmpty ==
  /\ rpc = "check" /\ read_index = write_index
  /\ rpc' = "idle"
  /\ UNCHANGED <<build, buffer, read_index, write_index, writerVars, byte, rslot, got>>

ReadSome ==
  /\ rpc = "check" /\ read_index # write_index
  /\ rslot' = read_index
  /\ \/ rpc' = "copy"
     \/ build.readerDefers /\ rpc' = "advanceFirst"
  /\ UNCHANGED <<build, buffer, read_index, write_index, writerVars, byte, got>>

ReadCopy ==
  /\ rpc \in {"copy", "copyLate"}
  /\ byte' = buffer[rslot]
  /\ rpc' = IF rpc = "copy" THEN "advance" ELSE "idle"
  /\ got' = IF rpc = "copy" THEN got ELSE buffer[rslot]
  /\ UNCHANGED <<build, buffer, read_index, write_index, writerVars, rslot>>

ReadAdvance ==
  /\ rpc \in {"advance", "advanceFirst"}
  /\ read_index' = NextIndex(read_index)
  /\ rpc' = IF rpc = "advance" THEN "idle" ELSE "copyLate"
  /\ got' = IF rpc = "advance" THEN byte ELSE got
  /\ UNCHANGED <<build, buffer, write_index, writerVars, byte, rslot>>

Reader == ReadStart \/ ReadEmpty \/ ReadSome \/ ReadCopy \/ ReadAdvance

\* On one core the loop thread does not run while the interrupt does.
Next ==
  \/ Writer
  \/ (build.sameCore => wpc = "idle") /\ Reader

Spec == Init /\ [][Next]_vars

-----------------------------------------------------------------------------
TypeOK ==
  /\ build \in Builds
  /\ buffer \in [Index -> Bytes \cup {NoByte}]
  /\ read_index \in Index /\ write_index \in Index
  /\ wpc \in {"idle", "check", "store", "publish", "publishFirst", "storeLate"}
  /\ data \in Bytes \cup {NoByte} /\ wslot \in Index
  /\ rpc \in {"idle", "check", "copy", "advance", "advanceFirst", "copyLate"}
  /\ byte \in Bytes \cup {NoByte} /\ rslot \in Index /\ got \in Bytes \cup {NoByte}

\* ring_buffer_data_count.
Count == IF write_index >= read_index THEN write_index - read_index ELSE write_index - read_index + Capacity

\* The cell that is k cells after read_index.
Cell(k) == IF read_index + k < Capacity THEN read_index + k ELSE read_index + k - Capacity

\* The bytes between the indices, oldest first; the newest may still have to be stored.
Content == [k \in 1 .. Count |-> IF wpc = "storeLate" /\ k = Count THEN data ELSE buffer[Cell(k - 1)]]

\* The cells the two sides are working on, for the proof: they differ, the
\* byte is where it should be, and a deferred store is made before the loop
\* thread goes on.
CellsOK ==
  /\ wpc = "idle" <=> data = NoByte
  /\ wpc \in {"store", "publish", "publishFirst"} => wslot = write_index /\ NextIndex(write_index) # read_index
  /\ wpc = "publish" => buffer[wslot] = data
  /\ wpc = "storeLate" => NextIndex(wslot) = write_index /\ read_index # write_index
  /\ wpc \in {"publishFirst", "storeLate"} => build.writerDefers
  /\ rpc \in {"copy", "advance", "advanceFirst"} => rslot = read_index /\ read_index # write_index
  /\ rpc \in {"copy", "advance", "advanceFirst"} /\ wpc = "storeLate" => rslot # wslot
  /\ rpc = "advance" => byte = buffer[rslot]
  /\ rpc = "copyLate" => NextIndex(rslot) = read_index

-----------------------------------------------------------------------------
(* The ring implements a queue of Capacity - 1 bytes. A byte is put when    *)
(* write_index moves and taken when read_index moves.                       *)

Fifo == INSTANCE ByteFifo WITH
  Depth   <- Capacity - 1,
  fifo    <- Content,
  offered <- IF wpc = "storeLate" THEN NoByte ELSE data,
  asking  <- rpc \in {"check", "copy", "advance", "advanceFirst"},
  got     <- IF rpc = "copyLate" THEN buffer[rslot] ELSE got

\* No byte is lost, repeated, reordered, read before it was stored or
\* overwritten before it was read, a byte is refused only by a full ring and
\* none is found only in an empty one.
ImplementsFifo == Fifo!Spec
===============================================================================
