------------------------------ MODULE ByteFifo ------------------------------
(***************************************************************************)
(* What the receive ring promises its one writer and its one reader: a     *)
(* bounded first-in first-out queue that refuses a byte only when it is    *)
(* full and reports that there is none only when it is empty.              *)
(***************************************************************************)
EXTENDS Integers, Sequences

CONSTANTS
  Bytes,   \* what is written
  NoByte,  \* nothing is being written, nothing was read yet
  Depth    \* how many bytes fit

VARIABLES
  fifo,     \* the bytes written and not read, oldest first
  offered,  \* the byte of the write under way
  asking,   \* whether a read is under way
  got       \* the byte the last successful read returned

fvars == <<fifo, offered, asking, got>>

Init ==
  /\ fifo = <<>>
  /\ offered = NoByte
  /\ asking = FALSE
  /\ got = NoByte

Offer(b) ==
  /\ offered = NoByte
  /\ offered' = b
  /\ UNCHANGED <<fifo, asking, got>>

Put ==
  /\ offered # NoByte /\ Len(fifo) < Depth
  /\ fifo' = Append(fifo, offered)
  /\ offered' = NoByte
  /\ UNCHANGED <<asking, got>>

Refuse ==
  /\ offered # NoByte /\ Len(fifo) = Depth
  /\ offered' = NoByte
  /\ UNCHANGED <<fifo, asking, got>>

Ask ==
  /\ ~asking
  /\ asking' = TRUE
  /\ UNCHANGED <<fifo, offered, got>>

Get ==
  /\ asking /\ fifo # <<>>
  /\ got' = Head(fifo)
  /\ fifo' = Tail(fifo)
  /\ asking' = FALSE
  /\ UNCHANGED offered

Nothing ==
  /\ asking /\ fifo = <<>>
  /\ asking' = FALSE
  /\ UNCHANGED <<fifo, offered, got>>

Next == (\E b \in Bytes : Offer(b)) \/ Put \/ Refuse \/ Ask \/ Get \/ Nothing

Spec == Init /\ [][Next]_fvars
===============================================================================
