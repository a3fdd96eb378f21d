---------------------------- MODULE MCRingBuffer ----------------------------
(***************************************************************************)
(* Values for the constants of RingBuffer.                                 *)
(***************************************************************************)
EXTENDS RingBuffer

\* Every build and target but those whose deferred stores another core can miss.
SafeBuilds == {b \in Build : b.writerDefers => b.sameCore}
===============================================================================
