----------------------------- MODULE AudioFifo -----------------------------
(***************************************************************************)
(* What RealtimeBuffer promises its users, without ring positions: audio   *)
(* comes out in the order it went in, a write to a full buffer pushes the  *)
(* oldest samples out, and a rollback takes back the newest ones.          *)
(*                                                                         *)
(* A rollback that takes back more than the buffer still holds, because    *)
(* the reader was faster, voids the promise until the buffer is cleared.   *)
(***************************************************************************)
EXTENDS Integers, Sequences

CONSTANTS Audio,    \* what one write may put in, sequences of samples
          Capacity

VARIABLES fifo,   \* the samples to come, oldest first
          intact  \* no rollback overtook the reader

fifoVars == <<fifo, intact>>

Newest(s, n) == SubSeq(s, Len(s) - n + 1, Len(s))

FifoInit == fifo = <<>> /\ intact = TRUE

Put(audio) ==
  /\ intact /\ intact' = TRUE
  /\ LET all == fifo \o audio
     IN fifo' = IF Len(all) > Capacity THEN Newest(all, Capacity) ELSE all

Get(n) ==
  /\ intact /\ intact' = TRUE
  /\ fifo' = SubSeq(fifo, n + 1, Len(fifo))

TakeBack(n) ==
  /\ intact /\ intact' = TRUE
  /\ fifo' = SubSeq(fifo, 1, Len(fifo) - n)

Overtake == intact' = FALSE

Empty == fifo' = <<>> /\ intact' = TRUE

FifoNext ==
  \/ \E audio \in Audio : Put(audio)
  \/ \E n \in 0 .. Len(fifo) : Get(n) \/ TakeBack(n)
  \/ Overtake \/ Empty

FifoSpec == FifoInit /\ [][FifoNext]_fifoVars
=============================================================================
