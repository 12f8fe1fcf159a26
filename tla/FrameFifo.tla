----------------------------- MODULE FrameFifo -----------------------------
(***************************************************************************)
(* What the miNIC receive path promises its caller, whatever the ring, the *)
(* DMA engine and the interrupt flag do: the frames the hardware completes *)
(* are numbered 0, 1, 2, ...; the caller gets each frame at most once, in  *)
(* that order, and frames are skipped only by a purge that drops           *)
(* everything not yet taken.                                               *)
(***************************************************************************)
EXTENDS Integers

VARIABLES
  sent,   (* number of frames completed by the hardware                    *)
  taken,  (* number of the next frame the caller is to get                 *)
  out     (* number of the last frame the caller got, -1 before the first  *)

fifoVars == << sent, taken, out >>

FifoInit == sent = 0 /\ taken = 0 /\ out = -1

Arrive ==
  /\ sent' = sent + 1
  /\ UNCHANGED << taken, out >>

Deliver ==
  /\ taken < sent
  /\ out' = taken
  /\ taken' = taken + 1
  /\ UNCHANGED sent

Purge ==
  /\ taken' = sent
  /\ UNCHANGED << sent, out >>

FifoNext == Arrive \/ Deliver \/ Purge

FifoSpec == FifoInit /\ [][FifoNext]_fifoVars

=============================================================================
