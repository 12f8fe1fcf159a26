------------------------------ MODULE MinicTx ------------------------------
(***************************************************************************)
(* The transmit path of the miNIC driver (dev/minic.c).  Every frame is    *)
(* put at the start of one buffer: a descriptor, the frame, padded to the  *)
(* shortest length Ethernet allows, and what tells the engine to stop.     *)
(* The engine sends what the descriptor says, takes the word behind it for *)
(* the next descriptor, and goes idle at one that is not valid.  It is     *)
(* external; that it goes by descriptors in a row is what the driver's     *)
(* clearing of the word behind a frame relies on.                          *)
(***************************************************************************)
EXTENDS Integers, Sequences

CONSTANTS
  TxWords,   (* words of dma_tx_buf: 256                                    *)
  MinWords,  (* of the shortest frame, without its checksum: 60 bytes, 15   *)
  Slack,     (* words cleared beyond the size of a frame: 16 bytes, 4       *)
  TxFrames   (* frames that are asked for, as sequences of words            *)

TxWord == [valid : BOOLEAN, n : Nat]

(* The length a frame is padded to.                                        *)
PaddedTo(n) == IF n < MinWords THEN MinWords ELSE n

(* The callers send no frame longer than half the buffer (lib/ipv4.c:44).  *)
ASSUME TxAssumption ==
  /\ TxWords \in Nat /\ MinWords \in Nat \ {0} /\ Slack \in Nat \ {0, 1}
  /\ TxFrames \subseteq Seq(TxWord)
  /\ \A f \in TxFrames :
       Len(f) > 0 /\ 2 * PaddedTo(Len(f)) < TxWords /\ Len(f) + Slack <= TxWords

VARIABLES
  buf,      (* dma_tx_buf; of a word, its top bit, which makes a descriptor *)
            (* valid, and the length it names as one                        *)
  sending,  (* whether the driver waits for TX_IDLE                         *)
  at_desc,  (* where the engine looks for its next descriptor               *)
  tx_frame, (* the frame asked for                                          *)
  wire,     (* what was sent of it: history                                 *)
  dirty     (* whether a longer frame has left its words behind the place   *)
            (* where the shortest frame ends: history                       *)

txVars == << buf, sending, at_desc, tx_frame, wire, dirty >>

Blanked == [valid |-> FALSE, n |-> 0]
Descriptor(n) == [valid |-> TRUE, n |-> n]

(* Before the first frame: the buffer is zero, as all static memory.       *)
TxInit ==
  /\ buf = [i \in 0 .. TxWords - 1 |-> Blanked]
  /\ sending = FALSE /\ at_desc = 0 /\ tx_frame = << >> /\ wire = << >> /\ dirty = FALSE

-----------------------------------------------------------------------------
(* The two memset calls: up to the size and its slack, and up to the end   *)
(* of the padded frame.                                                    *)

(* As in module Minic, <Operator>_<Fault> names a seeded fault.            *)
Cleared_NoSlack(len) == 0 .. PaddedTo(len)

Cleared(len) == 0 .. len + Slack - 1 \cup 1 .. PaddedTo(len)

(* The padded frame.                                                       *)
Padded(f) == [i \in 1 .. PaddedTo(Len(f)) |-> IF i <= Len(f) THEN f[i] ELSE Blanked]

(* The length of a frame is counted in half words, and the pointer it is   *)
(* added to is one to words: the word that is cleared last is twice as far *)
(* away as the end of the frame.                                           *)
BufferWith(f) ==
  LET n == PaddedTo(Len(f)) IN
  [i \in 0 .. TxWords - 1 |->
     IF i = 0 THEN Descriptor(n)
     ELSE IF i = 2 * n THEN Blanked
     ELSE IF i <= Len(f) THEN f[i]
     ELSE IF i \in Cleared(Len(f)) THEN Blanked ELSE buf[i]]

(* Where the word behind the padded frame is not among those cleared.      *)
Short(f) == Len(f) + Slack <= MinWords + 1

minic_tx_frame ==
  /\ ~sending
  /\ \E f \in TxFrames :
       /\ buf' = BufferWith(f) /\ tx_frame' = f
       /\ dirty' = IF Len(f) > MinWords THEN TRUE ELSE dirty /\ Short(f)
  /\ sending' = TRUE /\ at_desc' = 0 /\ wire' = << >>

(* What lies behind the buffer is taken for words that end a transmission. *)
WordAt(i) == IF i < TxWords THEN buf[i] ELSE Blanked

EngineSends ==
  /\ sending /\ WordAt(at_desc).valid
  /\ LET n == WordAt(at_desc).n IN
       /\ wire' = Append(wire, [i \in 1 .. n |-> WordAt(at_desc + i)])
       /\ at_desc' = at_desc + n + 1
  /\ UNCHANGED << buf, sending, tx_frame, dirty >>

(* The call returns as soon as the engine is idle.                         *)
EngineStops ==
  /\ sending /\ ~WordAt(at_desc).valid
  /\ sending' = FALSE
  /\ UNCHANGED << buf, at_desc, tx_frame, wire, dirty >>

TxNext == minic_tx_frame \/ EngineSends \/ EngineStops

TxSpec == TxInit /\ [][TxNext]_txVars

-----------------------------------------------------------------------------
(* The engine sends the frame asked for, padded with zeros, and nothing    *)
(* behind it, except behind a short frame after a longer one, whose word   *)
(* there was not cleared; and the call returns when all of it is sent.     *)
SendsAsked ==
  /\ wire # << >> => wire[1] = Padded(tx_frame)
  /\ Len(wire) > 1 => dirty /\ Short(tx_frame)
  /\ ~sending /\ tx_frame # << >> => wire # << >>

-----------------------------------------------------------------------------
(* The inductive invariant behind SendsAsked.                              *)
EndsAt == PaddedTo(Len(tx_frame)) + 1

TxInv ==
  /\ buf \in [0 .. TxWords - 1 -> TxWord]
  /\ tx_frame \in TxFrames \cup {<< >>} /\ dirty \in BOOLEAN /\ at_desc \in Nat
  /\ ~dirty => WordAt(MinWords + 1) = Blanked
  /\ sending /\ tx_frame # << >> =>
       /\ buf[0] = Descriptor(PaddedTo(Len(tx_frame)))
       /\ \A i \in 1 .. PaddedTo(Len(tx_frame)) : buf[i] = Padded(tx_frame)[i]
       /\ (dirty /\ Short(tx_frame)) \/ WordAt(EndsAt) = Blanked
  /\ sending => /\ tx_frame # << >> /\ wire \in Seq(Seq(TxWord))
                /\ wire = << >> => at_desc = 0
                /\ Len(wire) = 1 => at_desc = EndsAt
  /\ SendsAsked
=============================================================================
