------------------------------- MODULE Minic -------------------------------
(***************************************************************************)
(* The receive path of the miNIC driver (dev/minic.c) running against its  *)
(* DMA engine.  The ring has RxSize words.  The engine reserves a word for *)
(* the descriptor of a frame, writes the payload words behind it, and only *)
(* at the end of the frame stores the descriptor and latches the RX bit of *)
(* EIC_ISR.  The driver is one thread; each access it makes to a register  *)
(* or to the ring is a step, so that the engine can run in between.        *)
(***************************************************************************)
EXTENDS Integers

CONSTANTS
  RxSize,      (* words of dma_rx_buf                                       *)
  MaxWords,    (* payload words of the longest frame                        *)
  MaxFrames,   (* bound: frames the engine completes                        *)
  MaxFaults    (* bound: descriptors the engine fails to store              *)

ASSUME RxSizeAssumption ==
  /\ RxSize \in Nat \ {0}
  /\ MaxWords \in Nat \ {0}
  /\ MaxWords < RxSize
  /\ MaxFrames \in Nat
  /\ MaxFaults \in Nat

VARIABLES
  pc,      (* where the driver is                                           *)
  after,   (* where minic_new_rx_buffer returns to                          *)
  head,    (* minic.rx_head, as a word index                                *)
  cur,     (* desc_hdr: the descriptor read from the head                   *)
  mem,     (* the ring                                                      *)
  wr,      (* the engine's next word                                        *)
  avail,   (* RX_AVAIL: words the engine may write                          *)
  full,    (* MCR.RX_FULL                                                   *)
  rxen,    (* MCR.RX_EN                                                     *)
  isr,     (* EIC_ISR.RX                                                    *)
  dma,     (* the frame being received: words taken so far, 0 when idle     *)
  done,    (* frames completed so far: the next frame's number              *)
  rd,      (* the number of the first frame neither taken nor purged        *)
  out,     (* the number of the last frame copied to the caller             *)
  faults   (* descriptors not stored so far                                 *)

driverVars == << pc, after, head, cur >>
engineVars == << wr, avail, full, rxen, isr, dma >>
ghostVars  == << done, rd, out, faults >>
vars == << driverVars, engineVars, ghostVars, mem >>

Pos == 0 .. RxSize - 1

(* Every address computation of the driver stays below twice the ring, so  *)
(* its "% rx_size" is one conditional subtraction.                         *)
Wrap(p) == IF p >= RxSize THEN p - RxSize ELSE p

Zero == [k |-> "zero", id |-> 0, n |-> 0, err |-> FALSE]
Data(f, i) == [k |-> "data", id |-> f, n |-> i, err |-> FALSE]
Desc(f, n, e) == [k |-> "desc", id |-> f, n |-> n, err |-> e]
Word == [k : {"zero", "desc", "data"}, id : Nat, n : Nat, err : BOOLEAN]
Valid(w) == w.k = "desc"                            \* RX_DESC_VALID

NoFrame == [got |-> 0, n |-> 0, err |-> FALSE]

(* Definitions named <Operator>_<Fault> are seeded faults: wrong versions  *)
(* of the operator that follows them, each rejected by a property.         *)
NumWords_OneMore(d) == d.n + 2

(* num_words: the payload rounded up to words, and the descriptor.         *)
NumWords(d) == d.n + 1

FromHead_NoWrap(m) == { head + i : i \in 0 .. m - 1 } \cap Pos

(* The m words from the head on, cyclically: what minic_rx_memset clears.  *)
FromHead(m) == { Wrap(head + i) : i \in 0 .. m - 1 }

PC == {"idle", "desc", "copy", "zero", "avail", "check", "valid", "full",
       "ack", "stop", "setup", "enable"}

-----------------------------------------------------------------------------
(* The driver.                                                             *)

(* After minic_init.                                                       *)
Init ==
  /\ pc = "idle" /\ after = "idle" /\ head = 0 /\ cur = Zero
  /\ mem = [p \in Pos |-> Zero]
  /\ wr = 0 /\ avail = RxSize /\ full = FALSE /\ rxen = TRUE /\ isr = FALSE
  /\ dma = NoFrame
  /\ done = 0 /\ rd = 0 /\ out = -1 /\ faults = 0

Goto(from, to) == pc = from /\ pc' = to

(* minic_rx_frame, 174: the RX bit is clear, nothing to do.                *)
RxNothing == pc = "idle" /\ ~isr /\ UNCHANGED vars

RxPoll ==
  /\ isr
  /\ Goto("idle", "desc")
  /\ UNCHANGED << after, head, cur, mem, engineVars, ghostVars >>

RxDesc_AnyWord ==
  /\ cur' = mem[head]
  /\ Goto("desc", "copy")
  /\ UNCHANGED << after, head, mem, engineVars, ghostVars >>

(* 179-188: a valid descriptor is taken, any other purges the ring.        *)
RxDesc ==
  /\ cur' = mem[head]
  /\ IF Valid(mem[head])
       THEN Goto("desc", "copy") /\ UNCHANGED after
       ELSE Goto("desc", "stop") /\ after' = "idle"
  /\ UNCHANGED << head, mem, engineVars, ghostVars >>

(* 192-234: the frame, or -1 for an erroneous one, goes to the caller.     *)
RxCopy ==
  /\ Goto("copy", "zero")
  /\ out' = cur.id
  /\ rd' = rd + 1
  /\ UNCHANGED << after, head, cur, mem, engineVars, done, faults >>

(* minic_rxbuf_free: the words are cleared first, and then given back.     *)
RxZero ==
  /\ Goto("zero", "avail")
  /\ mem' = [p \in Pos |-> IF p \in FromHead(NumWords(cur)) THEN Zero ELSE mem[p]]
  /\ UNCHANGED << after, head, cur, engineVars, ghostVars >>

RxAvail ==
  /\ Goto("avail", "check")
  /\ avail' = avail + NumWords(cur)
  /\ head' = Wrap(head + NumWords(cur))
  /\ UNCHANGED << after, cur, mem, wr, full, rxen, isr, dma, ghostVars >>

(* 238-241: the ring is read as empty, or the next descriptor is read.     *)
RxCheck ==
  /\ Goto("check", IF avail = RxSize THEN "full" ELSE "valid")
  /\ UNCHANGED << after, head, cur, mem, engineVars, ghostVars >>

RxValid_NotLooked ==
  /\ Goto("valid", "full")
  /\ UNCHANGED << after, head, cur, mem, engineVars, ghostVars >>

RxValid ==
  /\ Goto("valid", IF Valid(mem[head]) THEN "idle" ELSE "full")
  /\ UNCHANGED << after, head, cur, mem, engineVars, ghostVars >>

RxFull ==
  /\ IF full
       THEN Goto("full", "stop") /\ after' = "ack"
       ELSE Goto("full", "ack") /\ UNCHANGED after
  /\ UNCHANGED << head, cur, mem, engineVars, ghostVars >>

RxAck_KeepsFlag ==
  /\ Goto("ack", "idle")
  /\ UNCHANGED << after, head, cur, mem, engineVars, ghostVars >>

RxAck ==
  /\ Goto("ack", "idle")
  /\ isr' = FALSE
  /\ UNCHANGED << after, head, cur, mem, wr, avail, full, rxen, dma, ghostVars >>

RxStop_NotStopped ==
  /\ Goto("stop", "setup")
  /\ UNCHANGED << after, head, cur, mem, engineVars, ghostVars >>

(* minic_new_rx_buffer: stop the engine, clear and hand over the whole     *)
(* ring, forget old interrupts, start the engine.                          *)
RxStop ==
  /\ Goto("stop", "setup")
  /\ rxen' = FALSE
  /\ dma' = NoFrame
  /\ UNCHANGED << after, head, cur, mem, wr, avail, full, isr, ghostVars >>

RxSetup_NotCleared ==
  /\ Goto("setup", "enable")
  /\ head' = 0
  /\ wr' = 0 /\ avail' = RxSize
  /\ isr' = FALSE
  /\ rd' = done
  /\ UNCHANGED << after, cur, mem, full, rxen, dma, done, out, faults >>

RxSetup ==
  /\ Goto("setup", "enable")
  /\ head' = 0
  /\ mem' = [p \in Pos |-> Zero]
  /\ wr' = 0 /\ avail' = RxSize
  /\ isr' = FALSE
  /\ rd' = done
  /\ UNCHANGED << after, cur, full, rxen, dma, done, out, faults >>

RxEnable ==
  /\ Goto("enable", after)
  /\ rxen' = TRUE
  /\ full' = FALSE
  /\ UNCHANGED << after, head, cur, mem, wr, avail, isr, dma, ghostVars >>

Driver ==
  \/ RxPoll \/ RxDesc \/ RxCopy \/ RxZero \/ RxAvail \/ RxCheck \/ RxValid
  \/ RxFull \/ RxAck \/ RxStop \/ RxSetup \/ RxEnable

-----------------------------------------------------------------------------
(* The DMA engine (external: what the driver's comments and its use of the *)
(* registers say of it).                                                   *)

Receiving == rxen /\ ~full

(* A frame begins: a word is reserved for its descriptor.                  *)
HwStart ==
  /\ Receiving /\ dma.got = 0 /\ avail > 0 /\ done < MaxFrames
  /\ \E n \in 1 .. MaxWords, e \in BOOLEAN : dma' = [got |-> 1, n |-> n, err |-> e]
  /\ wr' = Wrap(wr + 1)
  /\ avail' = avail - 1
  /\ UNCHANGED << driverVars, mem, full, rxen, isr, ghostVars >>

HwWord ==
  /\ Receiving /\ dma.got \in 1 .. dma.n /\ avail > 0
  /\ mem' = [mem EXCEPT ![wr] = Data(done, dma.got)]
  /\ dma' = [dma EXCEPT !.got = @ + 1]
  /\ wr' = Wrap(wr + 1)
  /\ avail' = avail - 1
  /\ UNCHANGED << driverVars, full, rxen, isr, ghostVars >>

(* The word reserved for the descriptor of the frame being received.       *)
DescPos == Wrap(wr + RxSize - dma.got)

HwDone ==
  /\ Receiving /\ dma.got = dma.n + 1
  /\ mem' = [mem EXCEPT ![DescPos] = Desc(done, dma.n, dma.err)]
  /\ dma' = NoFrame
  /\ done' = done + 1
  /\ isr' = TRUE
  /\ UNCHANGED << driverVars, wr, avail, full, rxen, rd, out, faults >>

(* The engine's known fault (comment at 133): the descriptor goes astray,  *)
(* outside the protected buffer, and is not stored; the interrupt comes.   *)
HwFault ==
  /\ Receiving /\ dma.got = dma.n + 1 /\ faults < MaxFaults
  /\ dma' = NoFrame
  /\ faults' = faults + 1
  /\ isr' = TRUE
  /\ UNCHANGED << driverVars, mem, wr, avail, full, rxen, done, rd, out >>

(* No word left: the frame is dropped and the engine waits for a new ring. *)
(* Nothing in the driver says whether it raises the interrupt: it may.     *)
HwOverflow ==
  /\ Receiving /\ avail = 0
  /\ IF dma.got = 0 THEN done < MaxFrames ELSE dma.got <= dma.n
  /\ dma' = NoFrame
  /\ full' = TRUE
  /\ isr' \in {isr, TRUE}
  /\ UNCHANGED << driverVars, mem, wr, avail, rxen, ghostVars >>

Engine == HwStart \/ HwWord \/ HwDone \/ HwFault \/ HwOverflow

Next == RxNothing \/ Driver \/ Engine

Spec == Init /\ [][Next]_vars

(* The main loop calls the receive path again and again, and every step of *)
(* it ends: the driver never stops.  Nothing is assumed of the engine.     *)
FairSpec == Spec /\ WF_vars(Driver)

-----------------------------------------------------------------------------
(* The layout of the ring, by offset from the head.  Offsets below Base    *)
(* are the driver's frame already taken, offsets from Base to Start hold   *)
(* completed frames, those from Start to Used the frame being received,    *)
(* and those from Used on are the engine's to write.                       *)
At(o) == mem[Wrap(head + o)]
Used == RxSize - avail
Start == Used - dma.got
Base == IF pc \in {"zero", "avail"} THEN NumWords(cur) ELSE 0

(* The state has its type.                                                 *)
TypeOK ==
  /\ pc \in PC /\ after \in {"idle", "ack"} /\ head \in Pos /\ cur \in Word
  /\ mem \in [Pos -> Word]
  /\ wr \in Pos /\ avail \in 0 .. RxSize
  /\ full \in BOOLEAN /\ rxen \in BOOLEAN /\ isr \in BOOLEAN
  /\ dma \in [got : 0 .. MaxWords + 1, n : 0 .. MaxWords, err : BOOLEAN]
  /\ dma.got <= dma.n + 1
  /\ (dma.got > 0 => dma.n > 0)
  /\ done \in Nat /\ rd \in Nat /\ out \in Nat \cup {-1} /\ faults \in Nat

(* The driver's head, RX_AVAIL and the engine's pointer, three counters    *)
(* kept on two sides of the bus, always describe the same ring: the words  *)
(* the engine may still write end exactly where the driver's head is, so   *)
(* neither side ever writes what the other one still uses.                 *)
RingAgrees ==
  /\ wr = Wrap(head + Used)
  /\ Base <= Start

(* Every word the engine may still write is zero, and so is the word       *)
(* reserved for a descriptor: the valid bit the driver looks for behind    *)
(* the last frame can never be a leftover of an older frame                *)
(* (minic_rxbuf_free clears before it gives back).                         *)
FreeWordsZero ==
  \A o \in Pos : o >= Used \/ (dma.got > 0 /\ o = Start) => At(o) = Zero

(* What the driver copies to its caller is the frame it expects, whole:    *)
(* the descriptor is that of the oldest frame neither taken nor purged,    *)
(* and each payload word is the one the engine received for that frame,    *)
(* even while the engine receives others.                                  *)
CopyIntact ==
  pc = "copy" =>
    /\ cur.id = rd
    /\ rd < done
    /\ \A i \in 1 .. cur.n : At(i) = Data(rd, i)

(* Without a descriptor gone astray, the branch the code calls "Weird"     *)
(* (181) is never taken: whenever the interrupt makes the driver look,     *)
(* there is a frame at its head or the ring overflowed.                    *)
NoSpuriousPurge ==
  pc = "stop" /\ after = "idle" /\ ~full => faults > 0

(* The frames taken by the caller are a first-in first-out queue of the    *)
(* frames received, whatever the interleaving (see FrameFifo).             *)
Fifo == INSTANCE FrameFifo WITH sent <- done, taken <- rd
RefinesFifo == Fifo!FifoSpec

(* A frame the driver could have been told of - it waits in the ring while *)
(* the interrupt bit is set and the driver is between two calls - is in    *)
(* the end taken (or purged): no later step of the driver that clears the  *)
(* bit leaves it behind.                                                   *)
NotifiedIsTaken ==
  \A f \in 0 .. MaxFrames - 1 :
    (pc = "idle" /\ isr /\ faults = 0 /\ f \in rd .. done - 1) ~> rd > f

(* The interrupt bit is cleared only on an empty ring or while a frame is  *)
(* still being received (the comment at 240).                              *)
AckOnlyWhenDrained == pc = "ack" => ~Valid(At(0))

-----------------------------------------------------------------------------
(* The inductive invariant the proofs rest on.                             *)

(* Frames lie back to back: behind a descriptor come its payload words and *)
(* then the next frame, never the middle of one.                           *)
Chained ==
  \A o \in Pos :
    LET d == At(o) IN
    o >= Base /\ o < Used /\ Valid(d) =>
      /\ d.n \in 1 .. MaxWords /\ o + d.n + 1 <= Start /\ d.id < done
      /\ \A i \in 1 .. d.n : At(o + i) = Data(d.id, i)
      /\ o + d.n + 1 = Start => d.id + 1 = done
      /\ o + d.n + 1 < Used =>
           /\ At(o + d.n + 1).k # "data"
           /\ Valid(At(o + d.n + 1)) => At(o + d.n + 1).id = d.id + 1

(* The first frame not taken is the one numbered rd.                       *)
FirstIsNext ==
  /\ rd <= done
  /\ Base < Used => At(Base).k # "data" /\ (Valid(At(Base)) => At(Base).id = rd)
  /\ Base = Start => rd = done

(* The words of the frame being received.                                  *)
Filling ==
  /\ \A i \in 1 .. MaxWords : i < dma.got => At(Start + i) = Data(done, i)

(* What the driver has read and not yet acted on.                          *)
DriverHolds ==
  /\ pc = "copy" => Valid(At(0)) /\ cur = At(0)
  /\ pc \in {"zero", "avail"} => cur.n \in 1 .. MaxWords
  /\ pc = "avail" => \A i \in Pos : i < NumWords(cur) => At(i) = Zero
  /\ pc \in {"setup", "enable"} <=> ~rxen
  /\ ~rxen => dma.got = 0
  /\ pc = "enable" => rd = done /\ avail = RxSize

IInv ==
  TypeOK /\ RingAgrees /\ FreeWordsZero /\ Chained /\ FirstIsNext /\ Filling /\ DriverHolds

(* Nothing has gone wrong since the ring was handed over.                  *)
Undisturbed == faults = 0 /\ ~full

(* The completed frames are one chain without a gap: the first word is a   *)
(* descriptor, and where a frame ends before Start the next one begins.    *)
NoHoles ==
  Undisturbed /\ rxen =>
    /\ Base < Start => Valid(At(Base))
    /\ \A o \in Pos :
         o >= Base /\ Valid(At(o)) /\ o + At(o).n + 1 < Start =>
           Valid(At(o + At(o).n + 1))

(* The interrupt bit that makes the driver look at its head is set only    *)
(* while a completed frame waits.                                          *)
FrameWaits ==
  /\ Undisturbed /\ (pc = "desc" \/ (pc = "idle" /\ isr)) => 0 < Start
  /\ pc = "enable" => ~isr

PurgeInv == IInv /\ NoHoles /\ FrameWaits /\ NoSpuriousPurge
=============================================================================
