---------------------------- MODULE MinicProofs ----------------------------
(***************************************************************************)
(* Proofs about the miNIC receive path, for every ring size, frame length  *)
(* and number of frames, and about the transmit path, for any frames that  *)
(* fit in half of the buffer, in any order.                                *)
(***************************************************************************)
EXTENDS Minic, MinicTx, TLAPS

(* The addresses the driver computes, one turn of the ring at a time.      *)
LEMMA WrapInPos ==
  ASSUME NEW p \in Int, 0 <= p, p < 2 * RxSize
  PROVE  Wrap(p) \in Pos
BY RxSizeAssumption DEF Wrap, Pos

(* Offsets add up: wrapping twice is wrapping once.                        *)
LEMMA WrapTwice ==
  ASSUME NEW p \in Pos, NEW m \in Int, NEW o \in Int,
         0 <= m, 0 <= o, m + o <= RxSize
  PROVE  Wrap(Wrap(p + m) + o) = Wrap(p + m + o)
BY RxSizeAssumption DEF Wrap, Pos

(* Wrapping undoes going back around the ring.                             *)
LEMMA WrapBack ==
  ASSUME NEW p \in Pos, NEW u \in Int, NEW g \in Int, 0 <= g, g <= u, u <= RxSize
  PROVE  Wrap(Wrap(p + u) + RxSize - g) = Wrap(p + (u - g))
BY RxSizeAssumption DEF Wrap, Pos

(* Two different offsets are two different words.                          *)
LEMMA WrapInjective ==
  ASSUME NEW p \in Pos, NEW a \in Pos, NEW b \in Pos, Wrap(p + a) = Wrap(p + b)
  PROVE  a = b
BY RxSizeAssumption DEF Wrap, Pos

(* The words from the head on, by offset.                                  *)
LEMMA FromHeadOffset ==
  ASSUME head \in Pos, NEW m \in Int, 0 <= m, m <= RxSize, NEW o \in Pos
  PROVE  Wrap(head + o) \in FromHead(m) <=> o < m
<1>1. CASE o < m
  BY <1>1, RxSizeAssumption DEF FromHead, Pos
<1>2. CASE ~(o < m)
  <2>1. \A i \in 0 .. m - 1 : i \in Pos /\ i # o
    BY <1>2, RxSizeAssumption DEF Pos
  <2>2. QED BY <1>2, <2>1, WrapInjective DEF FromHead
<1>3. QED BY <1>1, <1>2

(* The empty ring of minic_init satisfies the invariant.                   *)
LEMMA InitIInv == Init => IInv
<1> SUFFICES ASSUME Init PROVE IInv
  OBVIOUS
<1> USE RxSizeAssumption DEF Init
<1>1. TypeOK
  <2>1. Zero \in Word
    BY DEF Zero, Word
  <2>2. mem \in [Pos -> Word]
    BY <2>1
  <2>3. dma \in [got : 0 .. MaxWords + 1, n : 0 .. MaxWords, err : BOOLEAN]
    BY DEF NoFrame
  <2>4. dma.got <= dma.n + 1 /\ (dma.got > 0 => dma.n > 0)
    BY DEF NoFrame
  <2>5. pc \in PC /\ head \in Pos /\ wr \in Pos
    BY DEF PC, Pos
  <2>6. avail \in 0 .. RxSize /\ out \in Nat \cup {-1}
    OBVIOUS
  <2>7. full \in BOOLEAN /\ rxen \in BOOLEAN /\ isr \in BOOLEAN /\ cur \in Word
    BY <2>1
  <2>8. after \in {"idle", "ack"} /\ done \in Nat /\ rd \in Nat /\ faults \in Nat
    OBVIOUS
  <2> HIDE DEF Init
  <2>9. QED BY ONLY <2>2, <2>3, <2>4, <2>5, <2>6, <2>7, <2>8 DEF TypeOK
<1>2. Used = 0 /\ Start = 0 /\ Base = 0
  BY DEF Used, Start, Base, NoFrame
<1>3. \A o \in Pos : At(o) = Zero
  BY DEF At, Pos, Wrap
<1>4. RingAgrees
  BY <1>2 DEF RingAgrees, Wrap, Pos
<1>5. FreeWordsZero
  BY <1>3 DEF FreeWordsZero
<1>6. Chained
  BY <1>2 DEF Chained, Pos
<1>7. FirstIsNext
  BY <1>2 DEF FirstIsNext
<1>8. Filling
  BY DEF Filling, NoFrame
<1>9. DriverHolds
  BY DEF DriverHolds, NoFrame
<1>10. QED BY <1>1, <1>4, <1>5, <1>6, <1>7, <1>8, <1>9 DEF IInv

(* A step that touches neither the ring nor a counter, and neither takes   *)
(* nor returns a frame, keeps the layout.                                  *)
LEMMA LayoutUntouched ==
  ASSUME IInv, UNCHANGED << head, mem, wr, avail, dma, done, rd >>, Base' = Base
  PROVE  (RingAgrees /\ FreeWordsZero /\ Chained /\ FirstIsNext /\ Filling)'
<1>1. Used' = Used /\ Start' = Start
  BY DEF Used, Start
<1>2. \A o : At(o)' = At(o)
  BY DEF At
<1>3. RingAgrees'
  BY <1>1 DEF IInv, RingAgrees
<1>4. FreeWordsZero'
  BY <1>1, <1>2 DEF IInv, FreeWordsZero
<1>5. Chained'
  BY <1>1, <1>2 DEF IInv, Chained
<1>6. FirstIsNext'
  BY <1>1, <1>2 DEF IInv, FirstIsNext
<1>7. Filling'
  BY <1>1, <1>2 DEF IInv, Filling
<1>8. QED BY <1>3, <1>4, <1>5, <1>6, <1>7

(* A frame being received is given up: its words stay used, unfilled.      *)
LEMMA LayoutAborted ==
  ASSUME IInv, UNCHANGED << head, mem, wr, avail, done, rd >>, Base' = Base,
         dma' = NoFrame
  PROVE  (RingAgrees /\ FreeWordsZero /\ Chained /\ FirstIsNext /\ Filling)'
<1> USE RxSizeAssumption DEF IInv, TypeOK
<1>1. Used' = Used /\ Start' = Used /\ Start <= Used /\ Used \in 0 .. RxSize
  BY DEF Used, Start, NoFrame
<1>2. \A o : At(o)' = At(o)
  BY DEF At
<1>3. dma'.got = 0
  BY DEF NoFrame
<1>4. Start \in Int /\ Base \in Int /\ (dma.got = 0 => Start = Used)
  BY DEF Start, Used, Base, NumWords, Word
<1>5. RingAgrees'
  BY <1>1, <1>4 DEF RingAgrees
<1>6. FreeWordsZero'
  BY <1>1, <1>2, <1>3 DEF FreeWordsZero, Pos
<1>7. Chained'
  <2> SUFFICES ASSUME NEW o \in Pos, o >= Base, o < Used, Valid(At(o))
               PROVE  LET d == At(o) IN
                      /\ d.n \in 1 .. MaxWords /\ o + d.n + 1 <= Used /\ d.id < done
                      /\ \A i \in 1 .. d.n : At(o + i) = Data(d.id, i)
                      /\ o + d.n + 1 = Used => d.id + 1 = done
                      /\ o + d.n + 1 < Used =>
                           /\ At(o + d.n + 1).k # "data"
                           /\ Valid(At(o + d.n + 1)) => At(o + d.n + 1).id = d.id + 1
    BY <1>1, <1>2 DEF Chained
  <2> DEFINE d == At(o)
             e == o + d.n + 1
  <2>1. /\ d.n \in 1 .. MaxWords /\ e <= Start /\ d.id < done
        /\ \A i \in 1 .. d.n : At(o + i) = Data(d.id, i)
        /\ e = Start => d.id + 1 = done
        /\ e < Used => At(e).k # "data" /\ (Valid(At(e)) => At(e).id = d.id + 1)
    BY DEF Chained
  <2>2. e \in Int
    BY <2>1 DEF Pos
  <2> HIDE DEF e, IInv, TypeOK
  <2>3. e <= Used /\ (e = Used => e = Start)
    BY <2>1, <2>2, <1>1, <1>4
  <2>4. QED BY <2>1, <2>3 DEF e
<1>8. FirstIsNext'
  <2>1. Base = Used => Base = Start
    BY <1>1, <1>4 DEF RingAgrees
  <2>2. QED BY <1>1, <1>2, <2>1 DEF FirstIsNext
<1>9. Filling'
  BY <1>3 DEF Filling
<1>10. QED BY <1>5, <1>6, <1>7, <1>8, <1>9

(* Steps of the driver that change neither the ring nor its counters keep  *)
(* the invariant.                                                          *)
LEMMA QuietStep ==
  ASSUME IInv, RxPoll \/ RxDesc \/ RxCheck \/ RxValid \/ RxFull \/ RxAck \/ RxEnable
  PROVE  IInv'
<1> USE DEF Goto, engineVars, ghostVars
<1>1. Base' = Base /\ UNCHANGED << head, mem, wr, avail, dma, done, rd >>
  BY DEF Base, RxPoll, RxDesc, RxCheck, RxValid, RxFull, RxAck, RxEnable, IInv, TypeOK
<1>2. (RingAgrees /\ FreeWordsZero /\ Chained /\ FirstIsNext /\ Filling)'
  BY <1>1, LayoutUntouched
<1>3. TypeOK'
  <2>1. cur' \in Word
    BY DEF RxPoll, RxDesc, RxCheck, RxValid, RxFull, RxAck, RxEnable, IInv, TypeOK
  <2>2. pc' \in PC /\ after' \in {"idle", "ack"}
    BY DEF RxPoll, RxDesc, RxCheck, RxValid, RxFull, RxAck, RxEnable, IInv, TypeOK, PC
  <2>3. full' \in BOOLEAN /\ rxen' \in BOOLEAN /\ isr' \in BOOLEAN
    BY DEF RxPoll, RxDesc, RxCheck, RxValid, RxFull, RxAck, RxEnable, IInv, TypeOK
  <2>4. UNCHANGED << out, faults >>
    BY DEF RxPoll, RxDesc, RxCheck, RxValid, RxFull, RxAck, RxEnable
  <2>5. QED BY <1>1, <2>1, <2>2, <2>3, <2>4 DEF IInv, TypeOK
<1>4. DriverHolds'
  <2>1. CASE RxDesc
    <3>1. head \in 0 .. RxSize - 1
      BY DEF IInv, TypeOK, Pos
    <3>2. At(0) = mem[head]
      BY <3>1, RxSizeAssumption DEF At, Wrap
    <3>3. At(0)' = At(0)
      BY <1>1 DEF At
    <3>4. QED BY <2>1, <3>2, <3>3 DEF RxDesc, DriverHolds, IInv, TypeOK
  <2>2. CASE RxEnable
    BY <2>2 DEF RxEnable, DriverHolds, IInv, TypeOK
  <2>3. CASE RxPoll \/ RxCheck \/ RxValid \/ RxFull \/ RxAck
    BY <2>3 DEF RxPoll, RxCheck, RxValid, RxFull, RxAck, DriverHolds, IInv, TypeOK
  <2>4. QED BY <2>1, <2>2, <2>3
<1>5. QED BY <1>2, <1>3, <1>4 DEF IInv

(* So do the steps that end the frame being received.                      *)
LEMMA AbortStep ==
  ASSUME IInv, RxStop \/ HwFault \/ HwOverflow
  PROVE  IInv'
<1> USE DEF Goto, ghostVars, driverVars
<1>1. Base' = Base /\ UNCHANGED << head, mem, wr, avail, done, rd >> /\ dma' = NoFrame
  BY DEF Base, RxStop, HwFault, HwOverflow
<1>2. (RingAgrees /\ FreeWordsZero /\ Chained /\ FirstIsNext /\ Filling)'
  BY <1>1, LayoutAborted
<1>3. TypeOK'
  <2>1. pc' \in PC
    BY DEF RxStop, HwFault, HwOverflow, IInv, TypeOK, PC
  <2>2. full' \in {full, TRUE} /\ rxen' \in {rxen, FALSE} /\ isr' \in {isr, TRUE}
    BY DEF RxStop, HwFault, HwOverflow
  <2>6. full \in BOOLEAN /\ rxen \in BOOLEAN /\ isr \in BOOLEAN
    BY DEF IInv, TypeOK
  <2>7. full' \in BOOLEAN /\ rxen' \in BOOLEAN /\ isr' \in BOOLEAN
    BY <2>2, <2>6
  <2>8. faults' \in {faults, faults + 1} /\ UNCHANGED << after, cur, out >>
    BY DEF RxStop, HwFault, HwOverflow
  <2>3. faults' \in Nat /\ UNCHANGED << after, cur, out >>
    BY <2>8 DEF IInv, TypeOK
  <2>4. /\ dma' \in [got : 0 .. MaxWords + 1, n : 0 .. MaxWords, err : BOOLEAN]
        /\ dma'.got <= dma'.n + 1 /\ (dma'.got > 0 => dma'.n > 0)
    BY <1>1, RxSizeAssumption DEF NoFrame
  <2>5. QED BY <1>1, <2>1, <2>3, <2>4, <2>7 DEF IInv, TypeOK
<1>4. DriverHolds'
  <2>1. dma'.got = 0
    BY <1>1 DEF NoFrame
  <2>2. \A o : At(o)' = At(o)
    BY <1>1 DEF At
  <2>3. CASE RxStop
    BY <2>1, <2>3 DEF RxStop, DriverHolds, IInv, TypeOK
  <2>4. CASE HwFault \/ HwOverflow
    <3>1. UNCHANGED << pc, cur, rxen, rd, done, avail >>
      BY <1>1, <2>4 DEF HwFault, HwOverflow
    <3>2. DriverHolds
      BY DEF IInv
    <3>3. QED BY <3>1, <3>2, <2>1, <2>2 DEF DriverHolds, NumWords, Valid
  <2>5. QED BY <2>3, <2>4
<1>5. QED BY <1>2, <1>3, <1>4 DEF IInv

(* The types of the offsets, and the frame under the driver's hands.       *)
LEMMA Offsets ==
  ASSUME IInv
  PROVE  /\ Used \in 0 .. RxSize /\ Start \in 0 .. Used /\ Base \in 0 .. Start
         /\ head \in Pos /\ dma.got \in 0 .. MaxWords + 1 /\ dma.n \in 0 .. MaxWords
         /\ Used = Start + dma.got
<1> USE RxSizeAssumption DEF IInv, TypeOK
<1>1. Used \in 0 .. RxSize /\ dma.got \in 0 .. MaxWords + 1 /\ dma.n \in 0 .. MaxWords
  BY DEF Used
<1>2. Base \in Nat
  BY DEF Base, NumWords, Word
<1>3. QED BY <1>1, <1>2 DEF Start, RingAgrees

(* So does handing a frame to the caller.                                  *)
LEMMA CopyStep == ASSUME IInv, RxCopy PROVE IInv'
<1> USE RxSizeAssumption DEF Goto
<1>1. /\ pc = "copy" /\ pc' = "zero" /\ out' = cur.id /\ rd' = rd + 1
      /\ UNCHANGED << after, head, cur, mem, wr, avail, full, rxen, isr, dma, done, faults >>
  BY DEF RxCopy, engineVars
<1>2. Valid(At(0)) /\ cur = At(0) /\ Base = 0
  BY <1>1 DEF IInv, DriverHolds, Base
<1>3. 0 < Used /\ 0 \in Pos
  <2>1. 0 \in Pos
    BY DEF Pos
  <2>2. At(0) # Zero
    BY <1>2 DEF Valid, Zero
  <2>3. QED BY <2>1, <2>2, Offsets DEF IInv, FreeWordsZero
<1>4. /\ cur.n \in 1 .. MaxWords /\ cur.n + 1 <= Start /\ cur.id < done
      /\ cur.n + 1 = Start => cur.id + 1 = done
      /\ cur.n + 1 < Used =>
           /\ At(cur.n + 1).k # "data"
           /\ Valid(At(cur.n + 1)) => At(cur.n + 1).id = cur.id + 1
  <2>1. 0 >= Base /\ 0 < Used /\ Valid(At(0)) /\ Chained
    BY <1>2, <1>3 DEF IInv
  <2>2. /\ At(0).n \in 1 .. MaxWords /\ 0 + At(0).n + 1 <= Start /\ At(0).id < done
        /\ 0 + At(0).n + 1 = Start => At(0).id + 1 = done
        /\ 0 + At(0).n + 1 < Used =>
             /\ At(0 + At(0).n + 1).k # "data"
             /\ Valid(At(0 + At(0).n + 1)) => At(0 + At(0).n + 1).id = At(0).id + 1
    BY <2>1, <1>3 DEF Chained
  <2>3. 0 + At(0).n + 1 = cur.n + 1
    BY <2>2, <1>2
  <2>4. QED BY <2>2, <2>3, <1>2
<1>5. cur.id = rd /\ rd \in Nat
  BY <1>2, <1>3 DEF IInv, FirstIsNext, TypeOK
<1>6. Used' = Used /\ Start' = Start /\ Base' = cur.n + 1
  BY <1>1 DEF Used, Start, Base, NumWords
<1>7. \A o : At(o)' = At(o)
  BY <1>1 DEF At
<1>8. RingAgrees'
  BY <1>1, <1>4, <1>6 DEF IInv, RingAgrees
<1>9. FreeWordsZero'
  BY <1>1, <1>6, <1>7 DEF IInv, FreeWordsZero
<1>10. Chained'
  <2>1. \A o \in Pos : o >= Base' => o >= Base
    BY <1>2, <1>4, <1>6 DEF Pos
  <2>2. QED BY <2>1, <1>1, <1>6, <1>7 DEF IInv, Chained
<1>11. FirstIsNext'
  BY <1>1, <1>4, <1>5, <1>6, <1>7 DEF FirstIsNext, IInv, TypeOK
<1>12. Filling'
  BY <1>1, <1>6, <1>7 DEF IInv, Filling
<1>13. TypeOK'
  <2>1. cur.id \in Nat /\ pc' \in PC /\ rd' \in Nat
    BY <1>1, <1>5 DEF PC
  <2>2. QED BY <1>1, <2>1 DEF IInv, TypeOK
<1>14. DriverHolds'
  BY <1>1, <1>4 DEF IInv, DriverHolds
<1>15. QED BY <1>8, <1>9, <1>10, <1>11, <1>12, <1>13, <1>14 DEF IInv

(* So does clearing its words (minic_rx_memset).                           *)
LEMMA ZeroStep == ASSUME IInv, RxZero PROVE IInv'
<1> USE RxSizeAssumption DEF Goto
<1> DEFINE A2(x) == mem'[Wrap(head' + x)]
<1>1. /\ pc = "zero" /\ pc' = "avail"
      /\ mem' = [p \in Pos |-> IF p \in FromHead(NumWords(cur)) THEN Zero ELSE mem[p]]
      /\ UNCHANGED << after, head, cur, wr, avail, full, rxen, isr, dma, done, rd, out,
                      faults >>
  BY DEF RxZero, engineVars, ghostVars
<1>2. Base = NumWords(cur) /\ Base' = Base /\ Used' = Used /\ Start' = Start
  BY <1>1 DEF Base, NumWords, Used, Start
<1>3. \A o \in Pos : A2(o) = IF o < Base THEN Zero ELSE At(o)
  <2> SUFFICES ASSUME NEW o \in Pos
               PROVE  A2(o) = IF o < Base THEN Zero ELSE At(o)
    OBVIOUS
  <2>1. Wrap(head + o) \in Pos
    BY Offsets, WrapInPos DEF Pos
  <2>2. Wrap(head + o) \in FromHead(Base) <=> o < Base
    BY FromHeadOffset, Offsets
  <2>3. QED BY <2>1, <2>2, <1>1, <1>2 DEF At
<1>4. RingAgrees'
  BY <1>1, <1>2 DEF IInv, RingAgrees
<1>5. FreeWordsZero'
  BY <1>1, <1>2, <1>3 DEF IInv, FreeWordsZero, At
<1>6. Chained'
  <2> SUFFICES ASSUME NEW o \in Pos, o >= Base, o < Used, Valid(A2(o))
               PROVE  LET d == A2(o) IN
                      /\ d.n \in 1 .. MaxWords /\ o + d.n + 1 <= Start /\ d.id < done
                      /\ \A i \in 1 .. d.n : A2(o + i) = Data(d.id, i)
                      /\ o + d.n + 1 = Start => d.id + 1 = done
                      /\ o + d.n + 1 < Used =>
                           /\ A2(o + d.n + 1).k # "data"
                           /\ Valid(A2(o + d.n + 1)) => A2(o + d.n + 1).id = d.id + 1
    BY <1>1, <1>2 DEF Chained, Valid, At
  <2>1. A2(o) = At(o)
    BY <1>3, Offsets DEF Pos
  <2>2. /\ At(o).n \in 1 .. MaxWords /\ o + At(o).n + 1 <= Start /\ At(o).id < done
        /\ \A i \in 1 .. At(o).n : At(o + i) = Data(At(o).id, i)
        /\ o + At(o).n + 1 = Start => At(o).id + 1 = done
        /\ o + At(o).n + 1 < Used =>
             /\ At(o + At(o).n + 1).k # "data"
             /\ Valid(At(o + At(o).n + 1)) => At(o + At(o).n + 1).id = At(o).id + 1
    BY <2>1 DEF IInv, Chained
  <2>3. \A i \in 1 .. At(o).n : A2(o + i) = At(o + i)
    <3>1. \A i \in 1 .. At(o).n : o + i \in Pos /\ ~(o + i < Base)
      BY <2>2, Offsets DEF Pos
    <3>2. QED BY <3>1, <1>3
  <2>4. o + At(o).n + 1 < Used => A2(o + At(o).n + 1) = At(o + At(o).n + 1)
    <3>1. o + At(o).n + 1 < Used => o + At(o).n + 1 \in Pos /\ ~(o + At(o).n + 1 < Base)
      BY <2>2, Offsets DEF Pos
    <3>2. QED BY <3>1, <1>3
  <2>5. QED BY <2>1, <2>2, <2>3, <2>4
<1>7. FirstIsNext'
  <2>1. Base < Used => A2(Base) = At(Base)
    BY <1>3, Offsets DEF Pos
  <2>2. (At(Base))' = A2(Base)
    BY <1>2 DEF At
  <2>3. QED BY <1>1, <1>2, <2>1, <2>2 DEF IInv, FirstIsNext, Valid
<1>8. Filling'
  <2>1. \A i \in 1 .. MaxWords : i < dma.got => Start + i \in Pos /\ ~(Start + i < Base)
    BY Offsets DEF Pos
  <2>2. \A i \in 1 .. MaxWords : i < dma.got => A2(Start + i) = At(Start + i)
    BY <2>1, <1>3
  <2>3. QED BY <1>1, <1>2, <2>2 DEF IInv, Filling, At
<1>9. TypeOK'
  <2>1. mem' \in [Pos -> Word] /\ pc' \in PC
    BY <1>1 DEF IInv, TypeOK, Word, Zero, PC
  <2>2. QED BY <1>1, <2>1 DEF IInv, TypeOK
<1>10. DriverHolds'
  BY <1>1, <1>2, <1>3 DEF IInv, DriverHolds, NumWords, At
<1>11. QED BY <1>4, <1>5, <1>6, <1>7, <1>8, <1>9, <1>10 DEF IInv

(* Giving words back turns the offsets: what lay behind them is now at the *)
(* head.                                                                   *)
LEMMA Rotated ==
  ASSUME IInv, RxAvail
  PROVE  /\ Base = NumWords(cur) /\ Base \in 0 .. Start
         /\ Used' = Used - Base /\ Start' = Start - Base /\ Base' = 0
         /\ \A o \in 0 .. RxSize - Base : At(o)' = At(o + Base)
<1> USE RxSizeAssumption DEF Goto
<1> DEFINE m == NumWords(cur)
<1>1. /\ pc = "avail" /\ pc' = "check" /\ avail' = avail + m /\ head' = Wrap(head + m)
      /\ UNCHANGED << mem, dma >>
  BY DEF RxAvail, ghostVars
<1>2. Base = m /\ m \in 0 .. Start
  BY <1>1, Offsets DEF Base
<1> HIDE DEF m
<1>3. Used' = Used - m /\ Start' = Start - m /\ Base' = 0
  <2>1. avail \in Int /\ dma.got \in Int
    BY DEF IInv, TypeOK
  <2>2. QED BY <1>1, <1>2, <2>1, Offsets DEF Used, Start, Base
<1>4. \A o \in 0 .. RxSize - m : At(o)' = At(o + m)
  <2> SUFFICES ASSUME NEW o \in 0 .. RxSize - m
               PROVE  mem'[Wrap(head' + o)] = mem[Wrap(head + (o + m))]
    BY DEF At
  <2>1. Wrap(Wrap(head + m) + o) = Wrap(head + m + o)
    BY <1>2, Offsets, WrapTwice DEF Pos
  <2>2. head + m + o = head + (o + m)
    BY <1>2, Offsets DEF Pos
  <2>3. QED BY <1>1, <2>1, <2>2
<1>5. QED BY <1>2, <1>3, <1>4 DEF m

(* So does giving the cleared words back, where the head moves on and every *)
(* offset with it.                                                         *)
LEMMA AvailStep == ASSUME IInv, RxAvail PROVE IInv'
<1> USE RxSizeAssumption DEF Goto
<1> DEFINE A2(x) == mem'[Wrap(head' + x)]
<1> DEFINE m == NumWords(cur)
<1>1. /\ pc = "avail" /\ pc' = "check" /\ avail' = avail + m /\ head' = Wrap(head + m)
      /\ UNCHANGED << after, cur, mem, wr, full, rxen, isr, dma, done, rd, out, faults >>
  BY DEF RxAvail, ghostVars
<1>2. Base = m /\ m \in 0 .. Start
  BY Rotated
<1>3. Used' = Used - m /\ Start' = Start - m /\ Base' = 0
  BY Rotated
<1>4. \A o \in 0 .. RxSize - m : A2(o) = At(o + m)
  BY Rotated DEF At
<1> HIDE DEF m
<1>5. \A o \in Pos : o > RxSize - m => A2(o) = Zero
  <2> SUFFICES ASSUME NEW o \in Pos, o > RxSize - m PROVE A2(o) = Zero
    OBVIOUS
  <2>1. Wrap(Wrap(head + m) + o) = Wrap(head + (o + m - RxSize))
    BY <1>2, Offsets DEF Wrap, Pos
  <2>2. o + m - RxSize \in Pos /\ o + m - RxSize < m
    BY <1>2, Offsets DEF Pos
  <2>3. At(o + m - RxSize) = Zero
    BY <1>1, <2>2 DEF IInv, DriverHolds, m
  <2>4. QED BY <1>1, <2>1, <2>3 DEF At
<1>6. RingAgrees'
  <2>1. wr = Wrap(head + Used)
    BY DEF IInv, RingAgrees
  <2>2. Wrap(Wrap(head + m) + (Used - m)) = Wrap(head + m + (Used - m))
    BY <1>2, Offsets, WrapTwice DEF Pos
  <2>3. head + m + (Used - m) = head + Used
    BY <1>2, Offsets DEF Pos
  <2>4. QED BY <1>1, <1>2, <1>3, <2>1, <2>2, <2>3, Offsets DEF RingAgrees
<1>7. FreeWordsZero'
  <2> SUFFICES ASSUME NEW o \in Pos,
                      o >= Used - m \/ (dma.got > 0 /\ o = Start - m)
               PROVE  A2(o) = Zero
    BY <1>1, <1>3 DEF FreeWordsZero, At
  <2>1. CASE o > RxSize - m
    BY <2>1, <1>5
  <2>2. CASE o = RxSize - m
    <3>1. Wrap(Wrap(head + m) + o) = Wrap(head + 0)
      BY <2>2, <1>2, Offsets DEF Wrap, Pos
    <3>2. 0 \in Pos /\ (0 < m => At(0) = Zero)
      BY <1>1 DEF IInv, DriverHolds, m, Pos
    <3>3. 0 < m
      BY <2>2, <1>2 DEF Pos
    <3>4. QED BY <3>1, <3>2, <3>3, <1>1 DEF At
  <2>3. CASE o < RxSize - m
    <3>1. o + m \in Pos /\ (o + m >= Used \/ (dma.got > 0 /\ o + m = Start))
      BY <2>3, <1>2, Offsets DEF Pos
    <3>2. At(o + m) = Zero
      BY <3>1 DEF IInv, FreeWordsZero
    <3>3. QED BY <3>2, <2>3, <1>2, <1>4 DEF Pos
  <2>4. QED BY <2>1, <2>2, <2>3, <1>2 DEF Pos
<1>8. Chained'
  <2> SUFFICES ASSUME NEW o \in Pos, o < Used - m, Valid(A2(o))
               PROVE  LET d == A2(o) IN
                      /\ d.n \in 1 .. MaxWords /\ o + d.n + 1 <= Start - m /\ d.id < done
                      /\ \A i \in 1 .. d.n : A2(o + i) = Data(d.id, i)
                      /\ o + d.n + 1 = Start - m => d.id + 1 = done
                      /\ o + d.n + 1 < Used - m =>
                           /\ A2(o + d.n + 1).k # "data"
                           /\ Valid(A2(o + d.n + 1)) => A2(o + d.n + 1).id = d.id + 1
    BY <1>1, <1>3 DEF Chained, Valid, At
  <2> DEFINE p == o + m
  <2>1. p \in Pos /\ p >= Base /\ p < Used /\ A2(o) = At(p)
    BY <1>2, <1>4, Offsets DEF Pos
  <2>2. /\ At(p).n \in 1 .. MaxWords /\ p + At(p).n + 1 <= Start /\ At(p).id < done
        /\ \A i \in 1 .. At(p).n : At(p + i) = Data(At(p).id, i)
        /\ p + At(p).n + 1 = Start => At(p).id + 1 = done
        /\ p + At(p).n + 1 < Used =>
             /\ At(p + At(p).n + 1).k # "data"
             /\ Valid(At(p + At(p).n + 1)) => At(p + At(p).n + 1).id = At(p).id + 1
    BY <2>1 DEF IInv, Chained
  <2>3. \A i \in 1 .. At(p).n + 1 : A2(o + i) = At(p + i)
    <3> SUFFICES ASSUME NEW i \in 1 .. At(p).n + 1 PROVE A2(o + i) = At(p + i)
      OBVIOUS
    <3>1. o + i \in 0 .. RxSize - m /\ o + i + m = p + i
      BY <2>1, <2>2, <1>2, Offsets DEF Pos
    <3>2. QED BY <3>1, <1>4
  <2>4. /\ At(p).n + 1 \in 1 .. At(p).n + 1
        /\ o + (At(p).n + 1) = o + At(p).n + 1
        /\ p + (At(p).n + 1) = p + At(p).n + 1
    BY <2>1, <2>2 DEF Pos
  <2>5. A2(o + At(p).n + 1) = At(p + At(p).n + 1)
    BY <2>3, <2>4
  <2>6. \A i \in 1 .. At(p).n : A2(o + i) = Data(At(p).id, i)
    BY <2>2, <2>3
  <2>7. /\ o + At(p).n + 1 <= Start - m
        /\ o + At(p).n + 1 = Start - m => p + At(p).n + 1 = Start
        /\ o + At(p).n + 1 < Used - m => p + At(p).n + 1 < Used
    BY <2>1, <2>2, <1>2, Offsets DEF Pos
  <2>8. QED BY <2>1, <2>2, <2>5, <2>6, <2>7
<1>9. FirstIsNext'
  <2>1. 0 < Used - m => A2(0) = At(Base)
    BY <1>2, <1>4, Offsets
  <2>2. m \in Int /\ Used \in Int /\ Start \in Int
    BY <1>2, Offsets
  <2>3. 0 < Used - m => m < Used
    BY <2>2
  <2>4. 0 = Start - m => m = Start
    BY <2>2
  <2>5. QED BY <1>1, <1>2, <1>3, <2>1, <2>3, <2>4 DEF IInv, FirstIsNext, Valid, At
<1>10. Filling'
  <2> SUFFICES ASSUME NEW i \in 1 .. MaxWords, i < dma.got
               PROVE  A2(Start - m + i) = Data(done, i)
    BY <1>1, <1>3 DEF Filling, At
  <2>1. Start - m + i \in 0 .. RxSize - m /\ Start - m + i + m = Start + i
    BY <1>2, Offsets
  <2>2. QED BY <2>1, <1>4 DEF IInv, Filling
<1>11. TypeOK'
  <2>1. head' \in Pos /\ avail' \in 0 .. RxSize
    <3>1. head + m \in Int /\ 0 <= head + m /\ head + m < 2 * RxSize
      BY <1>2, Offsets DEF Pos
    <3>2. avail \in 0 .. RxSize /\ Used = RxSize - avail
      BY DEF IInv, TypeOK, Used
    <3>3. Wrap(head + m) \in Pos
      BY <3>1, WrapInPos
    <3>4. avail + m \in 0 .. RxSize
      BY <3>2, <1>2, Offsets
    <3>5. QED BY <3>3, <3>4, <1>1
  <2>2. pc' \in PC
    BY <1>1 DEF PC
  <2>3. QED BY <1>1, <2>1, <2>2 DEF IInv, TypeOK
<1>12. DriverHolds'
  <2>1. pc' \notin {"copy", "zero", "avail", "setup", "enable"}
    BY <1>1
  <2>2. pc \notin {"setup", "enable"} /\ rxen \in BOOLEAN
    BY <1>1 DEF IInv, TypeOK
  <2>3. rxen
    BY <2>2 DEF IInv, DriverHolds
  <2>4. QED BY <1>1, <2>1, <2>3 DEF DriverHolds
<1>13. QED BY <1>6, <1>7, <1>8, <1>9, <1>10, <1>11, <1>12 DEF IInv

(* So does handing over a new, empty ring.                                 *)
LEMMA SetupStep == ASSUME IInv, RxSetup PROVE IInv'
<1> USE RxSizeAssumption DEF Goto
<1>1. /\ pc = "setup" /\ pc' = "enable" /\ head' = 0 /\ mem' = [p \in Pos |-> Zero]
      /\ wr' = 0 /\ avail' = RxSize /\ isr' = FALSE /\ rd' = done
      /\ UNCHANGED << after, cur, full, rxen, dma, done, out, faults >>
  BY DEF RxSetup
<1>2. ~rxen /\ dma.got = 0
  BY <1>1 DEF IInv, DriverHolds
<1>3. Used' = 0 /\ Start' = 0 /\ Base' = 0
  BY <1>1, <1>2 DEF Used, Start, Base
<1>4. \A o \in Pos : mem'[Wrap(head' + o)] = Zero
  BY <1>1 DEF Wrap, Pos
<1>5. RingAgrees'
  BY <1>1, <1>3 DEF RingAgrees, Wrap
<1>6. FreeWordsZero'
  BY <1>4 DEF FreeWordsZero, At
<1>7. Chained'
  BY <1>3 DEF Chained, Pos
<1>8. FirstIsNext'
  BY <1>1, <1>3 DEF FirstIsNext, IInv, TypeOK
<1>9. Filling'
  BY <1>1, <1>2 DEF Filling
<1>10. TypeOK'
  <2>1. Zero \in Word
    BY DEF Zero, Word
  <2>2. mem' \in [Pos -> Word]
    BY <1>1, <2>1
  <2>3. pc' \in PC /\ head' \in Pos /\ wr' \in Pos /\ avail' \in 0 .. RxSize
    BY <1>1 DEF PC, Pos
  <2>4. isr' \in BOOLEAN
    BY <1>1
  <2>5. QED BY <1>1, <2>2, <2>3, <2>4 DEF IInv, TypeOK
<1>11. DriverHolds'
  BY <1>1, <1>2 DEF IInv, DriverHolds
<1>12. QED BY <1>5, <1>6, <1>7, <1>8, <1>9, <1>10, <1>11 DEF IInv

(* So does the engine's reservation of a descriptor word.                  *)
LEMMA StartStep == ASSUME IInv, HwStart PROVE IInv'
<1> USE RxSizeAssumption
<1>1. /\ rxen /\ dma.got = 0 /\ avail > 0 /\ dma'.got = 1 /\ wr' = Wrap(wr + 1)
      /\ avail' = avail - 1
      /\ UNCHANGED << pc, after, head, cur, mem, full, rxen, isr, done, rd, out, faults >>
  BY DEF HwStart, Receiving, driverVars, ghostVars
<1>2. dma' \in [got : {1}, n : 1 .. MaxWords, err : BOOLEAN]
  BY DEF HwStart
<1>3. avail \in 1 .. RxSize /\ wr = Wrap(head + Used)
  BY <1>1 DEF IInv, TypeOK, RingAgrees
<1>4. /\ Used = RxSize - avail /\ Used < RxSize /\ Start = Used
      /\ Used' = Used + 1 /\ Start' = Used /\ Base' = Base
  BY <1>1, <1>3 DEF Used, Start, Base, NumWords
<1>5. \A o : At(o)' = At(o)
  BY <1>1 DEF At
<1>6. Used \in Pos /\ At(Used) = Zero
  <2>1. Used \in Pos
    BY <1>4, Offsets DEF Pos
  <2>2. QED BY <2>1 DEF IInv, FreeWordsZero, Pos
<1>7. RingAgrees'
  <2>1. Wrap(Wrap(head + Used) + 1) = Wrap(head + Used + 1)
    BY <1>4, Offsets, WrapTwice
  <2>2. head + Used + 1 = head + (Used + 1)
    BY Offsets DEF Pos
  <2>3. QED BY <1>1, <1>3, <1>4, <2>1, <2>2 DEF IInv, RingAgrees
<1>8. FreeWordsZero'
  <2> SUFFICES ASSUME NEW o \in Pos, o >= Used + 1 \/ o = Used PROVE At(o) = Zero
    BY <1>4, <1>5 DEF FreeWordsZero
  <2>1. o >= Used
    BY Offsets DEF Pos
  <2>2. QED BY <2>1 DEF IInv, FreeWordsZero
<1>9. ~Valid(At(Used)) /\ At(Used).k # "data"
  BY <1>6 DEF Valid, Zero
<1>10. Chained'
  <2> SUFFICES ASSUME NEW o \in Pos, o >= Base, o < Used + 1, Valid(At(o))
               PROVE  LET d == At(o) IN
                      /\ d.n \in 1 .. MaxWords /\ o + d.n + 1 <= Used /\ d.id < done
                      /\ \A i \in 1 .. d.n : At(o + i) = Data(d.id, i)
                      /\ o + d.n + 1 = Used => d.id + 1 = done
                      /\ o + d.n + 1 < Used + 1 =>
                           /\ At(o + d.n + 1).k # "data"
                           /\ Valid(At(o + d.n + 1)) => At(o + d.n + 1).id = d.id + 1
    BY <1>1, <1>4, <1>5 DEF Chained
  <2>1. o < Used
    <3>1. o # Used
      BY <1>9
    <3>2. QED BY <3>1, Offsets DEF Pos
  <2>2. /\ At(o).n \in 1 .. MaxWords /\ o + At(o).n + 1 <= Used /\ At(o).id < done
        /\ \A i \in 1 .. At(o).n : At(o + i) = Data(At(o).id, i)
        /\ o + At(o).n + 1 = Used => At(o).id + 1 = done
        /\ o + At(o).n + 1 < Used =>
             /\ At(o + At(o).n + 1).k # "data"
             /\ Valid(At(o + At(o).n + 1)) => At(o + At(o).n + 1).id = At(o).id + 1
    BY <2>1, <1>4 DEF IInv, Chained
  <2>3. o + At(o).n + 1 < Used \/ o + At(o).n + 1 = Used
    BY <2>2, Offsets DEF Pos
  <2>4. QED BY <2>2, <2>3, <1>9
<1>11. FirstIsNext'
  <2>1. Base < Used + 1 => Base < Used \/ Base = Used
    BY Offsets
  <2>2. QED BY <1>1, <1>4, <1>5, <1>9, <2>1 DEF IInv, FirstIsNext
<1>12. Filling'
  BY <1>1 DEF Filling
<1>13. TypeOK'
  <2>1. wr' \in Pos
    <3>1. wr + 1 \in Int /\ 0 <= wr + 1 /\ wr + 1 < 2 * RxSize
      BY DEF IInv, TypeOK, Pos
    <3>2. QED BY <3>1, <1>1, WrapInPos
  <2>2. avail' \in 0 .. RxSize
    BY <1>1, <1>3
  <2>3. /\ dma' \in [got : 0 .. MaxWords + 1, n : 0 .. MaxWords, err : BOOLEAN]
        /\ dma'.got <= dma'.n + 1 /\ (dma'.got > 0 => dma'.n > 0)
    BY <1>2
  <2>4. QED BY <1>1, <2>1, <2>2, <2>3 DEF IInv, TypeOK
<1>14. DriverHolds'
  <2>1. pc \notin {"setup", "enable"} /\ DriverHolds
    BY <1>1 DEF IInv, DriverHolds
  <2>2. QED BY <1>1, <1>5, <2>1 DEF DriverHolds, NumWords, Valid
<1>15. QED BY <1>7, <1>8, <1>10, <1>11, <1>12, <1>13, <1>14 DEF IInv

(* The engine writes one word, at offset w between the frames the driver   *)
(* may read and the words it may not: the driver's own frame stays.        *)
LEMMA DriverUndisturbed ==
  ASSUME IInv, rxen, NEW w \in Pos, NEW x, w >= Start, dma.got > 0,
         mem' = [mem EXCEPT ![Wrap(head + w)] = x],
         UNCHANGED << pc, head, cur, rxen >>
  PROVE  /\ \A o \in Pos : o # w => At(o)' = At(o)
         /\ At(w)' = x
         /\ DriverHolds'
<1> USE RxSizeAssumption
<1>1. \A o \in Pos : Wrap(head + o) \in Pos
  BY Offsets, WrapInPos DEF Pos
<1>2. \A o \in Pos : o # w => At(o)' = At(o)
  <2> SUFFICES ASSUME NEW o \in Pos, o # w PROVE At(o)' = At(o)
    OBVIOUS
  <2>1. Wrap(head + o) # Wrap(head + w)
    BY Offsets, WrapInjective
  <2>2. QED BY <1>1, <2>1 DEF At, IInv, TypeOK
<1>3. At(w)' = x
  BY <1>1 DEF At, IInv, TypeOK
<1>4. DriverHolds'
  <2>1. pc \notin {"setup", "enable"}
    BY DEF IInv, DriverHolds
  <2>2. CASE pc = "copy"
    <3>1. Base = 0 /\ Valid(At(0)) /\ cur = At(0)
      BY <2>2 DEF Base, IInv, DriverHolds
    <3>2. 0 \in Pos /\ 0 # Start
      <4>1. 0 \in Pos
        BY DEF Pos
      <4>2. 0 = Start => At(0) = Zero
        BY <4>1 DEF IInv, FreeWordsZero
      <4>3. QED BY <4>1, <4>2, <3>1 DEF Valid, Zero
    <3>3. At(0)' = At(0)
      <4>1. 0 # w
        BY <3>2, Offsets DEF Pos
      <4>2. QED BY <3>2, <4>1, <1>2
    <3>4. QED BY <2>1, <2>2, <3>1, <3>3 DEF DriverHolds, Valid
  <2>3. CASE pc = "avail"
    <3>1. Base = NumWords(cur) /\ Base <= w
      BY <2>3, Offsets DEF Base, Pos
    <3>2. \A i \in Pos : i < NumWords(cur) => i # w
      BY <3>1, Offsets DEF Pos
    <3>3. cur.n \in 1 .. MaxWords /\ \A i \in Pos : i < NumWords(cur) => At(i) = Zero
      BY <2>3 DEF IInv, DriverHolds
    <3>4. \A i \in Pos : i < NumWords(cur) => At(i)' = Zero
      BY <3>2, <3>3, <1>2
    <3>5. QED BY <2>1, <2>3, <3>3, <3>4 DEF DriverHolds, NumWords
  <2>4. CASE pc = "zero"
    BY <2>1, <2>4 DEF IInv, DriverHolds
  <2>5. CASE pc \notin {"copy", "avail", "zero"}
    BY <2>1, <2>5 DEF DriverHolds
  <2>6. QED BY <2>2, <2>3, <2>4, <2>5
<1>5. QED BY <1>2, <1>3, <1>4

(* A payload word is stored at the first unused offset.                    *)
LEMMA WordStored ==
  ASSUME IInv, HwWord
  PROVE  \E u \in Pos :
           /\ u = Used /\ Start \in 0 .. u /\ Start < u
           /\ Used' = u + 1 /\ Start' = Start /\ Base' = Base
           /\ \A o \in Pos : o # u => At(o)' = At(o)
           /\ At(u)' = Data(done, dma.got)
           /\ DriverHolds'
<1> USE RxSizeAssumption
<1>1. /\ rxen /\ dma.got >= 1 /\ dma.got <= dma.n /\ avail > 0
      /\ mem' = [mem EXCEPT ![wr] = Data(done, dma.got)] /\ avail' = avail - 1
      /\ UNCHANGED << pc, head, cur, rxen >>
  BY DEF HwWord, Receiving, driverVars, ghostVars
<1>2. dma'.got = dma.got + 1
  BY DEF HwWord, IInv, TypeOK
<1>3. avail \in 1 .. RxSize /\ wr = Wrap(head + Used) /\ dma.got \in 1 .. MaxWords
  BY <1>1 DEF IInv, TypeOK, RingAgrees
<1>4. PICK u \in Pos : u = Used
  BY <1>3, Offsets DEF Used, Pos
<1>5. PICK s \in Pos : s = Start
  BY <1>4, Offsets DEF Pos
<1>6. u = RxSize - avail /\ s = u - dma.got
  BY <1>4, <1>5 DEF Used, Start
<1>7. s \in 0 .. u /\ s < u
  BY <1>6, <1>3, <1>4, <1>5, Offsets
<1>8. Used' = u + 1 /\ Start' = s
  BY <1>6, <1>1, <1>2, <1>3, Offsets DEF Used, Start
<1>9. Base' = Base
  BY <1>1 DEF Base, NumWords
<1>10. u >= Start /\ dma.got > 0 /\ wr = Wrap(head + u)
  BY <1>3, <1>4, <1>5, <1>7
<1>11. /\ \A o \in Pos : o # u => At(o)' = At(o)
       /\ At(u)' = Data(done, dma.got)
       /\ DriverHolds'
  BY <1>1, <1>10, DriverUndisturbed
<1>12. QED BY <1>4, <1>5, <1>7, <1>8, <1>9, <1>11

(* So does a payload word.                                                 *)
LEMMA WordStep == ASSUME IInv, HwWord PROVE IInv'
<1> USE RxSizeAssumption
<1> DEFINE A2(x) == mem'[Wrap(head' + x)]
<1>1. /\ rxen /\ dma.got >= 1 /\ dma.got <= dma.n /\ avail > 0
      /\ mem' = [mem EXCEPT ![wr] = Data(done, dma.got)]
      /\ wr' = Wrap(wr + 1) /\ avail' = avail - 1
      /\ UNCHANGED << pc, after, head, cur, full, rxen, isr, done, rd, out, faults >>
  BY DEF HwWord, Receiving, driverVars, ghostVars
<1>2. dma' = [dma EXCEPT !.got = @ + 1] /\ dma'.got = dma.got + 1 /\ dma'.n = dma.n
  BY DEF HwWord, IInv, TypeOK
<1>3. avail \in 1 .. RxSize /\ wr = Wrap(head + Used) /\ dma.got \in 1 .. MaxWords
  BY <1>1 DEF IInv, TypeOK, RingAgrees
<1>13. PICK u \in Pos :
         /\ u = Used /\ Start \in 0 .. u /\ Start < u
         /\ Used' = u + 1 /\ Start' = Start /\ Base' = Base
         /\ \A o \in Pos : o # u => At(o)' = At(o)
         /\ At(u)' = Data(done, dma.got)
         /\ DriverHolds'
  BY WordStored
<1>14. PICK s \in Pos : s = Start
  BY <1>13 DEF Pos
<1>4. /\ u \in Pos /\ s \in 0 .. u /\ s < u /\ u = s + dma.got /\ Base \in 0 .. s
      /\ Used' = u + 1 /\ Start' = s /\ Base' = Base
  BY <1>13, <1>14, Offsets
<1>5. /\ \A o \in Pos : o # u => A2(o) = At(o)
      /\ A2(u) = Data(done, dma.got)
      /\ DriverHolds'
  BY <1>13 DEF At
<1>6. RingAgrees'
  <2>1. Wrap(Wrap(head + u) + 1) = Wrap(head + u + 1)
    BY <1>4, Offsets, WrapTwice DEF Pos
  <2>2. head + u + 1 = head + (u + 1)
    BY <1>4, Offsets DEF Pos
  <2>3. QED BY <1>1, <1>3, <1>4, <1>13, <2>1, <2>2 DEF RingAgrees
<1>7. FreeWordsZero'
  <2> SUFFICES ASSUME NEW o \in Pos, o >= u + 1 \/ o = s PROVE A2(o) = Zero
    BY <1>4 DEF FreeWordsZero, At
  <2>1. o # u /\ (o >= u \/ (dma.got > 0 /\ o = s))
    BY <1>3, <1>4 DEF Pos
  <2>2. At(o) = Zero
    BY <2>1, <1>13, <1>14 DEF IInv, FreeWordsZero
  <2>3. QED BY <2>1, <2>2, <1>5
<1>8. Chained'
  <2> SUFFICES ASSUME NEW o \in Pos, o >= Base, o < u + 1, Valid(A2(o))
               PROVE  LET d == A2(o) IN
                      /\ d.n \in 1 .. MaxWords /\ o + d.n + 1 <= s /\ d.id < done
                      /\ \A i \in 1 .. d.n : A2(o + i) = Data(d.id, i)
                      /\ o + d.n + 1 = s => d.id + 1 = done
                      /\ o + d.n + 1 < u + 1 =>
                           /\ A2(o + d.n + 1).k # "data"
                           /\ Valid(A2(o + d.n + 1)) => A2(o + d.n + 1).id = d.id + 1
    BY <1>1, <1>4 DEF Chained, Valid, At
  <2>1. o < u /\ A2(o) = At(o)
    <3>1. o # u
      BY <1>5 DEF Valid, Data
    <3>2. QED BY <3>1, <1>4, <1>5 DEF Pos
  <2>2. /\ At(o).n \in 1 .. MaxWords /\ o + At(o).n + 1 <= s /\ At(o).id < done
        /\ \A i \in 1 .. At(o).n : At(o + i) = Data(At(o).id, i)
        /\ o + At(o).n + 1 = s => At(o).id + 1 = done
        /\ o + At(o).n + 1 < u =>
             /\ At(o + At(o).n + 1).k # "data"
             /\ Valid(At(o + At(o).n + 1)) => At(o + At(o).n + 1).id = At(o).id + 1
    BY <2>1, <1>13, <1>14 DEF IInv, Chained
  <2>3. \A i \in 1 .. At(o).n : A2(o + i) = At(o + i)
    <3>1. \A i \in 1 .. At(o).n : o + i \in Pos /\ o + i # u
      BY <2>2, <1>4 DEF Pos
    <3>2. QED BY <3>1, <1>5
  <2>4. /\ o + At(o).n + 1 \in Pos /\ o + At(o).n + 1 # u /\ o + At(o).n + 1 < u
    BY <2>2, <1>4 DEF Pos
  <2>5. A2(o + At(o).n + 1) = At(o + At(o).n + 1)
    BY <2>4, <1>5
  <2>6. QED BY <2>1, <2>2, <2>3, <2>4, <2>5
<1>9. FirstIsNext'
  <2>1. Base \in Pos /\ Base # u /\ Base < u
    BY <1>4 DEF Pos
  <2>2. A2(Base) = At(Base)
    BY <2>1, <1>5
  <2>3. QED BY <1>1, <1>4, <1>13, <1>14, <2>1, <2>2 DEF IInv, FirstIsNext, Valid, At
<1>10. Filling'
  <2> SUFFICES ASSUME NEW i \in 1 .. MaxWords, i < dma.got + 1
               PROVE  A2(s + i) = Data(done, i)
    BY <1>1, <1>2, <1>4 DEF Filling, At
  <2>1. CASE i = dma.got
    BY <2>1, <1>4, <1>5
  <2>2. CASE i < dma.got
    <3>1. s + i \in Pos /\ s + i # u
      BY <2>2, <1>4, Offsets DEF Pos
    <3>2. At(s + i) = Data(done, i)
      BY <2>2, <1>14 DEF IInv, Filling
    <3>3. QED BY <3>1, <3>2, <1>5
  <2>3. QED BY <2>1, <2>2, Offsets
<1>11. TypeOK'
  <2>1. wr \in Pos /\ wr' \in Pos
    <3>1. wr \in Pos /\ wr + 1 \in Int /\ 0 <= wr + 1 /\ wr + 1 < 2 * RxSize
      BY DEF IInv, TypeOK, Pos
    <3>2. QED BY <3>1, <1>1, WrapInPos
  <2>2. avail' \in 0 .. RxSize
    BY <1>1, <1>3
  <2>3. mem' \in [Pos -> Word]
    <3>1. Data(done, dma.got) \in Word
      BY DEF Data, Word, IInv, TypeOK
    <3>2. QED BY <3>1, <2>1, <1>1 DEF IInv, TypeOK
  <2>4. dma' \in [got : 0 .. MaxWords + 1, n : 0 .. MaxWords, err : BOOLEAN]
    BY <1>1, <1>2 DEF IInv, TypeOK
  <2>5. dma'.got <= dma'.n + 1 /\ (dma'.got > 0 => dma'.n > 0)
    BY <1>1, <1>2, Offsets
  <2>6. QED BY <1>1, <2>1, <2>2, <2>3, <2>4, <2>5 DEF IInv, TypeOK
<1>12. QED BY <1>5, <1>6, <1>7, <1>8, <1>9, <1>10, <1>11 DEF IInv

(* The end of a frame stores a descriptor in front of its payload.         *)
LEMMA FrameStored ==
  ASSUME IInv, HwDone
  PROVE  \E s \in Pos :
           /\ s = Start /\ Used = s + dma.n + 1 /\ dma.n \in 1 .. MaxWords
           /\ Used' = Used /\ Start' = Used /\ Base' = Base
           /\ \A o \in Pos : o # s => At(o)' = At(o)
           /\ At(s)' = Desc(done, dma.n, dma.err)
           /\ \A i \in 1 .. dma.n : At(s + i)' = Data(done, i)
           /\ DriverHolds'
<1> USE RxSizeAssumption
<1>1. /\ rxen /\ dma.got = dma.n + 1 /\ dma' = NoFrame
      /\ mem' = [mem EXCEPT ![DescPos] = Desc(done, dma.n, dma.err)]
      /\ UNCHANGED << pc, head, cur, avail, rxen >>
  BY DEF HwDone, Receiving, driverVars
<1>2. dma'.got = 0
  BY <1>1 DEF NoFrame
<1>3. dma.n \in 1 .. MaxWords /\ dma.got = dma.n + 1
  BY <1>1 DEF IInv, TypeOK
<1>4. PICK s \in Pos : s = Start
  BY <1>3, Offsets DEF Pos
<1>5. /\ Used \in 0 .. RxSize /\ Used = s + dma.n + 1
      /\ Used' = Used /\ Start' = Used /\ Base' = Base
  <2>1. Used' = Used /\ Start' = Used'
    BY <1>1, <1>2, Offsets DEF Used, Start
  <2>2. Base' = Base
    BY <1>1 DEF Base, NumWords
  <2>3. QED BY <1>3, <1>4, <2>1, <2>2, Offsets
<1>6. DescPos = Wrap(head + s)
  <2>1. wr = Wrap(head + Used) /\ Used - dma.got = s
    BY <1>4, Offsets DEF IInv, RingAgrees
  <2>2. Wrap(Wrap(head + Used) + RxSize - dma.got) = Wrap(head + (Used - dma.got))
    <3>1. /\ head \in Pos /\ Used \in Int /\ dma.got \in Int
          /\ 0 <= dma.got /\ dma.got <= Used /\ Used <= RxSize
      BY Offsets
    <3>2. QED BY <3>1, WrapBack
  <2>3. QED BY <2>1, <2>2 DEF DescPos
<1>7. /\ \A o \in Pos : o # s => At(o)' = At(o)
      /\ At(s)' = Desc(done, dma.n, dma.err)
      /\ DriverHolds'
  <2>1. s >= Start /\ dma.got > 0
    BY <1>3, <1>4 DEF Pos
  <2>2. mem' = [mem EXCEPT ![Wrap(head + s)] = Desc(done, dma.n, dma.err)]
    BY <1>1, <1>6
  <2>3. UNCHANGED << pc, head, cur, rxen >> /\ rxen
    BY <1>1
  <2>4. QED BY <2>1, <2>2, <2>3, DriverUndisturbed
<1>8. \A i \in 1 .. dma.n : At(s + i)' = Data(done, i)
  <2> SUFFICES ASSUME NEW i \in 1 .. dma.n PROVE At(s + i)' = Data(done, i)
    OBVIOUS
  <2>1. s + i \in Pos /\ s + i # s /\ i \in 1 .. MaxWords /\ i < dma.got
    BY <1>3, <1>5 DEF Pos
  <2>2. At(s + i) = Data(done, i)
    BY <2>1, <1>4 DEF IInv, Filling
  <2>3. At(s + i)' = At(s + i)
    BY <2>1, <1>7
  <2>4. QED BY <2>2, <2>3
<1>9. QED BY <1>3, <1>4, <1>5, <1>7, <1>8

(* So does the end of a frame: its words turn from "being received" into a *)
(* link of the chain.                                                      *)
LEMMA DoneStep == ASSUME IInv, HwDone PROVE IInv'
<1> USE RxSizeAssumption
<1> DEFINE A2(x) == mem'[Wrap(head' + x)]
<1>1. /\ rxen /\ dma.got = dma.n + 1 /\ isr' = TRUE /\ done' = done + 1 /\ dma' = NoFrame
      /\ mem' = [mem EXCEPT ![DescPos] = Desc(done, dma.n, dma.err)]
      /\ UNCHANGED << pc, after, head, cur, wr, avail, full, rxen, rd, out, faults >>
  BY DEF HwDone, Receiving, driverVars
<1>2. dma'.got = 0 /\ dma'.n = 0
  BY <1>1 DEF NoFrame
<1>3. dma.n \in 1 .. MaxWords /\ dma.got = dma.n + 1 /\ dma.err \in BOOLEAN /\ done \in Nat
  BY <1>1 DEF IInv, TypeOK
<1>4. PICK s \in Pos :
        /\ s = Start /\ Used = s + dma.n + 1 /\ dma.n \in 1 .. MaxWords
        /\ Used' = Used /\ Start' = Used /\ Base' = Base
        /\ \A o \in Pos : o # s => At(o)' = At(o)
        /\ At(s)' = Desc(done, dma.n, dma.err)
        /\ \A i \in 1 .. dma.n : At(s + i)' = Data(done, i)
        /\ DriverHolds'
  BY FrameStored
<1>5. /\ Used \in 0 .. RxSize /\ Used = s + dma.n + 1 /\ Base \in 0 .. s
      /\ Used' = Used /\ Start' = Used /\ Base' = Base
  BY <1>4, Offsets
<1>7. /\ \A o \in Pos : o # s => A2(o) = At(o)
      /\ A2(s) = Desc(done, dma.n, dma.err)
      /\ DriverHolds'
  BY <1>4 DEF At
<1>8. RingAgrees'
  <2>1. Base <= Used
    BY <1>3, <1>5 DEF Pos
  <2>2. QED BY <1>1, <1>5, <2>1 DEF IInv, RingAgrees
<1>9. FreeWordsZero'
  <2> SUFFICES ASSUME NEW o \in Pos, o >= Used PROVE A2(o) = Zero
    BY <1>2, <1>5 DEF FreeWordsZero, At
  <2>1. o # s
    BY <1>3, <1>5 DEF Pos
  <2>2. At(o) = Zero
    BY DEF IInv, FreeWordsZero
  <2>3. QED BY <2>1, <2>2, <1>7
<1>10. \A i \in 1 .. dma.n : A2(s + i) = Data(done, i)
  BY <1>4 DEF At
<1>11. Chained'
  <2> SUFFICES ASSUME NEW o \in Pos, o >= Base, o < Used, Valid(A2(o))
               PROVE  LET d == A2(o) IN
                      /\ d.n \in 1 .. MaxWords /\ o + d.n + 1 <= Used /\ d.id < done + 1
                      /\ \A i \in 1 .. d.n : A2(o + i) = Data(d.id, i)
                      /\ o + d.n + 1 = Used => d.id + 1 = done + 1
                      /\ o + d.n + 1 < Used =>
                           /\ A2(o + d.n + 1).k # "data"
                           /\ Valid(A2(o + d.n + 1)) => A2(o + d.n + 1).id = d.id + 1
    BY <1>1, <1>5 DEF Chained, Valid, At
  <2>1. CASE o = s
    <3>1. A2(o).n = dma.n /\ A2(o).id = done
      BY <2>1, <1>7 DEF Desc
    <3>2. o + dma.n + 1 = Used
      BY <2>1, <1>5
    <3>3. QED BY <2>1, <3>1, <3>2, <1>3, <1>5, <1>10
  <2>2. CASE o > s
    <3>1. o - s \in 1 .. dma.n /\ s + (o - s) = o
      BY <2>2, <1>3, <1>5 DEF Pos
    <3>2. A2(o) = Data(done, o - s)
      BY <3>1, <1>10
    <3>3. QED BY <3>2 DEF Data, Valid
  <2>3. CASE o < s
    <3>1. A2(o) = At(o)
      BY <2>3, <1>7 DEF Pos
    <3>2. /\ At(o).n \in 1 .. MaxWords /\ o + At(o).n + 1 <= s /\ At(o).id < done
          /\ \A i \in 1 .. At(o).n : At(o + i) = Data(At(o).id, i)
          /\ o + At(o).n + 1 = s => At(o).id + 1 = done
          /\ o + At(o).n + 1 < Used =>
               /\ At(o + At(o).n + 1).k # "data"
               /\ Valid(At(o + At(o).n + 1)) => At(o + At(o).n + 1).id = At(o).id + 1
      BY <3>1, <1>4 DEF IInv, Chained
    <3>3. \A i \in 1 .. At(o).n : A2(o + i) = At(o + i)
      <4>1. \A i \in 1 .. At(o).n : o + i \in Pos /\ o + i # s
        BY <3>2 DEF Pos
      <4>2. QED BY <4>1, <1>7
    <3>4. CASE o + At(o).n + 1 = s
      <4>1. A2(o + At(o).n + 1).k = "desc" /\ A2(o + At(o).n + 1).id = done
        BY <3>4, <1>7 DEF Desc
      <4>2. At(o).id \in Nat
        <5>1. Wrap(head + o) \in Pos
          BY Offsets, WrapInPos DEF Pos
        <5>2. QED BY <5>1 DEF At, IInv, TypeOK, Word
      <4>3. s < Used /\ s <= Used /\ s # Used
        BY <1>3, <1>5 DEF Pos
      <4>4. At(o).id < done + 1 /\ At(o).id + 1 = done
        BY <3>2, <3>4, <4>2, <1>3
      <4>5. A2(o + At(o).n + 1).k # "data"
        BY <4>1
      <4>6. QED BY <3>1, <3>2, <3>3, <3>4, <4>1, <4>3, <4>4, <4>5
    <3>5. CASE o + At(o).n + 1 < s
      <4>1. o + At(o).n + 1 \in Pos /\ o + At(o).n + 1 # s /\ o + At(o).n + 1 < Used
        BY <3>2, <3>5, <1>3, <1>5 DEF Pos
      <4>2. A2(o + At(o).n + 1) = At(o + At(o).n + 1)
        BY <4>1, <1>7
      <4>3. At(o).id < done + 1
        <5>1. Wrap(head + o) \in Pos
          BY Offsets, WrapInPos DEF Pos
        <5>2. At(o).id \in Nat
          BY <5>1 DEF At, IInv, TypeOK, Word
        <5>3. QED BY <5>2, <3>2, <1>3
      <4>4. o + At(o).n + 1 <= Used /\ o + At(o).n + 1 # Used
        BY <4>1, <1>5, <3>2 DEF Pos
      <4>5. QED BY <3>1, <3>2, <3>3, <4>1, <4>2, <4>3, <4>4
    <3>6. QED BY <3>2, <3>4, <3>5 DEF Pos
  <2>4. QED BY <2>1, <2>2, <2>3 DEF Pos
<1>12. FirstIsNext'
  <2>1. Base < Used /\ Base # Used /\ Base \in Pos
    BY <1>3, <1>5 DEF Pos
  <2>2. A2(Base).k # "data" /\ (Valid(A2(Base)) => A2(Base).id = rd)
    <3>1. CASE Base = s
      <4>1. rd = done
        BY <3>1, <1>4 DEF IInv, FirstIsNext
      <4>2. QED BY <3>1, <4>1, <1>7 DEF Desc
    <3>2. CASE Base # s
      <4>1. A2(Base) = At(Base)
        BY <3>2, <2>1, <1>7
      <4>2. QED BY <4>1, <2>1 DEF IInv, FirstIsNext
    <3>3. QED BY <3>1, <3>2
  <2>3. rd <= done + 1
    BY <1>3 DEF IInv, FirstIsNext, TypeOK
  <2>4. QED BY <1>1, <1>5, <2>1, <2>2, <2>3 DEF FirstIsNext, Valid, At
<1>13. Filling'
  BY <1>2 DEF Filling
<1>14. TypeOK'
  <2>1. mem' \in [Pos -> Word]
    <3>1. Desc(done, dma.n, dma.err) \in Word
      BY <1>3 DEF Desc, Word
    <3>2. QED BY <3>1, <1>1 DEF IInv, TypeOK
  <2>2. /\ dma' \in [got : 0 .. MaxWords + 1, n : 0 .. MaxWords, err : BOOLEAN]
        /\ dma'.got <= dma'.n + 1 /\ (dma'.got > 0 => dma'.n > 0)
    BY <1>1 DEF NoFrame
  <2>3. done' \in Nat /\ isr' \in BOOLEAN
    BY <1>1, <1>3
  <2>4. QED BY <1>1, <2>1, <2>2, <2>3 DEF IInv, TypeOK
<1>15. QED BY <1>7, <1>8, <1>9, <1>11, <1>12, <1>13, <1>14 DEF IInv

(* The invariant is inductive.                                             *)
LEMMA NextIInv == IInv /\ [Next]_vars => IInv'
<1> SUFFICES ASSUME IInv, [Next]_vars PROVE IInv'
  OBVIOUS
<1>1. CASE Driver
  BY <1>1, QuietStep, AbortStep, CopyStep, ZeroStep, AvailStep, SetupStep DEF Driver
<1>2. CASE Engine
  BY <1>2, AbortStep, StartStep, WordStep, DoneStep DEF Engine
<1>3. CASE UNCHANGED vars
  <2>1. UNCHANGED << pc, after, head, cur, mem, wr, avail, full, rxen, isr, dma, done, rd,
                     out, faults >>
    BY <1>3 DEF vars, driverVars, engineVars, ghostVars
  <2>2. (RingAgrees /\ FreeWordsZero /\ Chained /\ FirstIsNext /\ Filling)'
    BY <2>1, LayoutUntouched DEF Base, NumWords
  <2>3. TypeOK'
    BY <2>1 DEF IInv, TypeOK
  <2>4. DriverHolds'
    BY <2>1 DEF IInv, DriverHolds, At, Valid, NumWords
  <2>5. QED BY <2>2, <2>3, <2>4 DEF IInv
<1>4. CASE RxNothing
  BY <1>3, <1>4 DEF RxNothing
<1>5. QED BY <1>1, <1>2, <1>3, <1>4 DEF Next

(* The layout of the ring is invariant.                                    *)
THEOREM LayoutInvariant == Spec => []IInv
BY InitIInv, NextIInv, PTL DEF Spec

(* The state has its type, the three counters agree, and the engine only   *)
(* ever writes to zeroed words.                                            *)
THEOREM RingSafe == Spec => [](TypeOK /\ RingAgrees /\ FreeWordsZero)
<1>1. IInv => TypeOK /\ RingAgrees /\ FreeWordsZero
  BY DEF IInv
<1>2. QED BY <1>1, LayoutInvariant, PTL

(* No valid bit of an older frame is ever left where the engine writes     *)
(* (minic_rxbuf_free).                                                     *)
THEOREM StaleWordsCleared == Spec => []FreeWordsZero
BY RingSafe, PTL

(* What the driver copies is the frame it should copy, whole.              *)
LEMMA CopyFromIInv == IInv => CopyIntact
<1> SUFFICES ASSUME IInv, pc = "copy"
             PROVE  cur.id = rd /\ rd < done /\ \A i \in 1 .. cur.n : At(i) = Data(rd, i)
  BY DEF CopyIntact
<1>1. Base = 0 /\ Valid(At(0)) /\ cur = At(0) /\ 0 \in Pos
  BY RxSizeAssumption DEF Base, IInv, DriverHolds, Pos
<1>2. 0 < Used
  <2>1. At(0) # Zero
    BY <1>1 DEF Valid, Zero
  <2>2. QED BY <1>1, <2>1, Offsets DEF IInv, FreeWordsZero
<1>3. cur.id = rd
  BY <1>1, <1>2 DEF IInv, FirstIsNext
<1>4. 0 >= Base /\ Chained
  BY <1>1 DEF IInv
<1>5. At(0).id < done /\ \A i \in 1 .. At(0).n : At(0 + i) = Data(At(0).id, i)
  BY <1>1, <1>2, <1>4 DEF Chained
<1>6. \A i \in 1 .. cur.n : 0 + i = i
  OBVIOUS
<1>7. QED BY <1>1, <1>3, <1>5, <1>6

(* The caller gets whole frames, in order, for every size of the ring and of *)
(* the frames (minic_rx_frame).                                            *)
THEOREM CopiesWhole == Spec => []CopyIntact
BY LayoutInvariant, CopyFromIInv, PTL

(* The driver and the engine together implement the frame queue.           *)
LEMMA FifoStep == IInv /\ [Next]_vars => [Fifo!FifoNext]_(Fifo!fifoVars)
<1> SUFFICES ASSUME IInv, [Next]_vars PROVE [Fifo!FifoNext]_(Fifo!fifoVars)
  OBVIOUS
<1> USE DEF Fifo!FifoNext, Fifo!fifoVars
<1>1. CASE RxCopy
  <2>1. cur.id = rd /\ rd < done
    BY <1>1, CopyFromIInv DEF CopyIntact, RxCopy, Goto
  <2>2. Fifo!Deliver
    BY <1>1, <2>1 DEF RxCopy, Fifo!Deliver
  <2>3. QED BY <2>2
<1>2. CASE RxSetup
  <2>1. Fifo!Purge
    BY <1>2 DEF RxSetup, Fifo!Purge
  <2>2. QED BY <2>1
<1>3. CASE HwDone
  <2>1. Fifo!Arrive
    BY <1>3 DEF HwDone, Fifo!Arrive
  <2>2. QED BY <2>1
<1>4. CASE \/ RxNothing \/ RxPoll \/ RxDesc \/ RxZero \/ RxAvail \/ RxCheck \/ RxValid
           \/ RxFull \/ RxAck \/ RxStop \/ RxEnable \/ HwStart \/ HwWord \/ HwFault
           \/ HwOverflow \/ UNCHANGED vars
  <2>1. UNCHANGED << done, rd, out >>
    BY <1>4 DEF RxNothing, RxPoll, RxDesc, RxZero, RxAvail, RxCheck, RxValid, RxFull, RxAck,
      RxStop, RxEnable, HwStart, HwWord, HwFault, HwOverflow, vars, ghostVars
  <2>2. QED BY <2>1
<1>5. QED BY <1>1, <1>2, <1>3, <1>4 DEF Next, Driver, Engine

(* The receive path implements the first-in first-out queue of FrameFifo.  *)
THEOREM ImplementsFifo == Spec => RefinesFifo
<1>1. Init => Fifo!FifoInit
  BY DEF Init, Fifo!FifoInit
<1>2. QED BY <1>1, LayoutInvariant, FifoStep, PTL DEF Spec, RefinesFifo, Fifo!FifoSpec

(***************************************************************************)
(* The branch of minic_rx_frame that its comment calls "Weird" (181) is    *)
(* dead code while the engine stores every descriptor and the ring does    *)
(* not overflow, for every ring size, frame length and number of frames.   *)
(***************************************************************************)
(* The empty ring of minic_init satisfies the invariant.                   *)
LEMMA PurgeInit == Init => PurgeInv
<1> SUFFICES ASSUME Init PROVE PurgeInv
  OBVIOUS
<1>1. IInv
  BY InitIInv
<1>2. Start = 0 /\ Base = 0 /\ \A o \in Pos : At(o) = Zero
  BY RxSizeAssumption DEF Init, Start, Used, Base, NoFrame, At, Wrap, Pos
<1>3. NoHoles
  BY <1>2 DEF NoHoles, Valid, Zero
<1>4. FrameWaits
  BY DEF Init, FrameWaits
<1>5. NoSpuriousPurge
  BY DEF Init, NoSpuriousPurge
<1>6. QED BY <1>1, <1>3, <1>4, <1>5 DEF PurgeInv

(* A descriptor at the head lies in a completed frame.                     *)
LEMMA HeadCompleted ==
  ASSUME IInv, Base = 0, Valid(At(0))
  PROVE  0 < Start
<1>1. 0 \in Pos
  BY RxSizeAssumption DEF Pos
<1>2. At(0) # Zero
  BY DEF Valid, Zero
<1>3. QED BY <1>1, <1>2, Offsets DEF IInv, FreeWordsZero

(* A frame behind a descriptor of the chain begins at an offset.           *)
LEMMA ChainNext ==
  ASSUME IInv, NEW o \in Pos, o >= Base, Valid(At(o))
  PROVE  /\ o < Start /\ At(o).n \in 1 .. MaxWords
         /\ o + At(o).n + 1 <= Start
         /\ o + At(o).n + 1 < Start => o + At(o).n + 1 \in Pos
<1>1. o < Used
  <2>1. At(o) # Zero
    BY DEF Valid, Zero
  <2>2. QED BY <2>1, Offsets DEF IInv, FreeWordsZero, Pos
<1>2. At(o).n \in 1 .. MaxWords /\ o + At(o).n + 1 <= Start
  BY <1>1 DEF IInv, Chained
<1>3. QED BY <1>2, Offsets, RxSizeAssumption DEF Pos

(* The chain has no gap after a step that leaves the ring alone, unless    *)
(* the step begins a new chain (RxEnable).                                 *)
LEMMA ChainUntouched ==
  ASSUME NoHoles, UNCHANGED << head, mem >>, Start' = Start, Base' = Base,
         UNCHANGED << faults, full, rxen >>
  PROVE  NoHoles'
<1>1. \A o : At(o)' = At(o)
  BY DEF At
<1>2. QED BY <1>1 DEF NoHoles, Undisturbed, Valid

(* The chain after a step, offset by offset.                               *)
LEMMA ChainAfter ==
  ASSUME NEW b, Base' = b, NEW s, Start' = s,
         b < s => Valid(mem'[Wrap(head' + b)]),
         \A o \in Pos :
           LET d == mem'[Wrap(head' + o)] IN
           o >= b /\ Valid(d) /\ o + d.n + 1 < s => Valid(mem'[Wrap(head' + (o + d.n + 1))])
  PROVE  NoHoles'
<1>1. (Base < Start)' => Valid(At(Base))'
  BY DEF At, Valid
<1>2. ASSUME NEW o \in Pos, (o >= Base /\ Valid(At(o)) /\ o + At(o).n + 1 < Start)'
      PROVE  Valid(At(o + At(o).n + 1))'
  BY <1>2 DEF At, Valid
<1>3. QED BY <1>1, <1>2 DEF NoHoles

(* Nothing is promised of the chain once the engine is at fault, full or   *)
(* stopped.                                                                *)
LEMMA ChainEnded ==
  ASSUME faults' > 0 \/ full' = TRUE \/ rxen' = FALSE
  PROVE  NoHoles'
BY DEF NoHoles, Undisturbed

(* The steps that only read.                                               *)
LEMMA PurgeQuiet ==
  ASSUME PurgeInv, RxPoll \/ RxDesc \/ RxCheck \/ RxValid \/ RxFull \/ RxAck
  PROVE  (NoHoles /\ FrameWaits /\ NoSpuriousPurge)'
<1> USE DEF Goto, engineVars, ghostVars
<1>1. /\ UNCHANGED << head, mem, wr, avail, dma, full, rxen, faults >>
      /\ Base' = Base /\ pc \notin {"setup", "enable", "stop"} /\ pc' \notin {"setup", "enable"}
  BY DEF Base, RxPoll, RxDesc, RxCheck, RxValid, RxFull, RxAck, PurgeInv, IInv, TypeOK
<1>2. Start' = Start
  BY <1>1 DEF Start, Used
<1>3. NoHoles'
  BY <1>1, <1>2, ChainUntouched DEF PurgeInv
<1>4. pc = "desc" \/ pc = "valid" => Base = 0 /\ At(0) = mem[head]
  <2>1. head \in 0 .. RxSize - 1
    BY DEF PurgeInv, IInv, TypeOK, Pos
  <2>2. QED BY <2>1, RxSizeAssumption DEF Base, At, Wrap
<1>5. FrameWaits'
  <2>1. CASE RxPoll
    BY <2>1, <1>1, <1>2 DEF RxPoll, FrameWaits, Undisturbed, PurgeInv
  <2>2. CASE RxValid
    <3>1. CASE Valid(mem[head])
      <4>1. 0 < Start
        BY <2>2, <3>1, <1>4, HeadCompleted DEF RxValid, PurgeInv
      <4>2. QED BY <4>1, <1>1, <1>2 DEF FrameWaits
    <3>2. CASE ~Valid(mem[head])
      BY <2>2, <3>2, <1>1 DEF RxValid, FrameWaits
    <3>3. QED BY <3>1, <3>2
  <2>3. CASE RxAck
    BY <2>3, <1>1 DEF RxAck, FrameWaits
  <2>4. CASE RxDesc \/ RxCheck \/ RxFull
    BY <2>4, <1>1 DEF RxDesc, RxCheck, RxFull, FrameWaits
  <2>5. QED BY <2>1, <2>2, <2>3, <2>4
<1>6. NoSpuriousPurge'
  <2>1. CASE RxDesc
    <3>1. CASE Valid(mem[head])
      BY <2>1, <3>1 DEF RxDesc, NoSpuriousPurge
    <3>2. CASE ~Valid(mem[head])
      <4>1. pc = "desc" /\ ~Valid(At(0)) /\ Base = 0
        BY <2>1, <3>2, <1>4 DEF RxDesc
      <4>2. Undisturbed => 0 < Start
        BY <4>1 DEF PurgeInv, FrameWaits
      <4>3. rxen = TRUE
        BY <4>1 DEF PurgeInv, IInv, DriverHolds, TypeOK
      <4>4. ~Undisturbed
        BY <4>1, <4>2, <4>3 DEF PurgeInv, NoHoles
      <4>5. ~full => faults > 0
        BY <4>4 DEF Undisturbed, PurgeInv, IInv, TypeOK
      <4>6. QED BY <4>5, <1>1 DEF NoSpuriousPurge
    <3>3. QED BY <3>1, <3>2
  <2>2. CASE RxFull
    BY <2>2 DEF RxFull, NoSpuriousPurge
  <2>3. CASE RxPoll \/ RxCheck \/ RxValid \/ RxAck
    BY <2>3 DEF RxPoll, RxCheck, RxValid, RxAck, NoSpuriousPurge
  <2>4. QED BY <2>1, <2>2, <2>3
<1>7. QED BY <1>3, <1>5, <1>6

(* Purging the ring.                                                       *)
LEMMA PurgeRestart ==
  ASSUME PurgeInv, RxStop \/ RxSetup \/ RxEnable
  PROVE  (NoHoles /\ FrameWaits /\ NoSpuriousPurge)'
<1> USE DEF Goto
<1>1. CASE RxStop
  <2>1. pc' = "setup" /\ rxen' = FALSE
    BY <1>1 DEF RxStop
  <2>2. QED BY <2>1, ChainEnded DEF FrameWaits, NoSpuriousPurge, PurgeInv
<1>2. CASE RxSetup
  <2>1. pc = "setup" /\ pc' = "enable" /\ isr' = FALSE /\ rxen' = rxen
    BY <1>2 DEF RxSetup
  <2>2. rxen' = FALSE
    BY <2>1 DEF PurgeInv, IInv, DriverHolds, TypeOK
  <2>3. QED BY <2>1, <2>2, ChainEnded DEF FrameWaits, NoSpuriousPurge, PurgeInv
<1>3. CASE RxEnable
  <2>1. /\ pc = "enable" /\ pc' \in {"idle", "ack"} /\ ~isr /\ isr' = isr
        /\ UNCHANGED << head, mem, avail, dma >>
    BY <1>3 DEF RxEnable, PurgeInv, FrameWaits, IInv, TypeOK
  <2>2. ~rxen /\ avail = RxSize
    BY <2>1 DEF PurgeInv, IInv, DriverHolds
  <2>3. dma.got = 0
    BY <2>2 DEF PurgeInv, IInv, DriverHolds
  <2>4. Start' = 0 /\ Base' = 0
    BY <2>1, <2>2, <2>3, RxSizeAssumption DEF Start, Used, Base
  <2>5. NoHoles'
    <3> SUFFICES ASSUME NEW o \in Pos, Valid(At(o)'),
                        o + At(o)'.n + 1 < 0
                 PROVE  FALSE
      BY <2>4 DEF NoHoles, Valid
    <3>1. o >= Base /\ At(o)' = At(o) /\ Valid(At(o))
      BY <2>1 DEF At, Base, Pos, Valid
    <3>2. At(o).n \in 1 .. MaxWords
      BY <3>1, ChainNext DEF PurgeInv
    <3>3. QED BY <3>1, <3>2, RxSizeAssumption DEF Pos
  <2>6. QED BY <2>1, <2>5 DEF FrameWaits, NoSpuriousPurge
<1>4. QED BY <1>1, <1>2, <1>3

(* Taking a frame off the head: the chain goes on at the next one.         *)
LEMMA PurgeTake ==
  ASSUME PurgeInv, RxCopy \/ RxZero \/ RxAvail
  PROVE  (NoHoles /\ FrameWaits /\ NoSpuriousPurge)'
<1> USE RxSizeAssumption DEF Goto, engineVars, ghostVars
<1> DEFINE A2(x) == mem'[Wrap(head' + x)]
<1>1. /\ pc' \in {"zero", "avail", "check"} /\ pc \in {"copy", "zero", "avail"}
      /\ UNCHANGED << full, rxen, faults >>
  BY DEF RxCopy, RxZero, RxAvail
<1>2. (FrameWaits /\ NoSpuriousPurge)'
  BY <1>1 DEF FrameWaits, NoSpuriousPurge
<1> SUFFICES NoHoles'
  BY <1>2
<1>3. IInv
  BY DEF PurgeInv
<1>4. rxen = TRUE
  BY <1>1, <1>3 DEF IInv, DriverHolds, TypeOK
<1>5. CASE ~Undisturbed
  <2>1. Undisturbed' = Undisturbed
    BY <1>1 DEF Undisturbed
  <2>2. QED BY <2>1, <1>5 DEF NoHoles
<1>6. CASE Undisturbed
  <2>1. /\ Base < Start => Valid(At(Base))
        /\ \A o \in Pos :
             o >= Base /\ Valid(At(o)) /\ o + At(o).n + 1 < Start =>
               Valid(At(o + At(o).n + 1))
    BY <1>4, <1>6 DEF PurgeInv, NoHoles
  <2>2. CASE RxCopy
    <3>1. UNCHANGED << head, cur, mem, avail, dma >> /\ pc = "copy" /\ pc' = "zero"
      BY <2>2 DEF RxCopy
    <3>3. Base = 0 /\ Valid(At(0)) /\ cur = At(0) /\ 0 \in Pos
      BY <3>1, <1>3 DEF Base, IInv, DriverHolds, Pos
    <3>4. Start' = Start /\ Base' = cur.n + 1
      BY <3>1 DEF Start, Used, Base, NumWords
    <3>5. cur.n \in 1 .. MaxWords
      BY <3>3, <1>3, ChainNext
    <3>6. 0 + cur.n + 1 < Start => Valid(At(0 + cur.n + 1))
      BY <2>1, <3>3
    <3>7. cur.n + 1 < Start => Valid(At(cur.n + 1))
      BY <3>5, <3>6
    <3>8. \A o \in Pos : o >= cur.n + 1 => o >= Base
      BY <3>3, <3>5 DEF Pos
    <3>9. \A o : A2(o) = At(o)
      BY <3>1 DEF At
    <3> DEFINE b == cur.n + 1
    <3>10. Base' = b /\ (b < Start => Valid(A2(b)))
      BY <3>4, <3>7, <3>9
    <3>11. \A o \in Pos :
             o >= b /\ Valid(A2(o)) /\ o + A2(o).n + 1 < Start => Valid(A2(o + A2(o).n + 1))
      BY <2>1, <3>8, <3>9
    <3> HIDE DEF b
    <3>12. QED BY <3>4, <3>10, <3>11, ChainAfter
  <2>3. CASE RxZero
    <3>1. /\ UNCHANGED << head, cur, avail, dma >> /\ pc = "zero" /\ pc' = "avail"
          /\ mem' = [p \in Pos |-> IF p \in FromHead(NumWords(cur)) THEN Zero ELSE mem[p]]
      BY <2>3 DEF RxZero
    <3>2. Start' = Start /\ Base' = Base /\ Base = NumWords(cur)
      BY <3>1 DEF Start, Used, Base, NumWords
    <3>3. \A o \in Pos : o >= Base => A2(o) = At(o)
      <4> SUFFICES ASSUME NEW o \in Pos, o >= Base PROVE A2(o) = At(o)
        OBVIOUS
      <4>1. Wrap(head + o) \in Pos
        BY <1>3, Offsets, WrapInPos DEF Pos
      <4>2. Wrap(head + o) \notin FromHead(Base)
        BY <1>3, FromHeadOffset, Offsets DEF Pos
      <4>3. QED BY <3>1, <3>2, <4>1, <4>2 DEF At
    <3>4. Base < Start => Base \in Pos /\ Base >= Base
      BY <1>3, Offsets DEF Pos
    <3>5. Base < Start => Valid(A2(Base))
      BY <2>1, <3>3, <3>4
    <3>6. \A o \in Pos :
            o >= Base /\ Valid(At(o)) /\ o + At(o).n + 1 < Start =>
              o + At(o).n + 1 \in Pos /\ o + At(o).n + 1 >= Base
      <4> SUFFICES ASSUME NEW o \in Pos, o >= Base, Valid(At(o)), o + At(o).n + 1 < Start
                   PROVE  o + At(o).n + 1 \in Pos /\ o + At(o).n + 1 >= Base
        OBVIOUS
      <4>1. At(o).n \in 1 .. MaxWords /\ o + At(o).n + 1 \in Pos
        BY <1>3, ChainNext
      <4>2. QED BY <4>1, <1>3, Offsets DEF Pos
    <3>7. \A o \in Pos :
            o >= Base /\ Valid(A2(o)) /\ o + A2(o).n + 1 < Start =>
              Valid(A2(o + A2(o).n + 1))
      <4> SUFFICES ASSUME NEW o \in Pos, o >= Base, Valid(A2(o)), o + A2(o).n + 1 < Start
                   PROVE  Valid(A2(o + A2(o).n + 1))
        OBVIOUS
      <4>1. A2(o) = At(o)
        BY <3>3
      <4>2. Valid(At(o + At(o).n + 1))
        BY <2>1, <4>1
      <4>3. A2(o + At(o).n + 1) = At(o + At(o).n + 1)
        BY <3>3, <3>6, <4>1
      <4>4. QED BY <4>1, <4>2, <4>3
    <3>8. QED BY <3>2, <3>5, <3>7, ChainAfter
  <2>4. CASE RxAvail
    <3>1. /\ Base \in 0 .. Start /\ Start' = Start - Base /\ Base' = 0
          /\ \A o \in 0 .. RxSize - Base : A2(o) = At(o + Base)
      BY <2>4, <1>3, Rotated DEF At
    <3>2. Start \in 0 .. RxSize
      BY <1>3, Offsets
    <3>3. 0 < Start - Base => Valid(A2(0))
      <4>1. 0 \in 0 .. RxSize - Base /\ 0 + Base = Base
        BY <3>1, <3>2
      <4>2. 0 < Start - Base => Base < Start
        BY <3>1, <3>2
      <4>3. QED BY <2>1, <3>1, <4>1, <4>2
    <3>4. \A o \in Pos : A2(o).n \in Nat
      <4>1. IInv'
        BY <2>4, <1>3, AvailStep
      <4>2. mem' \in [Pos -> Word] /\ head' \in Pos
        BY <4>1 DEF IInv, TypeOK
      <4>3. \A o \in Pos : Wrap(head' + o) \in Pos
        BY <4>2, WrapInPos DEF Pos
      <4>4. QED BY <4>2, <4>3 DEF Word
    <3>5. \A o \in Pos :
            Valid(A2(o)) /\ o + A2(o).n + 1 < Start - Base => Valid(A2(o + A2(o).n + 1))
      <4> SUFFICES ASSUME NEW o \in Pos, Valid(A2(o)), o + A2(o).n + 1 < Start - Base
                   PROVE  Valid(A2(o + A2(o).n + 1))
        OBVIOUS
      <4> DEFINE q == o + Base
      <4>1. o \in 0 .. RxSize - Base /\ q \in Pos /\ q >= Base
        BY <3>1, <3>2, <3>4 DEF Pos
      <4>2. A2(o) = At(q)
        BY <3>1, <4>1
      <4>3. At(q).n \in 1 .. MaxWords
        BY <1>3, <4>1, <4>2, ChainNext
      <4>4. q + At(q).n + 1 < Start
        BY <3>1, <3>2, <4>1, <4>2, <4>3 DEF Pos
      <4>5. Valid(At(q + At(q).n + 1))
        BY <2>1, <4>1, <4>2, <4>4
      <4> DEFINE e == o + At(q).n + 1
      <4>6. e \in 0 .. RxSize - Base /\ e + Base = q + At(q).n + 1
        BY <3>1, <3>2, <4>1, <4>3, <4>4 DEF Pos
      <4>7. A2(e) = At(q + At(q).n + 1)
        <5> HIDE DEF e
        <5>1. A2(e) = At(e + Base)
          BY <3>1, <4>6
        <5>2. QED BY <5>1, <4>6
      <4>8. QED BY <4>2, <4>5, <4>7
    <3>6. QED BY <3>1, <3>3, <3>5, ChainAfter
  <2>5. QED BY <2>2, <2>3, <2>4
<1>7. QED BY <1>5, <1>6

(* The engine keeps the chain: it stores words behind its frames, and the  *)
(* descriptor of a frame it completed where the chain ended.               *)
LEMMA PurgeReceive ==
  ASSUME PurgeInv, HwStart \/ HwWord \/ HwDone
  PROVE  NoHoles' /\ Start' >= Start /\ (HwDone => Start' > 0)
<1> USE RxSizeAssumption
<1> DEFINE A2(x) == mem'[Wrap(head' + x)]
<1>1. IInv
  BY DEF PurgeInv
<1>2. rxen = TRUE /\ full = FALSE /\ UNCHANGED << full, rxen, faults >>
  BY <1>1 DEF HwStart, HwWord, HwDone, Receiving, driverVars, ghostVars, IInv, TypeOK
<1>3. CASE HwStart
  <2>1. /\ UNCHANGED << pc, cur, head, mem >> /\ dma.got = 0 /\ dma'.got = 1
        /\ avail' = avail - 1
    BY <1>3 DEF HwStart, driverVars
  <2>2. avail \in Int
    BY <1>1 DEF IInv, TypeOK
  <2>3. Start' = Start /\ Base' = Base
    BY <2>1, <2>2 DEF Start, Used, Base, NumWords
  <2>4. ~HwDone
    BY <1>3, <2>1 DEF HwDone, driverVars, HwStart, NoFrame
  <2>5. QED BY <1>1, <1>2, <2>1, <2>3, <2>4, ChainUntouched, Offsets DEF PurgeInv
<1>4. CASE HwWord
  <2>1. PICK u \in Pos :
          /\ u = Used /\ Start \in 0 .. u /\ Start < u /\ Start' = Start /\ Base' = Base
          /\ \A o \in Pos : o # u => A2(o) = At(o)
          /\ A2(u) = Data(done, dma.got)
    BY <1>1, <1>4, WordStored DEF At
  <2>2. ~HwDone
    BY <1>1, <1>4, Offsets DEF HwDone, HwWord
  <2>3. CASE ~Undisturbed
    <3>1. Undisturbed' = Undisturbed
      BY <1>2 DEF Undisturbed
    <3>2. QED BY <3>1, <2>1, <2>2, <2>3, <1>1, Offsets DEF NoHoles
  <2>4. CASE Undisturbed
    <3>1. /\ Base < Start => Valid(At(Base))
          /\ \A o \in Pos :
               o >= Base /\ Valid(At(o)) /\ o + At(o).n + 1 < Start =>
                 Valid(At(o + At(o).n + 1))
      BY <1>2, <2>4 DEF PurgeInv, NoHoles
    <3>2. Base < Start => Base \in Pos /\ Base # u
      BY <2>1, <1>1, Offsets DEF Pos
    <3>3. Base < Start => Valid(A2(Base))
      BY <2>1, <3>1, <3>2
    <3>4. \A o \in Pos :
            o >= Base /\ Valid(A2(o)) /\ o + A2(o).n + 1 < Start =>
              Valid(A2(o + A2(o).n + 1))
      <4> SUFFICES ASSUME NEW o \in Pos, o >= Base, Valid(A2(o)), o + A2(o).n + 1 < Start
                   PROVE  Valid(A2(o + A2(o).n + 1))
        OBVIOUS
      <4>1. A2(o) = At(o)
        BY <2>1 DEF Valid, Data
      <4>2. At(o).n \in 1 .. MaxWords /\ o + At(o).n + 1 \in Pos
        BY <4>1, <1>1, ChainNext
      <4>3. o + At(o).n + 1 # u
        BY <2>1, <4>1, <4>2, <1>1, Offsets DEF Pos
      <4>4. A2(o + At(o).n + 1) = At(o + At(o).n + 1)
        BY <2>1, <4>2, <4>3
      <4>5. QED BY <3>1, <4>1, <4>4
    <3>5. NoHoles'
      BY <2>1, <3>3, <3>4, ChainAfter
    <3>6. QED BY <3>5, <2>1, <2>2, <1>1, Offsets
  <2>5. QED BY <2>3, <2>4
<1>5. CASE HwDone
  <2>1. PICK s \in Pos :
          /\ s = Start /\ Used = s + dma.n + 1 /\ dma.n \in 1 .. MaxWords
          /\ Start' = Used /\ Base' = Base
          /\ \A o \in Pos : o # s => A2(o) = At(o)
          /\ A2(s) = Desc(done, dma.n, dma.err)
          /\ \A i \in 1 .. dma.n : A2(s + i) = Data(done, i)
    BY <1>1, <1>5, FrameStored DEF At
  <2>2. Start' >= Start /\ Start' > 0
    BY <2>1 DEF Pos
  <2>3. CASE ~Undisturbed
    <3>1. Undisturbed' = Undisturbed
      BY <1>2 DEF Undisturbed
    <3>2. QED BY <3>1, <2>2, <2>3 DEF NoHoles
  <2>4. CASE Undisturbed
    <3>1. /\ Base < s => Valid(At(Base))
          /\ \A o \in Pos :
               o >= Base /\ Valid(At(o)) /\ o + At(o).n + 1 < s =>
                 Valid(At(o + At(o).n + 1))
      BY <1>2, <2>1, <2>4 DEF PurgeInv, NoHoles
    <3>2. Base \in 0 .. s
      BY <2>1, <1>1, Offsets
    <3>3. Valid(A2(s))
      BY <2>1 DEF Valid, Desc
    <3>4. Valid(A2(Base))
      <4>1. CASE Base = s
        BY <3>3, <4>1
      <4>2. CASE Base # s
        <5>1. Base \in Pos /\ Base < s
          BY <3>2, <4>2 DEF Pos
        <5>2. QED BY <2>1, <3>1, <4>2, <5>1
      <4>3. QED BY <4>1, <4>2
    <3>5. \A o \in Pos :
            o >= Base /\ Valid(A2(o)) /\ o + A2(o).n + 1 < Used =>
              Valid(A2(o + A2(o).n + 1))
      <4> SUFFICES ASSUME NEW o \in Pos, o >= Base, Valid(A2(o)), o + A2(o).n + 1 < Used
                   PROVE  Valid(A2(o + A2(o).n + 1))
        OBVIOUS
      <4>1. o # s
        <5>1. o = s => A2(o).n = dma.n
          BY <2>1 DEF Desc
        <5>2. QED BY <5>1, <2>1 DEF Pos
      <4>2. A2(o) = At(o) /\ Valid(At(o))
        BY <2>1, <4>1
      <4>3. /\ At(o).n \in 1 .. MaxWords /\ o + At(o).n + 1 <= s
            /\ o + At(o).n + 1 < s => o + At(o).n + 1 \in Pos
        BY <4>2, <1>1, <2>1, ChainNext
      <4>4. CASE o + At(o).n + 1 = s
        BY <3>3, <4>2, <4>4
      <4>5. CASE o + At(o).n + 1 < s
        <5>1. o + At(o).n + 1 \in Pos /\ o + At(o).n + 1 # s
          BY <2>1, <4>3, <4>5 DEF Pos
        <5>2. A2(o + At(o).n + 1) = At(o + At(o).n + 1)
          BY <2>1, <5>1
        <5>3. QED BY <3>1, <4>2, <4>5, <5>2
      <4>6. QED BY <4>3, <4>4, <4>5 DEF Pos
    <3>6. NoHoles'
      BY <2>1, <3>4, <3>5, ChainAfter
    <3>7. QED BY <3>6, <2>2
  <2>5. QED BY <2>3, <2>4
<1>6. QED BY <1>3, <1>4, <1>5

(* The engine never leads the driver to an empty head: the interrupt bit   *)
(* comes with a frame, a fault or an overflow.                             *)
LEMMA PurgeEngine ==
  ASSUME PurgeInv, Engine
  PROVE  (NoHoles /\ FrameWaits /\ NoSpuriousPurge)'
<1>1. IInv /\ UNCHANGED << pc, after >>
  BY DEF PurgeInv, Engine, HwStart, HwWord, HwDone, HwFault, HwOverflow, driverVars
<1>2. Receiving /\ pc # "enable"
  <2>1. Receiving
    BY DEF Engine, HwStart, HwWord, HwDone, HwFault, HwOverflow
  <2>2. QED BY <2>1, <1>1 DEF Receiving, IInv, DriverHolds
<1>3. CASE HwStart \/ HwWord \/ HwDone
  <2>1. NoHoles' /\ Start' >= Start /\ (HwDone => Start' > 0)
    BY <1>3, PurgeReceive
  <2>2. UNCHANGED << full, faults >> /\ (isr' = isr \/ HwDone)
    BY <1>3 DEF HwStart, HwWord, HwDone, ghostVars
  <2>3. FrameWaits'
    <3>1. CASE HwDone
      BY <1>1, <1>2, <2>1, <3>1 DEF FrameWaits
    <3>2. CASE isr' = isr
      <4>1. 0 < Start => 0 < Start'
        <5>1. CASE HwDone
          BY <2>1, <5>1
        <5>2. CASE HwStart \/ HwWord
          <6>1. Start' = Start
            <7>1. CASE HwWord
              BY <1>1, <7>1, WordStored
            <7>2. CASE HwStart
              BY <1>1, <7>2, RxSizeAssumption DEF HwStart, Start, Used, IInv, TypeOK
            <7>3. QED BY <5>2, <7>1, <7>2
          <6>2. QED BY <6>1
        <5>3. QED BY <1>3, <5>1, <5>2
      <4>2. QED BY <1>1, <1>2, <2>2, <3>2, <4>1 DEF FrameWaits, Undisturbed, PurgeInv
    <3>3. QED BY <2>2, <3>1, <3>2
  <2>4. NoSpuriousPurge'
    BY <1>1, <2>2 DEF NoSpuriousPurge, PurgeInv
  <2>5. QED BY <2>1, <2>3, <2>4
<1>4. CASE HwFault
  <2>1. faults' = faults + 1 /\ faults \in Nat
    BY <1>1, <1>4 DEF HwFault, IInv, TypeOK
  <2>2. faults' > 0
    BY <2>1
  <2>3. QED
    BY <1>1, <1>2, <2>2, ChainEnded DEF FrameWaits, Undisturbed, NoSpuriousPurge
<1>5. CASE HwOverflow
  <2>1. full' = TRUE
    BY <1>5 DEF HwOverflow
  <2>2. QED
    BY <1>1, <1>2, <2>1, ChainEnded DEF FrameWaits, Undisturbed, NoSpuriousPurge
<1>6. QED BY <1>3, <1>4, <1>5 DEF Engine

(* PurgeInv is inductive.                                                  *)
LEMMA PurgeNext == PurgeInv /\ [Next]_vars => PurgeInv'
<1> SUFFICES ASSUME PurgeInv, [Next]_vars PROVE PurgeInv'
  OBVIOUS
<1>1. IInv'
  BY NextIInv DEF PurgeInv
<1>2. (NoHoles /\ FrameWaits /\ NoSpuriousPurge)'
  <2>1. CASE Driver
    BY <2>1, PurgeQuiet, PurgeRestart, PurgeTake DEF Driver
  <2>2. CASE Engine
    BY <2>2, PurgeEngine
  <2>3. CASE UNCHANGED vars
    <3>1. UNCHANGED << pc, after, head, cur, mem, avail, full, rxen, isr, dma, faults >>
      BY <2>3 DEF vars, driverVars, engineVars, ghostVars
    <3>2. Start' = Start /\ Base' = Base
      BY <3>1 DEF Start, Used, Base, NumWords
    <3>3. NoHoles'
      BY <3>1, <3>2, ChainUntouched DEF PurgeInv
    <3>4. QED BY <3>1, <3>2, <3>3 DEF PurgeInv, FrameWaits, NoSpuriousPurge, Undisturbed
  <2>4. CASE RxNothing
    BY <2>3, <2>4 DEF RxNothing
  <2>5. QED BY <2>1, <2>2, <2>3, <2>4 DEF Next
<1>3. QED BY <1>1, <1>2 DEF PurgeInv

(* The chain of frames has no hole, and the interrupt bit means a frame.   *)
THEOREM ChainInvariant == Spec => []PurgeInv
BY PurgeInit, PurgeNext, PTL DEF Spec

(* The driver purges its ring only when the engine has lost a descriptor   *)
(* or the ring overflowed: line 181 of dev/minic.c is not reached          *)
(* otherwise, whatever the interleaving.                                   *)
THEOREM PurgesForCause == Spec => []NoSpuriousPurge
<1>1. PurgeInv => NoSpuriousPurge
  BY DEF PurgeInv
<1>2. QED BY <1>1, ChainInvariant, PTL

-----------------------------------------------------------------------------
(* The transmit path.                                                      *)

LEMMA Sizes ==
  ASSUME NEW f \in TxFrames
  PROVE  /\ f \in Seq(TxWord) /\ Len(f) \in Nat \ {0} /\ f # << >>
         /\ PaddedTo(Len(f)) \in Nat /\ PaddedTo(Len(f)) >= Len(f) /\ PaddedTo(Len(f)) >= MinWords
         /\ PaddedTo(Len(f)) = Len(f) \/ PaddedTo(Len(f)) = MinWords
         /\ 2 * PaddedTo(Len(f)) < TxWords /\ Len(f) + Slack <= TxWords
<1>1. f \in Seq(TxWord) /\ Len(f) \in Nat /\ Len(f) > 0 /\ 2 * PaddedTo(Len(f)) < TxWords
      /\ Len(f) + Slack <= TxWords
  BY TxAssumption
<1>2. f # << >>
  BY <1>1
<1>3. QED BY <1>1, <1>2, TxAssumption DEF PaddedTo

LEMMA InitTx == TxInit => TxInv
<1> SUFFICES ASSUME TxInit PROVE TxInv
  OBVIOUS
<1>1. buf \in [0 .. TxWords - 1 -> TxWord]
  BY DEF TxInit, Blanked, TxWord
<1>2. WordAt(MinWords + 1) = Blanked
  BY TxAssumption DEF TxInit, WordAt
<1>3. SendsAsked
  <2>1. wire = << >> /\ tx_frame = << >> /\ Len(wire) = 0
    BY DEF TxInit
  <2>2. QED BY <2>1 DEF SendsAsked
<1>4. ~sending /\ tx_frame = << >> /\ dirty \in BOOLEAN /\ at_desc \in Nat
  BY DEF TxInit
<1>5. QED BY <1>1, <1>2, <1>3, <1>4 DEF TxInv

(* The buffer with a new frame in it.                                      *)
LEMMA Laid ==
  ASSUME TxInv, NEW f \in TxFrames, buf' = BufferWith(f)
  PROVE  /\ buf' \in [0 .. TxWords - 1 -> TxWord]
         /\ buf'[0] = Descriptor(PaddedTo(Len(f)))
         /\ \A i \in 1 .. PaddedTo(Len(f)) : buf'[i] = Padded(f)[i]
         /\ Len(f) > MinWords => buf'[Len(f) + 1] = Blanked
         /\ Len(f) <= MinWords /\ ~Short(f) => WordAt(MinWords + 1)' = Blanked
         /\ Len(f) <= MinWords /\ ~dirty => WordAt(MinWords + 1)' = Blanked
<1> DEFINE n == PaddedTo(Len(f))
<1>1. n \in Nat \ {0} /\ f \in Seq(TxWord) /\ Len(f) \in Nat \ {0} /\ n >= Len(f) /\ n >= MinWords
      /\ 2 * n < TxWords /\ (n = Len(f) \/ n = MinWords)
  BY Sizes, TxAssumption
<1>2. \A i \in 0 .. TxWords - 1 :
        buf'[i] = IF i = 0 THEN Descriptor(n)
                  ELSE IF i = 2 * n THEN Blanked
                  ELSE IF i <= Len(f) THEN f[i]
                  ELSE IF i \in Cleared(Len(f)) THEN Blanked ELSE buf[i]
  BY DEF BufferWith
<1>3. \A i \in 1 .. Len(f) : f[i] \in TxWord
  BY <1>1
<1>4. Descriptor(n) \in TxWord /\ Blanked \in TxWord
  BY <1>1 DEF Descriptor, Blanked, TxWord
<1>5. \A i \in 0 .. TxWords - 1 : buf[i] \in TxWord
  BY DEF TxInv
<1>6. buf' \in [0 .. TxWords - 1 -> TxWord]
  <2>1. \A i \in 0 .. TxWords - 1 : buf'[i] \in TxWord
    BY <1>1, <1>2, <1>3, <1>4, <1>5
  <2>2. buf' = [i \in 0 .. TxWords - 1 |-> buf'[i]]
    BY DEF BufferWith
  <2>3. QED BY <2>1, <2>2
<1>7. buf'[0] = Descriptor(n)
  BY <1>1, <1>2, TxAssumption
<1>8. ASSUME NEW i \in 1 .. n PROVE buf'[i] = Padded(f)[i]
  <2>1. i \in 0 .. TxWords - 1 /\ i # 0 /\ i # 2 * n
    BY <1>1, TxAssumption
  <2>2. i > Len(f) => i \in Cleared(Len(f))
    BY <1>1 DEF Cleared
  <2>3. Padded(f)[i] = IF i <= Len(f) THEN f[i] ELSE Blanked
    BY DEF Padded
  <2>4. QED BY <1>1, <1>2, <2>1, <2>2, <2>3
<1>9. ASSUME Len(f) > MinWords PROVE buf'[Len(f) + 1] = Blanked
  <2>1. Len(f) + 1 \in 0 .. TxWords - 1 /\ Len(f) + 1 \in Cleared(Len(f))
    BY <1>1, <1>9, TxAssumption DEF Cleared
  <2>2. QED BY <1>1, <1>2, <2>1
<1>10. ASSUME Len(f) <= MinWords, ~Short(f) PROVE WordAt(MinWords + 1)' = Blanked
  <2>1. MinWords + 1 \in Cleared(Len(f)) /\ MinWords + 1 > Len(f)
    BY <1>1, <1>10, TxAssumption DEF Cleared, Short
  <2>2. MinWords + 1 < TxWords => buf'[MinWords + 1] = Blanked
    BY <1>1, <1>2, <2>1, TxAssumption
  <2>3. QED BY <2>2 DEF WordAt
<1>11. ASSUME Len(f) <= MinWords, ~dirty PROVE WordAt(MinWords + 1)' = Blanked
  <2>1. MinWords + 1 < TxWords => buf[MinWords + 1] = Blanked
    BY <1>11 DEF TxInv, WordAt
  <2>2. MinWords + 1 < TxWords => buf'[MinWords + 1] = Blanked
    BY <1>1, <1>2, <1>11, <2>1, TxAssumption
  <2>3. QED BY <2>2 DEF WordAt
<1>12. QED BY <1>6, <1>7, <1>8, <1>9, <1>10, <1>11

LEMMA FrameStep == ASSUME TxInv, minic_tx_frame PROVE TxInv'
<1>1. PICK f \in TxFrames :
        /\ buf' = BufferWith(f) /\ tx_frame' = f
        /\ dirty' = IF Len(f) > MinWords THEN TRUE ELSE dirty /\ Short(f)
  BY DEF minic_tx_frame
<1>2. sending' = TRUE /\ at_desc' = 0 /\ wire' = << >>
  BY DEF minic_tx_frame
<1>3. f # << >> /\ Len(f) \in Nat \ {0} /\ PaddedTo(Len(f)) >= MinWords
      /\ PaddedTo(Len(f)) = (IF Len(f) < MinWords THEN MinWords ELSE Len(f))
      /\ 2 * PaddedTo(Len(f)) < TxWords
  BY Sizes DEF PaddedTo
<1>4. dirty' \in BOOLEAN
  BY <1>1 DEF TxInv, Short
<1>5. ~dirty' => WordAt(MinWords + 1)' = Blanked
  <2>1. CASE Len(f) > MinWords
    BY <1>1, <2>1
  <2>2. CASE Len(f) <= MinWords /\ ~Short(f)
    BY <1>1, <2>2, Laid
  <2>3. CASE Len(f) <= MinWords /\ ~dirty
    BY <1>1, <2>3, Laid
  <2>4. CASE Len(f) <= MinWords /\ Short(f) /\ dirty
    <3>1. ~(Len(f) > MinWords)
      BY <1>3, <2>4, TxAssumption
    <3>2. QED BY <1>1, <2>4, <3>1
  <2>5. Len(f) > MinWords \/ Len(f) <= MinWords
    BY <1>3, TxAssumption
  <2>6. QED BY <2>1, <2>2, <2>3, <2>4, <2>5
<1>6. (dirty' /\ Short(f)) \/ WordAt(EndsAt)' = Blanked
  <2>1. CASE Len(f) > MinWords
    <3>1. EndsAt' = Len(f) + 1
      BY <1>1, <1>3, <2>1, TxAssumption DEF EndsAt
    <3>2. QED BY <1>1, <2>1, <3>1, Laid DEF WordAt
  <2>2. CASE Len(f) <= MinWords
    <3>1. EndsAt' = MinWords + 1
      BY <1>1, <1>3, <2>2, TxAssumption DEF EndsAt
    <3>2. QED BY <1>1, <1>3, <2>2, <3>1, Laid, TxAssumption DEF WordAt
  <2>3. QED BY <1>3, <2>1, <2>2, TxAssumption
<1>7. wire' \in Seq(Seq(TxWord)) /\ Len(wire') = 0
  BY <1>2
<1>8. SendsAsked'
  BY <1>2, <1>7 DEF SendsAsked
<1>9. /\ buf' \in [0 .. TxWords - 1 -> TxWord]
      /\ buf'[0] = Descriptor(PaddedTo(Len(tx_frame')))
      /\ \A i \in 1 .. PaddedTo(Len(tx_frame')) : buf'[i] = Padded(tx_frame')[i]
  BY <1>1, Laid
<1>10. (dirty' /\ Short(tx_frame')) \/ WordAt(EndsAt)' = Blanked
  BY <1>1, <1>6
<1>11. tx_frame' \in TxFrames /\ at_desc' \in Nat /\ Len(wire') # 1
  BY <1>1, <1>2, <1>7
<1>12. QED BY <1>1, <1>2, <1>3, <1>4, <1>5, <1>7, <1>8, <1>9, <1>10, <1>11 DEF TxInv, Short

(* The first thing the engine sends is the frame; the second needs a word  *)
(* behind it that was not cleared.                                         *)
LEMMA SendsStep == ASSUME TxInv, EngineSends PROVE TxInv'
<1> DEFINE n == WordAt(at_desc).n
           part == [i \in 1 .. n |-> WordAt(at_desc + i)]
<1>1. /\ sending /\ sending' /\ WordAt(at_desc).valid /\ wire' = Append(wire, part)
      /\ at_desc' = at_desc + n + 1 /\ UNCHANGED << buf, tx_frame, dirty >>
  BY DEF EngineSends
<1>2. tx_frame \in TxFrames /\ tx_frame # << >> /\ wire \in Seq(Seq(TxWord))
  BY <1>1 DEF TxInv
<1>3. \A i : WordAt(i) = WordAt(i)'
  BY <1>1 DEF WordAt
<1>4. n \in Nat /\ part \in Seq(TxWord)
  <2>1. \A i \in Nat : WordAt(i) \in TxWord
    BY TxAssumption DEF TxInv, WordAt, Blanked, TxWord
  <2>2. WordAt(at_desc) \in TxWord
    BY <2>1 DEF TxInv
  <2>3. n \in Nat
    BY <2>2 DEF TxWord
  <2>4. \A i \in 1 .. n : WordAt(at_desc + i) \in TxWord
    BY <2>1, <2>3 DEF TxInv
  <2>5. QED BY <2>3, <2>4
<1>5. /\ Len(wire') = Len(wire) + 1 /\ wire' \in Seq(Seq(TxWord))
      /\ wire # << >> => wire'[1] = wire[1]
      /\ wire = << >> => wire'[1] = part
  BY <1>1, <1>2, <1>4
<1>6. CASE wire = << >>
  <2>1. at_desc = 0 /\ WordAt(0) = Descriptor(PaddedTo(Len(tx_frame)))
    BY <1>1, <1>2, <1>6, TxAssumption, Sizes DEF TxInv, WordAt
  <2>2. n = PaddedTo(Len(tx_frame)) /\ n < TxWords
    BY <2>1, <1>2, Sizes, TxAssumption DEF Descriptor
  <2>3. \A i \in 1 .. n : part[i] = Padded(tx_frame)[i]
    BY <1>1, <1>2, <1>4, <2>1, <2>2, TxAssumption DEF TxInv, WordAt
  <2>4. part = Padded(tx_frame)
    BY <2>2, <2>3 DEF Padded
  <2>5. at_desc' = EndsAt' /\ Len(wire') = 1 /\ wire'[1] = Padded(tx_frame)
    BY <1>1, <1>4, <1>5, <1>6, <2>1, <2>2, <2>4 DEF EndsAt
  <2>6. SendsAsked'
    BY <1>1, <2>5 DEF SendsAsked
  <2>7. at_desc' \in Nat /\ wire' # << >>
    BY <1>1, <1>4, <2>1, <1>5, <1>6
  <2>8. QED BY <1>1, <1>2, <1>3, <1>5, <2>5, <2>6, <2>7 DEF TxInv, EndsAt
<1>7. CASE wire # << >>
  <2>1. Len(wire) \in Nat \ {0} /\ Len(wire') > 1 /\ wire' # << >>
    BY <1>2, <1>5, <1>7
  <2>2. dirty /\ Short(tx_frame)
    <3>1. CASE Len(wire) = 1
      <4>1. at_desc = EndsAt /\ WordAt(EndsAt) # Blanked
        BY <1>1, <3>1 DEF TxInv, Blanked
      <4>2. QED BY <1>1, <1>2, <4>1 DEF TxInv
    <3>2. CASE Len(wire) > 1
      BY <3>2 DEF TxInv, SendsAsked
    <3>3. Len(wire) = 1 \/ Len(wire) > 1
      <4>1. \A k \in Nat \ {0} : k = 1 \/ k > 1
        OBVIOUS
      <4>2. QED BY <2>1, <4>1
    <3>4. QED BY <3>1, <3>2, <3>3
  <2>3. SendsAsked'
    BY <1>1, <1>5, <1>7, <2>1, <2>2 DEF TxInv, SendsAsked, Short
  <2>4. at_desc' \in Nat
    BY <1>1, <1>4 DEF TxInv
  <2>5. QED BY <1>1, <1>2, <1>3, <1>5, <2>1, <2>2, <2>3, <2>4 DEF TxInv, EndsAt, Short
<1>8. QED BY <1>6, <1>7

(* The engine does not stop before it has sent the frame.                  *)
LEMMA StopsStep == ASSUME TxInv, EngineStops PROVE TxInv'
<1>1. /\ sending /\ sending' = FALSE /\ ~WordAt(at_desc).valid
      /\ UNCHANGED << buf, at_desc, tx_frame, wire, dirty >>
  BY DEF EngineStops
<1>2. tx_frame \in TxFrames /\ tx_frame # << >>
  BY <1>1 DEF TxInv
<1>3. wire # << >>
  <2>1. SUFFICES ASSUME wire = << >> PROVE FALSE
    OBVIOUS
  <2>2. WordAt(0) = Descriptor(PaddedTo(Len(tx_frame)))
    BY <1>1, <1>2, TxAssumption, Sizes DEF TxInv, WordAt
  <2>3. QED BY <1>1, <2>1, <2>2 DEF TxInv, Descriptor
<1>4. SendsAsked'
  BY <1>1, <1>3 DEF TxInv, SendsAsked, Short
<1>5. WordAt(MinWords + 1)' = WordAt(MinWords + 1)
  BY <1>1 DEF WordAt
<1>6. QED BY <1>1, <1>4, <1>5 DEF TxInv

(* Every frame goes out as it was asked for (minic_tx_frame), and nothing  *)
(* else does unless a short frame follows a longer one.                    *)
THEOREM FramesSentAsAsked == TxSpec => []SendsAsked
<1>1. TxInv /\ [TxNext]_txVars => TxInv'
  <2> SUFFICES ASSUME TxInv, [TxNext]_txVars PROVE TxInv'
    OBVIOUS
  <2>1. CASE minic_tx_frame
    BY <2>1, FrameStep
  <2>2. CASE EngineSends
    BY <2>2, SendsStep
  <2>3. CASE EngineStops
    BY <2>3, StopsStep
  <2>4. CASE UNCHANGED txVars
    BY <2>4 DEF txVars, TxInv, SendsAsked, WordAt, EndsAt, Short
  <2>5. QED BY <2>1, <2>2, <2>3, <2>4 DEF TxNext
<1>2. TxInv => SendsAsked
  BY DEF TxInv
<1>3. QED BY <1>1, <1>2, InitTx, PTL DEF TxSpec
=============================================================================
