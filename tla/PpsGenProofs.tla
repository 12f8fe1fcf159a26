---------------------------- MODULE PpsGenProofs ----------------------------
(***************************************************************************)
(* For any clock rate and register width, the time read is a time shown,   *)
(* the loop that reads it turns at most twice, and a stamp made in time is *)
(* right.                                                                  *)
(***************************************************************************)
EXTENDS PpsGen, TLAPS

(* Stepping a second forth and back, halves and carry included.            *)
LEMMA SuccPred ==
  ASSUME NEW s \in Second
  PROVE  Pred(Succ(s)) = s /\ Succ(s) # s
  BY ClockAssumption DEF Second, Succ, Pred, S

(* The clock stays in range when a second begins.                          *)
LEMMA SuccType ==
  ASSUME NEW s \in Second, s # S(MaxHi, LoMod - 1)
  PROVE  Succ(s) \in Second
<1>1. CASE s.lo = LoMod - 1
  BY <1>1, ClockAssumption DEF Second, Succ, S
<1>2. CASE s.lo # LoMod - 1
  BY <1>2, ClockAssumption DEF Second, Succ, S
<1>. QED
  BY <1>1, <1>2

(* The zero second is one.                                                 *)
LEMMA ZeroType == Zero \in Second
  BY ClockAssumption DEF Zero, Second, S

(* The invariant holds after pps_gen_init.                                 *)
LEMMA InitInv == Init => IInv
<1>. SUFFICES ASSUME Init PROVE IInv
  OBVIOUS
<1>. USE ClockAssumption DEF Init
<1>1. TypeOK
  BY DEF TypeOK, Second, Zero, S, NoFrame, Reading, Both
<1>2. SnapshotTrue /\ TurnAgrees /\ StampRight
  BY DEF SnapshotTrue, TurnAgrees, StampRight
<1>3. StampAgrees
  BY DEF StampAgrees, FrameAgrees, NoFrame
<1>4. SecondTurn
  BY DEF SecondTurn, Reading
<1>. QED
  BY <1>1, <1>2, <1>3, <1>4 DEF IInv

(* The clock runs under the reader.                                        *)
LEMMA TickInv == IInv /\ Tick => IInv'
<1>. SUFFICES ASSUME IInv, Tick PROVE IInv'
  OBVIOUS
<1>t. TypeOK
  BY DEF IInv
<1>. USE ClockAssumption
<1>n. now \in Second /\ cyc \in 0 .. N - 1 /\ spent \in 0 .. MaxSpent /\ late \in 0 .. N
      /\ N \in Nat \ {0} /\ MaxSpent \in Nat
  BY <1>t DEF TypeOK
<1>u. /\ pc' = pc /\ call' = call /\ todo' = todo /\ sec1' = sec1 /\ sec2' = sec2
      /\ ns_cnt' = ns_cnt /\ at' = at /\ tries' = tries /\ stamp' = stamp /\ frame' = frame
  BY DEF Tick
<1>1. TypeOK'
  <2>1. now' \in Second /\ cyc' \in 0 .. N - 1
    BY <1>n, SuccType DEF Tick
  <2>2. spent' \in 0 .. MaxSpent /\ late' \in 0 .. N /\ asked' \in -1 .. N * Period - 1
    <3>1. spent' \in 0 .. MaxSpent
      BY <1>n DEF Tick
    <3>2. late' \in 0 .. N
      BY <1>n DEF Tick
    <3>3. N * Period \in Nat /\ asked' = -1
      BY DEF Tick
    <3>. QED
      BY <3>1, <3>2, <3>3
  <2>. QED
    BY <2>1, <2>2, <1>t, <1>u DEF TypeOK
<1>2. SnapshotTrue' /\ StampRight'
  BY <1>u DEF IInv, SnapshotTrue, StampRight
<1>3. ASSUME pc \in Reading
      PROVE  /\ Began' = Began
             /\ now' = now \/ (Began = now /\ now' # now)
  <2>1. CASE cyc = N - 1
    <3>1. now' = Succ(now) /\ cyc' = 0 /\ spent' = spent + 1 /\ spent < MaxSpent
      BY <1>3, <2>1 DEF Tick
    <3>2. ~(cyc < spent) /\ cyc' < spent'
      BY <3>1, <2>1, <1>n
    <3>. QED
      BY <3>1, <3>2, <1>n, SuccPred DEF Began
  <2>2. CASE cyc # N - 1
    <3>1. now' = now /\ cyc' = cyc + 1 /\ spent' = spent + 1
      BY <1>3, <2>2 DEF Tick
    <3>. QED
      BY <3>1, <1>n DEF Began
  <2>. QED
    BY <2>1, <2>2
<1>4. TurnAgrees'
  <2>1. CASE pc \in Reading
    <3>1. (pc = "sec1" => \A half \in Both \ todo : sec1[half] = Began[half] \/ Began # now)'
      BY <2>1, <1>3, <1>u DEF IInv, TurnAgrees
    <3>2. (pc = "nsec" => todo = Both /\ (sec1 = Began \/ Began # now))'
      BY <2>1, <1>3, <1>u DEF IInv, TurnAgrees
    <3>3. ASSUME pc \in {"sec2", "check"}
          PROVE  /\ at.sec \in {Began, now'}
                 /\ at.sec = Began => sec1 = Began
                 /\ at.sec = now' => \A half \in Both \ todo : sec2[half] = now'[half]
      BY <2>1, <3>3, <1>3 DEF IInv, TurnAgrees
    <3>. QED
      BY <3>1, <3>2, <3>3, <2>1, <1>3, <1>u DEF IInv, TurnAgrees
  <2>2. CASE pc \notin Reading
    BY <2>2, <1>u DEF TurnAgrees, Reading
  <2>. QED
    BY <2>1, <2>2
<1>5. StampAgrees'
  <2>1. FrameAgrees(now, cyc, late)'
    <3>. SUFFICES ASSUME frame.fresh, 4 * late' < N
                  PROVE  \/ now' = frame.sec /\ cyc' = frame.raw + late'
                         \/ now' = Succ(frame.sec) /\ cyc' = frame.raw + late' - N
      BY <1>u DEF FrameAgrees
    <3>1. late' = late + 1 /\ 4 * late < N
      BY <1>n DEF Tick
    <3>2. frame.raw \in 0 .. N - 1
      BY <1>t DEF TypeOK
    <3>3. CASE now = frame.sec /\ cyc = frame.raw + late
      BY <3>3, <3>1, <3>2, <1>n DEF Tick
    <3>4. CASE now = Succ(frame.sec) /\ cyc = frame.raw + late - N
      BY <3>4, <3>1, <3>2, <1>n DEF Tick
    <3>. QED
      BY <3>1, <3>3, <3>4 DEF IInv, StampAgrees, FrameAgrees
  <2>. QED
    BY <2>1, <1>u DEF IInv, StampAgrees, FrameAgrees
<1>6. SecondTurn'
  <2>1. tries' <= 2
    BY <1>u DEF IInv, SecondTurn
  <2>2. ASSUME pc \in Reading, tries = 2
        PROVE  spent' <= cyc' /\ cyc' < spent' + MaxSpent
    <3>1. spent <= cyc /\ cyc < spent + MaxSpent /\ spent < MaxSpent /\ spent' = spent + 1
      BY <2>2 DEF IInv, SecondTurn, Tick
    <3>2. cyc' = cyc + 1
      BY <3>1, <1>n DEF Tick
    <3>. QED
      BY <3>1, <3>2, <1>n
  <2>. QED
    BY <2>1, <2>2, <1>u DEF SecondTurn
<1>. QED
  BY <1>1, <1>2, <1>4, <1>5, <1>6 DEF IInv

(* A frame passes: it is as old as it should be, and no call has it yet.   *)
LEMMA FrameInv == IInv /\ FramePasses => IInv'
<1>. SUFFICES ASSUME IInv, FramePasses PROVE IInv'
  OBVIOUS
<1>. USE ClockAssumption DEF FramePasses, clockVars, localVars
<1>n. now \in Second /\ cyc \in 0 .. N - 1
  BY DEF IInv, TypeOK
<1>c. call # "stamp" /\ pc # "stamped"
  BY DEF IInv, StampAgrees
<1>1. TypeOK'
  BY DEF IInv, TypeOK
<1>2. SnapshotTrue' /\ TurnAgrees' /\ SecondTurn'
  BY DEF IInv, SnapshotTrue, TurnAgrees, SecondTurn, Began
<1>3. StampAgrees'
  <2>1. FrameAgrees(now, cyc, late)'
    BY <1>n DEF FrameAgrees
  <2>. QED
    BY <2>1, <1>c DEF StampAgrees
<1>4. StampRight'
  BY <1>c DEF StampRight
<1>. QED
  BY <1>1, <1>2, <1>3, <1>4 DEF IInv

(* A call begins its first turn in the current second.                     *)
LEMMA GetTimeInv == IInv /\ GetTime => IInv'
<1>. SUFFICES ASSUME IInv, GetTime PROVE IInv'
  OBVIOUS
<1>. USE ClockAssumption DEF GetTime, clockVars
<1>n. cyc \in 0 .. N - 1 /\ MaxSpent \in Nat
  BY DEF IInv, TypeOK
<1>1. TypeOK'
  BY <1>n DEF IInv, TypeOK, Reading, Both
<1>2. TurnAgrees' /\ SnapshotTrue' /\ StampRight'
  BY DEF TurnAgrees, SnapshotTrue, StampRight
<1>3. StampAgrees'
  BY DEF IInv, StampAgrees, FrameAgrees
<1>4. SecondTurn'
  BY DEF SecondTurn
<1>. QED
  BY <1>1, <1>2, <1>3, <1>4 DEF IInv

(* What one half-word read changes.                                        *)
LEMMA ReadOfType ==
  ASSUME NEW s \in Second, NEW half \in Both, now \in Second
  PROVE  /\ ReadOf(s, half) \in Second
         /\ ReadOf(s, half)[half] = now[half]
         /\ \A other \in Both : other # half => ReadOf(s, half)[other] = s[other]
  BY DEF ReadOf, Second, Both

(* Two seconds with the same halves are the same.                          *)
LEMMA SameHalves ==
  ASSUME NEW s \in Second, NEW u \in [hi : Int, lo : Int],
         \A half \in Both : s[half] = u[half]
  PROVE  s = u
  BY DEF Second, Both

(* The first evaluation of the seconds.                                    *)
LEMMA ReadSec1Inv == IInv /\ ReadSec1 => IInv'
<1>. SUFFICES ASSUME IInv, ReadSec1 PROVE IInv'
  OBVIOUS
<1>. USE ClockAssumption
<1>n. /\ pc = "sec1" /\ now \in Second /\ cyc \in 0 .. N - 1 /\ sec1 \in Second
      /\ todo \in SUBSET Both
  BY DEF IInv, TypeOK, ReadSec1
<1>1. PICK half \in todo :
        /\ sec1' = ReadOf(sec1, half)
        /\ todo' = IF todo = {half} THEN Both ELSE todo \ {half}
        /\ pc' = IF todo = {half} THEN "nsec" ELSE pc
  BY DEF ReadSec1
<1>u. UNCHANGED << clockVars, frame, late, call, sec2, ns_cnt, spent, at, tries, stamp, asked >>
  BY DEF ReadSec1
<1>h. half \in Both
  BY <1>n, <1>1
<1>2. TypeOK'
  <2>1. sec1' \in Second
    BY <1>1, <1>n, <1>h, ReadOfType
  <2>2. todo' \in SUBSET Both /\ pc' \in {"sec1", "nsec"}
    BY <1>1, <1>n
  <2>. QED
    BY <2>1, <2>2, <1>u DEF IInv, TypeOK, clockVars, Reading
<1>3. Began' = Began /\ now' = now
  BY <1>u DEF Began, clockVars
<1>b. Began = now \/ Began # now
  OBVIOUS
<1>4. TurnAgrees'
  <2>1. ASSUME Began = now
        PROVE  \A other \in Both \ (todo \ {half}) : sec1'[other] = Began[other]
    <3>. TAKE other \in Both \ (todo \ {half})
    <3>1. CASE other = half
      BY <3>1, <2>1, <1>1, <1>n, <1>h, ReadOfType
    <3>2. CASE other # half
      <4>1. sec1'[other] = sec1[other]
        BY <3>2, <1>1, <1>n, <1>h, ReadOfType
      <4>2. sec1[other] = Began[other]
        BY <3>2, <2>1, <1>n DEF IInv, TurnAgrees
      <4>. QED
        BY <4>1, <4>2
    <3>. QED
      BY <3>1, <3>2
  <2>2. CASE todo = {half}
    <3>1. Began = now => sec1' = Began
      <4>1. sec1' \in Second
        BY <1>2 DEF TypeOK
      <4>. QED
        BY <4>1, <2>1, <2>2, <1>n, SameHalves DEF Second, Both
    <3>. QED
      BY <3>1, <2>2, <1>1, <1>3 DEF TurnAgrees
  <2>3. CASE todo # {half}
    BY <2>1, <2>3, <1>1, <1>n, <1>3 DEF TurnAgrees
  <2>. QED
    BY <2>2, <2>3
<1>5. SnapshotTrue' /\ StampRight'
  BY <1>1, <1>n DEF SnapshotTrue, StampRight
<1>6. StampAgrees'
  BY <1>1, <1>n, <1>u DEF IInv, StampAgrees, FrameAgrees, clockVars
<1>7. SecondTurn'
  BY <1>1, <1>n, <1>u DEF IInv, SecondTurn, clockVars, Reading
<1>. QED
  BY <1>2, <1>4, <1>5, <1>6, <1>7 DEF IInv

(* The cycles are read, and with them the moment the call stands for.      *)
LEMMA ReadNsecInv == IInv /\ ReadNsec => IInv'
<1>. SUFFICES ASSUME IInv, ReadNsec PROVE IInv'
  OBVIOUS
<1>. USE ClockAssumption DEF ReadNsec, clockVars
<1>1. TypeOK'
  BY DEF IInv, TypeOK, Reading
<1>2. SnapshotTrue' /\ StampRight'
  BY DEF SnapshotTrue, StampRight
<1>3. TurnAgrees'
  <2>1. Began' = Began /\ (sec1 = Began \/ Began # now)
    BY DEF Began, IInv, TurnAgrees
  <2>2. todo = Both
    BY DEF IInv, TurnAgrees
  <2>. QED
    BY <2>1, <2>2 DEF TurnAgrees
<1>4. StampAgrees'
  BY DEF IInv, StampAgrees, FrameAgrees
<1>5. SecondTurn'
  BY DEF IInv, SecondTurn, Reading
<1>. QED
  BY <1>1, <1>2, <1>3, <1>4, <1>5 DEF IInv

(* The second evaluation of the seconds.                                   *)
LEMMA ReadSec2Inv == IInv /\ ReadSec2 => IInv'
<1>. SUFFICES ASSUME IInv, ReadSec2 PROVE IInv'
  OBVIOUS
<1>. USE ClockAssumption
<1>n. /\ pc = "sec2" /\ now \in Second /\ cyc \in 0 .. N - 1 /\ sec2 \in Second
      /\ todo \in SUBSET Both
  BY DEF IInv, TypeOK, ReadSec2
<1>1. PICK half \in todo :
        /\ sec2' = ReadOf(sec2, half)
        /\ todo' = todo \ {half}
        /\ pc' = IF todo = {half} THEN "check" ELSE pc
  BY DEF ReadSec2
<1>u. UNCHANGED << clockVars, frame, late, call, sec1, ns_cnt, spent, at, tries, stamp, asked >>
  BY DEF ReadSec2
<1>h. half \in Both
  BY <1>n, <1>1
<1>2. TypeOK'
  <2>1. sec2' \in Second
    BY <1>1, <1>n, <1>h, ReadOfType
  <2>2. todo' \in SUBSET Both /\ pc' \in {"sec2", "check"}
    BY <1>1, <1>n
  <2>. QED
    BY <2>1, <2>2, <1>u DEF IInv, TypeOK, clockVars, Reading
<1>3. Began' = Began /\ now' = now /\ at' = at /\ sec1' = sec1
  BY <1>u DEF Began, clockVars
<1>4. TurnAgrees'
  <2>1. ASSUME at.sec = now
        PROVE  \A other \in Both \ (todo \ {half}) : sec2'[other] = now[other]
    <3>. TAKE other \in Both \ (todo \ {half})
    <3>1. CASE other = half
      BY <3>1, <1>1, <1>n, <1>h, ReadOfType
    <3>2. CASE other # half
      <4>1. sec2'[other] = sec2[other]
        BY <3>2, <1>1, <1>n, <1>h, ReadOfType
      <4>2. sec2[other] = now[other]
        BY <3>2, <2>1, <1>n DEF IInv, TurnAgrees
      <4>. QED
        BY <4>1, <4>2
    <3>. QED
      BY <3>1, <3>2
  <2>2. at.sec \in {Began, now} /\ (at.sec = Began => sec1 = Began)
    BY <1>n DEF IInv, TurnAgrees
  <2>3. pc' \in {"sec2", "check"} /\ (pc' = "check" => todo' = {})
    BY <1>1, <1>n
  <2>. QED
    BY <2>1, <2>2, <2>3, <1>1, <1>3 DEF TurnAgrees
<1>5. SnapshotTrue' /\ StampRight'
  BY <1>1, <1>n DEF SnapshotTrue, StampRight
<1>6. StampAgrees'
  BY <1>1, <1>n, <1>u DEF IInv, StampAgrees, FrameAgrees, clockVars
<1>7. SecondTurn'
  BY <1>1, <1>n, <1>u DEF IInv, SecondTurn, clockVars, Reading
<1>. QED
  BY <1>2, <1>4, <1>5, <1>6, <1>7 DEF IInv

(* The comparison: equal seconds are the true ones, and different ones     *)
(* tell that a second has just begun.                                      *)
LEMMA CheckInv == IInv /\ Check => IInv'
<1>. SUFFICES ASSUME IInv, Check PROVE IInv'
  OBVIOUS
<1>. USE ClockAssumption
<1>n. /\ pc = "check" /\ now \in Second /\ cyc \in 0 .. N - 1 /\ sec2 \in Second
      /\ sec1 \in Second /\ at.sec \in Second /\ spent \in 0 .. MaxSpent
      /\ tries \in 0 .. 3 /\ MaxSpent \in Nat
  BY DEF IInv, TypeOK, Check
<1>u. UNCHANGED << clockVars, frame, late, call, sec1, sec2, ns_cnt, at, stamp, asked >>
  BY DEF Check
<1>1. /\ at.sec \in {Began, now}
      /\ at.sec = Began => sec1 = Began
      /\ at.sec = now => sec2 = now
  <2>1. at.sec \in {Began, now} /\ (at.sec = Began => sec1 = Began)
    BY <1>n DEF IInv, TurnAgrees
  <2>2. at.sec = now => \A half \in Both : sec2[half] = now[half]
    BY <1>n DEF IInv, TurnAgrees
  <2>. QED
    BY <2>1, <2>2, <1>n, SameHalves DEF Second
<1>2. CASE Retry
  <2>1. pc' = "sec1" /\ todo' = Both /\ spent' = 0 /\ tries' = Turn
    BY <1>2, <1>n DEF Check
  <2>2. Began # now
    BY <1>1, <1>2 DEF Retry
  <2>3. cyc < spent
    BY <2>2 DEF Began
  <2>4. tries <= 1
    BY <2>3, <1>n DEF IInv, SecondTurn, Reading
  <2>5. tries' \in 0 .. 2
    BY <2>1, <2>4, <1>n DEF Turn
  <2>6. TypeOK'
    BY <2>1, <2>5, <1>n, <1>u DEF IInv, TypeOK, clockVars, Reading, Both
  <2>7. SnapshotTrue' /\ StampRight' /\ TurnAgrees'
    BY <2>1 DEF SnapshotTrue, StampRight, TurnAgrees
  <2>8. StampAgrees'
    BY <2>1, <1>u DEF IInv, StampAgrees, FrameAgrees, clockVars
  <2>9. SecondTurn'
    BY <2>1, <2>3, <2>5, <1>n, <1>u DEF SecondTurn, clockVars
  <2>. QED
    BY <2>6, <2>7, <2>8, <2>9 DEF IInv
<1>3. CASE ~Retry
  <2>1. pc' = "read" /\ UNCHANGED << todo, spent, tries >>
    BY <1>3, <1>n DEF Check
  <2>2. sec2 = at.sec
    BY <1>1, <1>3 DEF Retry
  <2>3. TypeOK'
    BY <2>1, <1>u DEF IInv, TypeOK, clockVars
  <2>4. SnapshotTrue' /\ StampRight' /\ TurnAgrees'
    BY <2>1, <2>2, <1>u DEF SnapshotTrue, StampRight, TurnAgrees
  <2>5. StampAgrees'
    BY <2>1, <1>n, <1>u DEF IInv, StampAgrees, FrameAgrees, clockVars
  <2>6. SecondTurn'
    BY <2>1, <1>u DEF IInv, SecondTurn, Reading, clockVars
  <2>. QED
    BY <2>3, <2>4, <2>5, <2>6 DEF IInv
<1>. QED
  BY <1>2, <1>3

(* The correction of the second, in the two cases the clock can be in.     *)
LEMMA StampInv == IInv /\ Stamp => IInv'
<1>. SUFFICES ASSUME IInv, Stamp PROVE IInv'
  OBVIOUS
<1>. USE ClockAssumption DEF Stamp, clockVars, localVars
<1>1. TypeOK'
  BY DEF IInv, TypeOK
<1>2. SnapshotTrue' /\ TurnAgrees' /\ SecondTurn'
  BY DEF IInv, SnapshotTrue, TurnAgrees, SecondTurn, Reading
<1>3. StampAgrees'
  BY DEF IInv, StampAgrees, FrameAgrees
<1>4. StampRight'
  <2>. SUFFICES ASSUME frame.fresh, 4 * at.late < N
                PROVE  StampSec = frame.sec
    BY DEF StampRight
  <2>1. /\ frame.raw \in 0 .. N - 1 /\ frame.sec \in Second /\ ns_cnt \in 0 .. N - 1
        /\ at.late \in 0 .. N /\ N \in Nat
    BY DEF IInv, TypeOK
  <2>2. sec2 = at.sec
    BY DEF IInv, SnapshotTrue
  <2>3. \/ at.sec = frame.sec /\ ns_cnt = frame.raw + at.late
        \/ at.sec = Succ(frame.sec) /\ ns_cnt = frame.raw + at.late - N
    BY DEF IInv, StampAgrees, FrameAgrees
  <2>4. CASE at.sec = frame.sec /\ ns_cnt = frame.raw + at.late
    <3>1. ~(4 * frame.raw > 3 * N /\ 4 * ns_cnt < N)
      BY <2>4, <2>1
    <3>. QED
      BY <3>1, <2>4, <2>2 DEF StampSec
  <2>5. CASE at.sec = Succ(frame.sec) /\ ns_cnt = frame.raw + at.late - N
    <3>1. 4 * frame.raw > 3 * N /\ 4 * ns_cnt < N
      BY <2>5, <2>1
    <3>2. Pred(Succ(frame.sec)) = frame.sec
      BY <2>1, SuccPred
    <3>. QED
      BY <3>1, <3>2, <2>5, <2>2 DEF StampSec
  <2>. QED
    BY <2>3, <2>4, <2>5
<1>. QED
  BY <1>1, <1>2, <1>3, <1>4 DEF IInv

(* The call returns.                                                       *)
LEMMA ReturnInv == IInv /\ Return => IInv'
<1>. SUFFICES ASSUME IInv, Return PROVE IInv'
  OBVIOUS
<1>. USE ClockAssumption DEF Return, clockVars
<1>1. TypeOK'
  <2>1. frame' \in [pending : BOOLEAN, raw : 0 .. N - 1, sec : Second, fresh : BOOLEAN]
    <3>1. NoFrame \in [pending : BOOLEAN, raw : 0 .. N - 1, sec : Second, fresh : BOOLEAN]
      BY ZeroType DEF NoFrame
    <3>. QED
      BY <3>1 DEF IInv, TypeOK
  <2>2. late' \in 0 .. N
    BY DEF IInv, TypeOK
  <2>3. Zero \in Second /\ 0 \in 0 .. N - 1 /\ 0 \in 0 .. MaxSpent /\ 0 \in 0 .. N
    BY DEF Zero, Second, S
  <2>. QED
    BY <2>1, <2>2, <2>3 DEF IInv, TypeOK
<1>2. SnapshotTrue' /\ TurnAgrees' /\ SecondTurn' /\ StampRight'
  BY DEF SnapshotTrue, TurnAgrees, SecondTurn, StampRight, Reading
<1>3. StampAgrees'
  BY DEF IInv, StampAgrees, FrameAgrees, NoFrame
<1>. QED
  BY <1>1, <1>2, <1>3 DEF IInv

(* Setting the time leaves no frame a stamp could be right for.            *)
LEMMA SetTimeInv == IInv /\ SetTime => IInv'
<1>. SUFFICES ASSUME IInv, SetTime PROVE IInv'
  OBVIOUS
<1>. USE ClockAssumption
<1>1. PICK s \in Second, n \in 0 .. N * Period - 1 :
        now' = s /\ cyc' = ToCycles(n \div Period) /\ asked' = n
  BY DEF SetTime
<1>u. /\ frame' = [frame EXCEPT !.fresh = FALSE, !.sec = Zero] /\ late' = 0 /\ pc = "idle"
      /\ UNCHANGED << pc, call, localVars, stamp >>
  BY DEF SetTime
<1>2. cyc' \in 0 .. N - 1
  <2>1. n \div Period \in 0 .. N - 1
    BY <1>1
  <2>2. (n \div Period) \div Period \in 0 .. (n \div Period)
    BY <2>1
  <2>. QED
    BY <2>1, <2>2, <1>1 DEF ToCycles
<1>3. TypeOK'
  <2>1. frame' \in [pending : BOOLEAN, raw : 0 .. N - 1, sec : Second, fresh : BOOLEAN]
    <3>1. frame \in [pending : BOOLEAN, raw : 0 .. N - 1, sec : Second, fresh : BOOLEAN]
      BY DEF IInv, TypeOK
    <3>. QED
      BY <3>1, <1>u, ZeroType
  <2>. QED
    BY <2>1, <1>1, <1>2, <1>u DEF IInv, TypeOK, localVars
<1>4. SnapshotTrue' /\ TurnAgrees' /\ SecondTurn' /\ StampRight'
  BY <1>u DEF IInv, SnapshotTrue, TurnAgrees, SecondTurn, StampRight, Reading, localVars
<1>5. StampAgrees'
  <2>1. frame'.fresh = FALSE /\ frame'.pending = frame.pending
    BY <1>u DEF IInv, TypeOK
  <2>. QED
    BY <2>1, <1>u DEF IInv, StampAgrees, FrameAgrees
<1>. QED
  BY <1>3, <1>4, <1>5 DEF IInv

(* Every step preserves the invariant.                                     *)
LEMMA NextInv == IInv /\ [Next]_vars => IInv'
<1>. SUFFICES ASSUME IInv, [Next]_vars PROVE IInv'
  OBVIOUS
<1>1. CASE UNCHANGED vars
  BY <1>1 DEF vars, clockVars, localVars, IInv, TypeOK, SnapshotTrue, TurnAgrees,
              StampAgrees, FrameAgrees, StampRight, SecondTurn, Began
<1>2. CASE Next
  BY <1>2, TickInv, FrameInv, GetTimeInv, ReadSec1Inv, ReadNsecInv, ReadSec2Inv,
     CheckInv, StampInv, ReturnInv, SetTimeInv DEF Next, Firmware
<1>. QED
  BY <1>1, <1>2

(* The inductive invariant.                                                *)
THEOREM TimeInvariant == Spec => []IInv
<1>. QED
  BY InitInv, NextInv, PTL DEF Spec

(* pps_gen_get_time never returns a time the clock did not show.           *)
THEOREM TimeRead == Spec => []SnapshotTrue
<1>1. IInv => SnapshotTrue
  BY DEF IInv
<1>. QED
  BY <1>1, TimeInvariant, PTL

(* A stamp made less than a quarter of a second after the frame passed is  *)
(* of the second in which it passed.                                       *)
THEOREM StampOfItsSecond == Spec => []StampRight
<1>1. IInv => StampRight
  BY DEF IInv
<1>. QED
  BY <1>1, TimeInvariant, PTL

(* The loop of pps_gen_get_time never begins a third turn.                 *)
THEOREM NoThirdTurn == Spec => []TwoTurns
<1>1. IInv => TwoTurns
  BY DEF IInv, SecondTurn, TwoTurns
<1>. QED
  BY <1>1, TimeInvariant, PTL
=============================================================================
