------------------------------- MODULE PpsGen -------------------------------
(***************************************************************************)
(* The PPS generator's clock (dev/pps_gen.c) and the time stamps the miNIC *)
(* driver makes with it (dev/minic.c, both directions).  The clock counts  *)
(* seconds in two registers and clock cycles in a third, and keeps running *)
(* while the firmware reads them one by one.  The stamp of a frame is the  *)
(* cycle counter captured when the frame passed; the second it belongs to  *)
(* is worked out later, from a reading of the clock.                       *)
(***************************************************************************)
EXTENDS Integers

CONSTANTS
  N,         (* cycles per second: REF_CLOCK_FREQ_HZ                        *)
  Period,    (* nanoseconds per cycle: REF_CLOCK_PERIOD_PS / 1000           *)
  LoMod,     (* values of CNTR_UTCLO: 2^32                                  *)
  MaxHi,     (* bound: the largest value CNTR_UTCHI is driven to            *)
  MaxSpent   (* cycles that one turn of the reading loop may take           *)

ASSUME ClockAssumption ==
  /\ N \in Nat \ {0} /\ Period \in Nat \ {0} /\ LoMod \in Nat \ {0}
  /\ MaxHi \in Nat
  /\ MaxSpent \in Nat /\ 2 * MaxSpent < N

VARIABLES
  now,     (* CNTR_UTCHI and CNTR_UTCLO                                     *)
  cyc,     (* CNTR_NSEC, a count of cycles despite its name                 *)
  frame,   (* the frame to stamp, its raw cycle count, its true second      *)
  late,    (* cycles since the frame passed, counted up to N / 4            *)
  pc,      (* where the firmware is                                         *)
  call,    (* what it reads the time for: to "stamp", or just the "time"    *)
  todo,    (* register reads left in this evaluation of sec1 or sec2        *)
  sec1, sec2, ns_cnt,      (* locals of pps_gen_get_time                    *)
  spent,   (* cycles since this turn of its loop began                      *)
  at,      (* the clock when CNTR_NSEC was read, and how late that was      *)
  tries,   (* turns of the loop so far, counted up to three                 *)
  stamp,   (* hwts->sec                                                     *)
  asked    (* the nanoseconds of the latest "time set", -1 since it ran on  *)

clockVars == << now, cyc >>
localVars == << todo, sec1, sec2, ns_cnt, spent, at, tries >>
vars == << clockVars, frame, late, pc, call, localVars, stamp, asked >>

Second == [hi : 0 .. MaxHi, lo : 0 .. LoMod - 1]
S(h, l) == [hi |-> h, lo |-> l]
Zero == S(0, 0)

(* Sixty-four bit arithmetic on the two halves.                            *)
Succ(s) == IF s.lo = LoMod - 1 THEN S(s.hi + 1, 0) ELSE S(s.hi, s.lo + 1)
Pred(s) == IF s.lo = 0 THEN S(s.hi - 1, LoMod - 1) ELSE S(s.hi, s.lo - 1)

NoFrame == [pending |-> FALSE, raw |-> 0, sec |-> Zero, fresh |-> FALSE]

(* After pps_gen_init.                                                     *)
Init ==
  /\ now = Zero /\ cyc = 0
  /\ frame = NoFrame /\ late = 0
  /\ pc = "idle" /\ call = "time" /\ todo = {}
  /\ sec1 = Zero /\ sec2 = Zero /\ ns_cnt = 0 /\ spent = 0 /\ tries = 0
  /\ at = [sec |-> Zero, late |-> 0]
  /\ stamp = Zero /\ asked = -1

Reading == {"sec1", "nsec", "sec2", "check"}

-----------------------------------------------------------------------------
(* The clock (external), and a frame passing the endpoint.                 *)

Tick ==
  /\ pc \in Reading => spent < MaxSpent
  /\ cyc = N - 1 => now # S(MaxHi, LoMod - 1)
  /\ cyc' = IF cyc = N - 1 THEN 0 ELSE cyc + 1
  /\ now' = IF cyc = N - 1 THEN Succ(now) ELSE now
  /\ spent' = IF pc \in Reading THEN spent + 1 ELSE spent
  /\ late' = IF frame.fresh /\ 4 * late < N THEN late + 1 ELSE late
  /\ asked' = -1
  /\ UNCHANGED << frame, pc, call, todo, sec1, sec2, ns_cnt, at, tries, stamp >>

FramePasses ==
  /\ ~frame.pending
  /\ frame' = [pending |-> TRUE, raw |-> cyc, sec |-> now, fresh |-> TRUE]
  /\ late' = 0
  /\ UNCHANGED << clockVars, pc, call, localVars, stamp, asked >>

-----------------------------------------------------------------------------
(* pps_gen_get_time, called by the driver for a frame that has passed, and *)
(* for nothing but the time by the shell and the monitor.                  *)

Both == {"lo", "hi"}

GetTime ==
  /\ pc = "idle"
  /\ pc' = "sec1" /\ todo' = Both
  /\ call' \in (IF frame.pending THEN {"stamp", "time"} ELSE {"time"})
  /\ spent' = 0 /\ tries' = 1
  /\ UNCHANGED << clockVars, frame, late, sec1, sec2, ns_cnt, at, stamp, asked >>

ReadOf(s, half) == [s EXCEPT ![half] = now[half]]

(* The two halves are read in the order the compiler chose: C leaves the   *)
(* order of the operands of "|" open.                                      *)
ReadSec1 ==
  /\ pc = "sec1"
  /\ \E half \in todo :
       /\ sec1' = ReadOf(sec1, half)
       /\ todo' = IF todo = {half} THEN Both ELSE todo \ {half}
       /\ pc' = IF todo = {half} THEN "nsec" ELSE pc
  /\ UNCHANGED << clockVars, frame, late, call, sec2, ns_cnt, spent, at, tries, stamp, asked >>

ReadNsec ==
  /\ pc = "nsec"
  /\ ns_cnt' = cyc
  /\ at' = [sec |-> now, late |-> late]
  /\ pc' = "sec2"
  /\ UNCHANGED << clockVars, frame, late, call, todo, sec1, sec2, spent, tries, stamp, asked >>

ReadSec2 ==
  /\ pc = "sec2"
  /\ \E half \in todo :
       /\ sec2' = ReadOf(sec2, half)
       /\ todo' = todo \ {half}
       /\ pc' = IF todo = {half} THEN "check" ELSE pc
  /\ UNCHANGED << clockVars, frame, late, call, sec1, ns_cnt, spent, at, tries, stamp, asked >>

(* As in module Minic, <Operator>_<Fault> names a seeded fault.            *)
Retry_HighHalf == sec1.hi # sec2.hi

Retry == sec1 # sec2

Turn == IF tries < 3 THEN tries + 1 ELSE 3

Check_Sec1Once ==
  /\ pc = "check"
  /\ IF Retry
       THEN pc' = "nsec" /\ todo' = Both /\ spent' = 0 /\ tries' = Turn
       ELSE pc' = "read" /\ UNCHANGED << todo, spent, tries >>
  /\ UNCHANGED << clockVars, frame, late, call, sec1, sec2, ns_cnt, at, stamp, asked >>

Check ==
  /\ pc = "check"
  /\ IF Retry
       THEN pc' = "sec1" /\ todo' = Both /\ spent' = 0 /\ tries' = Turn
       ELSE pc' = "read" /\ UNCHANGED << todo, spent, tries >>
  /\ UNCHANGED << clockVars, frame, late, call, sec1, sec2, ns_cnt, at, stamp, asked >>

(* The second of the stamp.  The driver compares the captured count with   *)
(* three quarters of a second and the time read, in nanoseconds, with a    *)
(* quarter of a second: if the frame passed near the end of a second and   *)
(* the clock was read near the start of one, it was the one before.        *)
StampSec_TooWide ==
  IF 4 * frame.raw > N /\ 4 * ns_cnt < 3 * N THEN Pred(sec2) ELSE sec2

StampSec ==
  IF 4 * frame.raw > 3 * N /\ 4 * ns_cnt < N THEN Pred(sec2) ELSE sec2

Stamp ==
  /\ pc = "read" /\ call = "stamp"
  /\ stamp' = StampSec
  /\ pc' = "stamped"
  /\ UNCHANGED << clockVars, frame, late, call, localVars, asked >>

(* The stamped frame goes to the caller; a call that only wanted the time  *)
(* returns.  The locals are gone.                                          *)
Return ==
  /\ \/ pc = "stamped" /\ frame' = NoFrame /\ late' = 0
     \/ pc = "read" /\ call = "time" /\ UNCHANGED << frame, late >>
  /\ pc' = "idle" /\ call' = "time" /\ stamp' = Zero
  /\ todo' = {} /\ sec1' = Zero /\ sec2' = Zero /\ ns_cnt' = 0
  /\ spent' = 0 /\ tries' = 0 /\ at' = [sec |-> Zero, late |-> 0]
  /\ UNCHANGED << clockVars, asked >>

-----------------------------------------------------------------------------
(* "time set s n": cmd_time divides the nanoseconds by eight, and          *)
(* pps_gen_set_time turns what it is given from nanoseconds into cycles.   *)
(* The command is refused in slave mode; here it may or may not come.      *)

ToCycles(ns) == ns \div Period

SetTime ==
  /\ pc = "idle"
  /\ \E s \in Second, n \in 0 .. N * Period - 1 :
       /\ now' = s
       /\ cyc' = ToCycles(n \div Period)
       /\ asked' = n
  /\ frame' = [frame EXCEPT !.fresh = FALSE, !.sec = Zero] /\ late' = 0
  /\ UNCHANGED << pc, call, localVars, stamp >>

Firmware ==
  GetTime \/ ReadSec1 \/ ReadNsec \/ ReadSec2 \/ Check \/ Stamp \/ Return \/ SetTime

Next == Tick \/ FramePasses \/ Firmware

Spec == Init /\ [][Next]_vars

-----------------------------------------------------------------------------
(* Every variable has its type.                                            *)
TypeOK ==
  /\ now \in Second /\ cyc \in 0 .. N - 1
  /\ frame \in [pending : BOOLEAN, raw : 0 .. N - 1, sec : Second, fresh : BOOLEAN]
  /\ late \in 0 .. N
  /\ pc \in Reading \cup {"idle", "read", "stamped"} /\ call \in {"stamp", "time"}
  /\ todo \in SUBSET Both
  /\ sec1 \in Second /\ sec2 \in Second /\ ns_cnt \in 0 .. N - 1
  /\ spent \in 0 .. MaxSpent /\ tries \in 0 .. 3
  /\ at \in [sec : Second, late : 0 .. N]
  /\ asked \in -1 .. N * Period - 1

(* pps_gen_get_time returns a time the clock really showed: the seconds it *)
(* returns, put together from two registers read twice in any order while  *)
(* the clock runs, are those of the moment it read the cycles.             *)
SnapshotTrue == pc \in {"read", "stamped"} => sec2 = at.sec

(* A frame stamped less than a quarter of a second after it passed gets    *)
(* the second in which it passed, however the reading falls across the     *)
(* turn of the second, unless the time was set in between.                 *)
StampRight ==
  pc = "stamped" /\ frame.fresh /\ 4 * at.late < N => stamp = frame.sec

(* If a turn of the reading loop takes less than half a second, the loop   *)
(* ends at its second turn: a carry cannot spoil two turns in a row.       *)
TwoTurns == tries <= 2

(* "time set" sets the time it was given (cmd_time.c, 3).                  *)
TimeSetAsAsked == asked >= 0 => cyc = ToCycles(asked)

-----------------------------------------------------------------------------
(* What the proofs add.                                                    *)

(* The second in which this turn of the loop began.                        *)
Began == IF cyc < spent THEN Pred(now) ELSE now

(* While the loop runs, at most one second begins, so everything read is   *)
(* of the second before or of the second after; and what was read before   *)
(* (after) the cycles is of the earlier (later) of the two if the cycles   *)
(* are.                                                                    *)
TurnAgrees ==
  /\ pc = "sec1" => \A half \in Both \ todo : sec1[half] = Began[half] \/ Began # now
  /\ pc = "nsec" => todo = Both /\ (sec1 = Began \/ Began # now)
  /\ pc \in {"sec2", "check"} =>
       /\ at.sec \in {Began, now}
       /\ at.sec = Began => sec1 = Began
       /\ at.sec = now => \A half \in Both \ todo : sec2[half] = now[half]
  /\ pc = "check" => todo = {}

(* The clock has run on by `late' cycles since the frame passed.           *)
FrameAgrees(s, c, l) ==
  frame.fresh /\ 4 * l < N =>
    \/ s = frame.sec /\ c = frame.raw + l
    \/ s = Succ(frame.sec) /\ c = frame.raw + l - N

(* A stamping call has its frame, and reads the time that many cycles      *)
(* after it passed.                                                        *)
StampAgrees ==
  /\ call = "stamp" => frame.pending
  /\ pc = "stamped" => call = "stamp"
  /\ FrameAgrees(now, cyc, late)
  /\ pc \in {"sec2", "check", "read", "stamped"} /\ call = "stamp" =>
       FrameAgrees(at.sec, ns_cnt, at.late)

(* The second turn of the loop begins just after a new second.             *)
SecondTurn ==
  /\ tries <= 2
  /\ pc \in Reading /\ tries = 2 => spent <= cyc /\ cyc < spent + MaxSpent

IInv ==
  TypeOK /\ SnapshotTrue /\ TurnAgrees /\ StampAgrees /\ StampRight /\ SecondTurn
=============================================================================
