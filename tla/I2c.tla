-------------------------------- MODULE I2c --------------------------------
(***************************************************************************)
(* The I2C bus (dev/i2c.c): each of its operations is the sequence of line *)
(* settings the processor makes, run against the memory chip at the other  *)
(* end, which goes by the edges of the two lines.  The chip is external.   *)
(***************************************************************************)
EXTENDS Integers, Sequences, Functions

CONSTANTS
  Width,      (* bits of a byte: 8                                          *)
  Device,     (* the address of the chip                                    *)
  AddrBytes   (* bytes of an address within it: 2, or 1 in an SFP           *)

ASSUME I2cAssumption ==
  Width \in Nat \ {0} /\ AddrBytes \in {1, 2} /\ Device \in 0 .. 2 ^ (Width - 1) - 1

Byte == 2 ^ Width
Blank == Byte - 1

Bit(v, i) == (v \div 2 ^ (Width - i)) % 2

(***************************************************************************)
(* The chip.  A line is high unless somebody pulls it down; only the chip  *)
(* may do so besides the processor, and only with SDA.                     *)
(***************************************************************************)
Released(memory) ==
  [scl |-> 1, sda |-> 1,       (* what the processor puts out               *)
   out |-> 1,                  (* ... and the chip, on SDA                  *)
   mode |-> "idle",            (* what the chip takes the byte for          *)
   n |-> 0, byte |-> 0,        (* bits so far, and their value              *)
   at |-> 0, pend |-> << >>,   (* the address, and data not yet stored      *)
   busy |-> FALSE,             (* it stores what it has got                 *)
   deaf |-> FALSE,             (* a disturbance keeps it from listening     *)
   mem |-> memory,
   got |-> << >>]              (* what the processor has read from SDA      *)

Wire(b) == IF b.sda = 1 /\ b.out = 1 THEN 1 ELSE 0

Started(b) == [b EXCEPT !.mode = "device", !.n = 0, !.byte = 0, !.out = 1, !.pend = << >>]

(* After whole bytes only, behind which the clock has risen once.          *)
Stopped(b) ==
  LET kept == b.mode = "data" /\ b.n = 1 /\ b.pend # << >> IN
  [b EXCEPT !.mode = "idle", !.out = 1, !.pend = << >>, !.busy = @ \/ kept,
            !.mem = IF ~kept THEN @
                    ELSE [a \in DOMAIN @ |-> IF a - b.at \in 0 .. Len(b.pend) - 1
                                             THEN b.pend[a - b.at + 1] ELSE @[a]]]

Receives(b) == b.mode \in {"device", "high", "low", "data"}

Advanced(b) == [b EXCEPT !.at = (@ + 1) % 2 ^ (AddrBytes * Width)]

(* A bit, or the acknowledgement of a byte the chip has sent.              *)
Rises(b) ==
  IF Receives(b) /\ b.out = 1 /\ b.n < Width THEN [b EXCEPT !.byte = 2 * @ + Wire(b), !.n = @ + 1]
  ELSE IF b.mode = "send" /\ b.n = Width + 1 /\ Wire(b) = 1 THEN [Advanced(b) EXCEPT !.mode = "idle"]
  ELSE b

Called(b) == b.byte \div 2 = Device /\ ~b.busy /\ ~b.deaf

Content(b) == IF b.at \in DOMAIN b.mem THEN b.mem[b.at] ELSE Blank

Sends(b) == [b EXCEPT !.mode = "send", !.n = 1, !.out = Bit(Content(b), 1)]

(* The byte that has been acknowledged.                                    *)
Takes(b) ==
  LET next == [b EXCEPT !.out = 1, !.n = 0, !.byte = 0] IN
  CASE b.mode = "device" -> IF b.byte % 2 = 1 THEN Sends(next)
                            ELSE [next EXCEPT !.at = 0, !.mode = IF AddrBytes = 2 THEN "high" ELSE "low"]
    [] b.mode = "high"   -> [next EXCEPT !.at = b.byte * Byte, !.mode = "low"]
    [] b.mode = "low"    -> [next EXCEPT !.at = @ + b.byte, !.mode = "data"]
    [] b.mode = "data"   -> [next EXCEPT !.pend = Append(@, b.byte)]

Falls(b) ==
  CASE Receives(b) /\ b.out = 0 -> Takes(b)
    [] Receives(b) /\ b.out = 1 /\ b.n = Width ->
         IF b.mode = "device" /\ ~Called(b) THEN [b EXCEPT !.mode = "idle"] ELSE [b EXCEPT !.out = 0]
    [] b.mode = "send" /\ b.n < Width -> [b EXCEPT !.n = @ + 1, !.out = Bit(Content(b), b.n + 1)]
    [] b.mode = "send" /\ b.n = Width -> [b EXCEPT !.n = @ + 1, !.out = 1]
    [] b.mode = "send" /\ b.n > Width -> Sends(Advanced(b))
    [] OTHER -> b

(***************************************************************************)
(* The lines.                                                              *)
(***************************************************************************)
SetSda(b, x) ==
  LET c == [b EXCEPT !.sda = x] IN
  CASE b.scl = 1 /\ Wire(b) > Wire(c) -> Started(c)
    [] b.scl = 1 /\ Wire(b) < Wire(c) -> Stopped(c)
    [] OTHER -> c

SetScl(b, x) ==
  CASE b.scl < x -> Rises([b EXCEPT !.scl = x])
    [] b.scl > x -> Falls([b EXCEPT !.scl = x])
    [] OTHER -> b

M_SDA_OUT(x) == << "sda", x >>
M_SCL_OUT(x) == << "scl", x >>
M_SDA_IN     == << "in" >>

Does(b, event) ==
  CASE event[1] = "sda" -> SetSda(b, event[2])
    [] event[1] = "scl" -> SetScl(b, event[2])
    [] OTHER -> [b EXCEPT !.got = Append(@, Wire(b))]

The(S) == CHOOSE x \in S : TRUE

(* One operation, from the first event to the last; each value is worked   *)
(* out before the next.                                                    *)
Performed(b, events) ==
  LET run[i \in 0 .. Len(events)] ==
        IF i = 0 THEN b ELSE The({ Does(before, events[i]) : before \in {run[i - 1]} })
  IN  run[Len(events)]

After(b, operations) ==
  LET run[i \in 0 .. Len(operations)] ==
        IF i = 0 THEN b ELSE The({ Performed(before, operations[i]) : before \in {run[i - 1]} })
  IN  run[Len(operations)]

(* Wherever it stops: all that the bus goes through on the way.            *)
Passed(b, events) ==
  LET run[i \in 0 .. Len(events)] ==
        IF i = 0 THEN << b >> ELSE The({ Append(p, Does(p[i], events[i])) : p \in {run[i - 1]} })
  IN  Range(run[Len(events)])

Along(b, operations) ==
  UNION { UNION { Passed(before, operations[k]) : before \in {After(b, SubSeq(operations, 1, k - 1))} } :
            k \in DOMAIN operations }

(***************************************************************************)
(* The operations.                                                         *)
(***************************************************************************)
mi2c_init == << M_SCL_OUT(1), M_SDA_OUT(1) >>

mi2c_start == << M_SDA_OUT(0), M_SCL_OUT(0) >>

mi2c_repeat_start == << M_SDA_OUT(1), M_SCL_OUT(1), M_SDA_OUT(0), M_SCL_OUT(0) >>

(* As in module Minic, <Operator>_<Fault> names a seeded fault.            *)
mi2c_stop_SdaFirst == << M_SDA_OUT(0), M_SDA_OUT(1), M_SCL_OUT(1) >>

mi2c_stop == << M_SDA_OUT(0), M_SCL_OUT(1), M_SDA_OUT(1) >>

mi2c_put_byte(data) ==
  [i \in 1 .. 3 * Width |-> CASE i % 3 = 1 -> M_SDA_OUT(Bit(data, i \div 3 + 1))
                              [] i % 3 = 2 -> M_SCL_OUT(1)
                              [] OTHER     -> M_SCL_OUT(0)]
  \o << M_SDA_OUT(1), M_SCL_OUT(1), M_SDA_IN, M_SCL_OUT(0), M_SDA_OUT(0) >>

mi2c_get_byte(last) ==
  << M_SDA_OUT(1), M_SCL_OUT(0) >>
  \o [i \in 1 .. 3 * Width |-> CASE i % 3 = 1 -> M_SCL_OUT(1)
                                 [] i % 3 = 2 -> M_SDA_IN
                                 [] OTHER     -> M_SCL_OUT(0)]
  \o << M_SDA_OUT(IF last THEN 1 ELSE 0), M_SCL_OUT(1), M_SCL_OUT(0) >>

mi2c_devprobe(device) == << mi2c_start, mi2c_put_byte(2 * device), mi2c_stop >>

(* Its result: 0 in the slot of the acknowledgement.                       *)
Acknowledged(b) == b.got[Len(b.got)] = 0

(* The value of the bits from one on.                                      *)
ByteFrom(bits, first) ==
  LET upTo[i \in 0 .. Width] == IF i = 0 THEN 0 ELSE 2 * upTo[i - 1] + bits[first + i - 1]
  IN  upTo[Width]
=============================================================================
