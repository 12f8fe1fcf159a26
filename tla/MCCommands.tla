----------------------------- MODULE MCCommands -----------------------------
(* Every year from 1970 to 2148, with a day of eight seconds; the tables of *)
(* two buses; two transceivers with the same bytes in another order.        *)
EXTENDS Commands, TLC

Numbers == {0, 1, 9, 10, 15, 16, 99, 100, SignBit - 1, SignBit, SignBit + 1, 2 ^ IntBits - 1}
Line(items) == [i \in 1 .. 2 * Len(items) |-> IF i % 2 = 1 THEN items[(i + 1) \div 2]
                                              ELSE Char(IF i < 2 * Len(items) THEN ":" ELSE "\n")]
MCCalls ==
  { [format |-> Line(<< Directive(c1, z, w), Directive("s", FALSE, 0), Directive(c2, FALSE, 0) >>),
     args   |-> << m, << "o", "k" >>, n >>] :
      c1 \in Numeric, c2 \in Numeric, z \in BOOLEAN, w \in {0, 2, 9}, m \in Numbers, n \in {0, 10, SignBit} }
  \cup { [format |-> Line(<< Directive("c", FALSE, 0) >>), args |-> << c >>] : c \in {"a", "-"} }

MCTimes ==
  { [sec |-> (DayOf(y, d[1], d[2]) - DayOf(EPOCH_YR, 0, 1)) * SecsDay + (y % SecsDay), nsec |-> y] :
      y \in 1970 .. 2148, d \in { << 0, 1 >>, << 1, 28 >>, << 1, 29 >>, << 11, 31 >> } }
  \cup { [sec |-> 2 ^ LongBits + 3, nsec |-> 0] }

TopRecords == { DeviceAt(id, a) : id \in Ids, a \in {0, 1, 3} } \cup { BridgeTo(a, 1) : a \in {0, 2} } \cup {EmptyRecord}
MCMaps ==
  { 0 :> top @@ 1 :> below :
      top \in UNION { [1 .. n -> TopRecords] : n \in 0 .. 2 },
      below \in { << DeviceAt(i, a), DeviceAt(j, b) >> : i \in Ids, j \in Ids, a \in {0, 1}, b \in {0, 1} } }

Id(a, b, c, d, e) ==
  [k \in 0 .. Byte - 1 |-> IF k < 6 THEN << a, b, c, d, e, (a + b + c + d + e) % Byte >>[k + 1] ELSE Blank]
MCModules == { Id(3, 1, 5, 2, 6), Id(3, 1, 2, 5, 6) }

Entry(a, b, par) == [pn |-> << a, b >>, par |-> par]
MCLists ==
  { [count |-> n, entry |-> 0 :> Entry(2, 5, "p0") @@ 1 :> Entry(5, 2, "p1") @@ 2 :> Entry(2, 6, "behind")] :
      n \in {0, 1, 2, 3, 5, 7} }

(* Words that make a valid descriptor and words that make none.            *)
MCTxFrames == UNION { [1 .. k -> [valid : BOOLEAN, n : {1}]] : k \in {1, 2, 3, 5} }
=============================================================================
